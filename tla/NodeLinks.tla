------------------------------ MODULE NodeLinks ------------------------------
(***************************************************************************)
(* The connectors of a node: its links to other servers, and how they are  *)
(* made again after a server went away.                                    *)
(*                                                                         *)
(* Each connector has a network thread (Epoll_Watcher::loop).  It finds    *)
(* the end of the connection when it reads or writes, drops it, and queues *)
(* the endpoint for the V8 thread (process_drop, post_drop_cid), which     *)
(* connects anew (V8_Manager::process_drop_eid).                           *)
(*                                                                         *)
(* Two kinds of locks are held while another is waited for: notify_lock_,  *)
(* which the V8 thread holds for a whole round of its loop, connecting     *)
(* included, and io_lock_ of each reactor, which a network thread holds    *)
(* while it handles input.  The locks of lists, tables and svc_map_ are    *)
(* released before another is taken.  A connection is of an object of its  *)
(* own here; SvcRegistration has objects shared and used again.            *)
(***************************************************************************)
EXTENDS Integers, Sequences, FiniteSets

CONSTANTS
    Connectors,   \* the connectors; each is named for the server it connects to
    MaxMessages   \* bound: how many messages the servers send

ASSUME LinkAssumption == MaxMessages \in Nat

VARIABLES
    listening,      \* the servers whose process accepts connections
    ended,          \* by connector and cid: whether the server's end is gone
    closed,         \* Svc::closed_
    svc_list,       \* the cids in use
    pending_io,     \* the cids the reactor knows
    reg_network,    \* the cids registered for good
    ready,          \* the cids epoll has an event for
    unread,         \* the cids with data that has arrived
    link_cid,       \* Connector::cid_
    drop_list,      \* Network::drop_list_
    net,            \* network threads: where they are, and the cid they handle
    v8,             \* V8 thread: where it is, and the cid it connects
    drop_eid_list,  \* V8_Manager::drop_eid_list_
    buffer_list,    \* V8_Manager::buffer_list_: how many
    sent            \* messages sent so far

svc_vars == <<ended, closed, svc_list, pending_io, reg_network, ready, unread>>
queue_vars == <<drop_eid_list, buffer_list>>
link_vars == <<listening, svc_vars, link_cid, drop_list, net, v8, queue_vars, sent>>

\* Where the threads may be: out of any lock, waiting for one, or holding one.
NetPc == {"loop", "timer", "input", "post_msg", "post_drop", "release"}
V8Pc == {"init", "out", "waits", "drop_eid", "add_io", "registered", "buffer"}

\* Types, for any constants (the proofs start from it).
linkTypeOK ==
    /\ ended \in [Connectors -> Seq(BOOLEAN)]
    /\ closed \in [Connectors -> SUBSET Nat] /\ svc_list \in [Connectors -> SUBSET Nat]
    /\ pending_io \in [Connectors -> SUBSET Nat] /\ reg_network \in [Connectors -> SUBSET Nat]
    /\ ready \in [Connectors -> SUBSET Nat] /\ unread \in [Connectors -> SUBSET Nat]
    /\ link_cid \in [Connectors -> Int]
    /\ drop_list \in [Connectors -> Seq(Nat)]
    /\ net \in [Connectors -> [pc : NetPc, cid : Nat]]
    /\ v8 \in [pc : V8Pc, cid : Nat]
    /\ drop_eid_list \in Seq(Connectors)
    /\ listening \subseteq Connectors /\ buffer_list \in Nat /\ sent \in Nat

At(pc, c) == [pc |-> pc, cid |-> c]

linkInit ==
    /\ listening = {}
    /\ ended = [e \in Connectors |-> <<>>] /\ closed = [e \in Connectors |-> {}]
    /\ svc_list = closed /\ pending_io = closed /\ reg_network = closed
    /\ ready = closed /\ unread = closed
    /\ link_cid = [e \in Connectors |-> -1]
    /\ drop_list = [e \in Connectors |-> <<>>]
    /\ net = [e \in Connectors |-> At("loop", 0)]
    /\ v8 = At("init", 0)
    /\ drop_eid_list = <<>> /\ buffer_list = 0 /\ sent = 0

NextCid(e) == Len(ended[e]) + 1
Add(f, e, c) == [f EXCEPT ![e] = @ \cup {c}]
Without(f, e, c) == [f EXCEPT ![e] = @ \ {c}]

\* notify_lock_ is held for the V8 thread's round; the network threads take it for a push.
NotifyFree == v8.pc \in {"init", "waits", "out"}
\* io_lock_ is held from epoll_wait's return to the next round of the loop.
IoHeld(e) == net[e].pc \in {"input", "post_msg"}

\* push and signal: a thread that waits for the condition goes for the lock again.
Signal == v8' = IF v8.pc = "waits" THEN At("out", 0) ELSE v8

(* The servers *)

ServerListens(e) ==
    /\ e \notin listening /\ listening' = listening \cup {e}
    /\ UNCHANGED <<svc_vars, link_cid, drop_list, net, v8, queue_vars, sent>>

\* A process ends, and with it its end of every connection.
ServerEnds(e) ==
    /\ listening' = listening \ {e}
    /\ ended' = [ended EXCEPT ![e] = [c \in DOMAIN @ |-> TRUE]]
    /\ ready' = [ready EXCEPT ![e] = @ \cup {c \in pending_io[e] : ~ended[e][c]}]
    /\ UNCHANGED <<closed, svc_list, pending_io, reg_network, unread, link_cid, drop_list, net, v8,
                   queue_vars, sent>>

ServerSends(e, c) ==
    /\ sent < MaxMessages /\ sent' = sent + 1
    /\ ~ended[e][c]
    /\ unread' = Add(unread, e, c)
    /\ ready' = IF c \in pending_io[e] THEN Add(ready, e, c) ELSE ready
    /\ UNCHANGED <<listening, ended, closed, svc_list, pending_io, reg_network, link_cid, drop_list,
                   net, v8, queue_vars>>

(* Network threads *)

HandleClose(e, c) ==
    IF c \in closed[e] THEN UNCHANGED <<closed, drop_list>>
    ELSE /\ closed' = Add(closed, e, c)
         /\ drop_list' = [drop_list EXCEPT ![e] = Append(@, c)]

\* The timer: process_drop takes one cid after another, ...
TakeDrop(e) ==
    /\ net[e].pc \in {"loop", "timer"} /\ drop_list[e] # <<>>
    /\ LET c == Head(drop_list[e])
       IN  /\ drop_list' = [drop_list EXCEPT ![e] = Tail(@)]
           /\ net' = [net EXCEPT ![e] = At("post_drop", c)]
           /\ closed' = IF c \in svc_list[e] THEN Add(closed, e, c) ELSE closed
           /\ IF c \in svc_list[e] \cap reg_network[e]
              THEN /\ pending_io' = Without(pending_io, e, c)
                   /\ ready' = Without(ready, e, c)
                   /\ reg_network' = Without(reg_network, e, c)
              ELSE UNCHANGED <<pending_io, ready, reg_network>>
    /\ UNCHANGED <<listening, ended, svc_list, unread, link_cid, v8, queue_vars, sent>>

\* ... tells the V8 thread (drop_handler, post_drop_cid) ...
PostDrop(e) ==
    /\ net[e].pc = "post_drop" /\ NotifyFree
    /\ drop_eid_list' = Append(drop_eid_list, e) /\ Signal
    /\ net' = [net EXCEPT ![e].pc = "release"]
    /\ UNCHANGED <<listening, svc_vars, link_cid, drop_list, buffer_list, sent>>

\* ... and releases the connection (push_svc); closing the fd takes it out of epoll.
PushSvc(e) ==
    /\ net[e].pc = "release"
    /\ LET c == net[e].cid
       IN  /\ svc_list' = Without(svc_list, e, c)
           /\ ended' = [ended EXCEPT ![e][c] = TRUE]
           /\ pending_io' = Without(pending_io, e, c) /\ ready' = Without(ready, e, c)
    /\ net' = [net EXCEPT ![e] = At("timer", 0)]
    /\ UNCHANGED <<listening, closed, reg_network, unread, link_cid, drop_list, v8, queue_vars, sent>>

\* Then it writes what there is to write, which may fail.
VisitSvcs(e) ==
    /\ drop_list[e] = <<>>
    /\ \/ net[e].pc = "timer" /\ UNCHANGED <<closed, drop_list>>
       \/ /\ net[e].pc \in {"loop", "timer"}
          /\ \E c \in reg_network[e] \ closed[e] : ended[e][c] /\ HandleClose(e, c)
    /\ net' = [net EXCEPT ![e] = At("loop", 0)]
    /\ UNCHANGED <<listening, ended, svc_list, pending_io, reg_network, ready, unread, link_cid, v8,
                   queue_vars, sent>>

\* epoll_wait has an event (EPOLLET: once), and io_lock_ is taken.
Poll(e) ==
    /\ net[e].pc = "loop"
    /\ \E c \in ready[e] :
          /\ net' = [net EXCEPT ![e] = At("input", c)]
          /\ ready' = Without(ready, e, c)
    /\ UNCHANGED <<listening, ended, closed, svc_list, pending_io, reg_network, unread, link_cid,
                   drop_list, v8, queue_vars, sent>>

\* Data read before an end of stream goes with it.
HandleInput(e) ==
    /\ net[e].pc = "input"
    /\ LET c == net[e].cid
       IN  IF c \in closed[e] \/ (~ended[e][c] /\ c \notin unread[e])
           THEN /\ net' = [net EXCEPT ![e] = At("loop", 0)]
                /\ UNCHANGED <<closed, unread, drop_list>>
           ELSE /\ unread' = Without(unread, e, c)
                /\ IF ended[e][c]
                   THEN HandleClose(e, c) /\ net' = [net EXCEPT ![e] = At("loop", 0)]
                   ELSE /\ net' = [net EXCEPT ![e].pc = "post_msg"]
                        /\ UNCHANGED <<closed, drop_list>>
    /\ UNCHANGED <<listening, ended, svc_list, pending_io, reg_network, ready, link_cid, v8,
                   queue_vars, sent>>

PostMsg(e) ==
    /\ net[e].pc = "post_msg" /\ NotifyFree
    /\ buffer_list' = buffer_list + 1 /\ Signal
    /\ net' = [net EXCEPT ![e] = At("loop", 0)]
    /\ UNCHANGED <<listening, svc_vars, link_cid, drop_list, drop_eid_list, sent>>

NetworkRuns(e) ==
    \/ TakeDrop(e) \/ PostDrop(e) \/ PushSvc(e) \/ VisitSvcs(e)
    \/ Poll(e) \/ HandleInput(e) \/ PostMsg(e)

(* Connecting: Connect::connect, pop_svc and register_svc *)

Connected(e) ==
    /\ ended' = [ended EXCEPT ![e] = Append(@, FALSE)]
    /\ svc_list' = Add(svc_list, e, NextCid(e))

\* Node_Manager::init connects the connectors before the V8 thread starts, each in one
\* step here; that it gives the process up after a million tries is left out.
InitConnects(e) ==
    /\ v8.pc = "init" /\ e \in listening /\ link_cid[e] = -1
    /\ Connected(e)
    /\ pending_io' = Add(pending_io, e, NextCid(e)) /\ reg_network' = Add(reg_network, e, NextCid(e))
    /\ link_cid' = [link_cid EXCEPT ![e] = NextCid(e)]
    /\ UNCHANGED <<listening, closed, ready, unread, drop_list, net, v8, queue_vars, sent>>

ThreadCreated ==
    /\ v8.pc = "init" /\ \A e \in Connectors : link_cid[e] # -1
    /\ v8' = At("out", 0)
    /\ UNCHANGED <<listening, svc_vars, link_cid, drop_list, net, queue_vars, sent>>

(* The V8 thread: one round of process_list *)

\* The lock is taken, and given up again when there is nothing to do.
RoundStarts ==
    /\ v8.pc = "out"
    /\ v8' = At(IF drop_eid_list # <<>> THEN "drop_eid"
                ELSE IF buffer_list > 0 THEN "buffer" ELSE "waits", 0)
    /\ UNCHANGED <<listening, svc_vars, link_cid, drop_list, net, queue_vars, sent>>

\* Mutant of ConnectFails: the endpoint is taken out of the queue before it is connected.
ConnectFailsOnce ==
    /\ v8.pc = "drop_eid" /\ Head(drop_eid_list) \notin listening
    /\ v8' = At("buffer", 0)
    /\ link_cid' = [link_cid EXCEPT ![Head(drop_eid_list)] = -1]
    /\ drop_eid_list' = Tail(drop_eid_list)
    /\ UNCHANGED <<listening, svc_vars, drop_list, net, buffer_list, sent>>

\* Every one of a million tries fails.
ConnectFails ==
    /\ v8.pc = "drop_eid" /\ Head(drop_eid_list) \notin listening
    /\ v8' = At("buffer", 0)
    /\ link_cid' = [link_cid EXCEPT ![Head(drop_eid_list)] = -1]
    /\ UNCHANGED <<listening, svc_vars, drop_list, net, queue_vars, sent>>

ConnectServer ==
    /\ v8.pc = "drop_eid" /\ Head(drop_eid_list) \in listening
    /\ Connected(Head(drop_eid_list))
    /\ v8' = At("add_io", NextCid(Head(drop_eid_list)))
    /\ UNCHANGED <<listening, closed, pending_io, reg_network, ready, unread, link_cid, drop_list, net,
                   queue_vars, sent>>

\* From here on the network thread may read it.
AddIo ==
    /\ v8.pc = "add_io" /\ ~IoHeld(Head(drop_eid_list))
    /\ LET e == Head(drop_eid_list)
       IN  /\ pending_io' = Add(pending_io, e, v8.cid)
           /\ ready' = IF ended[e][v8.cid] \/ v8.cid \in unread[e] THEN Add(ready, e, v8.cid) ELSE ready
    /\ v8' = [v8 EXCEPT !.pc = "registered"]
    /\ UNCHANGED <<listening, ended, closed, svc_list, reg_network, unread, link_cid, drop_list, net,
                   queue_vars, sent>>

\* Mutant of Introduce: the endpoint stays in the queue.
IntroduceKeepsEid ==
    /\ v8.pc = "registered"
    /\ LET e == Head(drop_eid_list)
       IN  /\ reg_network' = Add(reg_network, e, v8.cid)
           /\ link_cid' = [link_cid EXCEPT ![e] = v8.cid]
    /\ v8' = At("buffer", 0)
    /\ UNCHANGED <<listening, ended, closed, svc_list, pending_io, ready, unread, drop_list, net,
                   queue_vars, sent>>

\* set_reg_network, cid_, and process_drop_eid after it: the endpoint leaves the queue and
\* the script introduces the node (on_drop_eid).
Introduce ==
    /\ v8.pc = "registered"
    /\ LET e == Head(drop_eid_list)
       IN  /\ reg_network' = Add(reg_network, e, v8.cid)
           /\ link_cid' = [link_cid EXCEPT ![e] = v8.cid]
    /\ drop_eid_list' = Tail(drop_eid_list)
    /\ v8' = At("buffer", 0)
    /\ UNCHANGED <<listening, ended, closed, svc_list, pending_io, ready, unread, drop_list, net,
                   buffer_list, sent>>

ProcessBuffer ==
    /\ v8.pc = "buffer" /\ v8' = At("out", 0)
    /\ buffer_list' = IF buffer_list > 0 THEN buffer_list - 1 ELSE 0
    /\ UNCHANGED <<listening, svc_vars, link_cid, drop_list, net, drop_eid_list, sent>>

V8Runs == RoundStarts \/ ConnectFails \/ ConnectServer \/ AddIo \/ Introduce \/ ProcessBuffer

-----------------------------------------------------------------------------
Linked(e) ==
    /\ link_cid[e] \in svc_list[e] \cap pending_io[e]
    /\ ~ended[e][link_cid[e]]

(***************************************************************************)
(* The network threads hold the lock of their reactor while they wait for  *)
(* that of the V8 thread, which holds its own while it registers a         *)
(* connection: no two of them wait for each other (watcher_loop,           *)
(* push_buffer, process_drop_eid, add_io).                                 *)
(***************************************************************************)
NoCircularWait ==
    \A e \in Connectors :
        ~ (v8.pc = "add_io" /\ Head(drop_eid_list) = e /\ net[e].pc = "post_msg")
=============================================================================
