--------------------------- MODULE SvcRegistration ---------------------------
(***************************************************************************)
(* The life of a Svc object: taken from svc_pool_ and set up by the accept *)
(* thread, registered with the network in three steps (reactor, svc_map_,  *)
(* reg_network_), served and released by the network thread.  The threads  *)
(* share the object without a lock; svc_pool_, svc_list_, svc_map_ and the *)
(* reactor lock each operation of their own.                               *)
(*                                                                         *)
(* Cids are not reused here, their cooling time is long (CidAllocator);    *)
(* objects are, at once.                                                   *)
(***************************************************************************)
EXTENDS Integers, Sequences, FiniteSets

CONSTANTS
    Conn,      \* the connections that clients make: each stands for its fd
    Svc,       \* the Svc objects the pool may allocate
    None,      \* no connection, no object
    MaxDrops   \* bound: most cids waiting in drop_list_

ASSUME RegistrationAssumption ==
    /\ IsFiniteSet(Conn) /\ IsFiniteSet(Svc)
    /\ None \notin Conn \cup Svc
    /\ MaxDrops \in Nat

Cid == 2 .. Cardinality(Conn) + 1

VARIABLES
    fd_state,      \* of every connection's fd: "new", "open" or "closed"
    peer_shut,     \* the connections whose client has gone away
    pool,          \* svc_pool_: the free objects, first in first out
    svc_list,      \* svc_list_: the object that a cid in use stands for
    next_cid,      \* the next index of svc_list_
    fd, cid, closed, alive, reg_network,  \* fields of the objects
    pending_io,    \* the reactor: the object that handles an fd
    svc_map,       \* Network::svc_map_: pairs <<cid, object>>
    accept,        \* accept thread: its step and the object in its hands
    net,           \* network thread: its step and the cid it drops
    drop_list,     \* Network::drop_list_
    told           \* history: the cids the V8 thread was told to be dropped

obj_vars == <<fd, cid, closed, alive, reg_network>>
vars == <<fd_state, peer_shut, pool, svc_list, next_cid, obj_vars, pending_io,
          svc_map, accept, net, drop_list, told>>

AcceptPc == {"idle", "popped", "polled", "mapped"}
NetPc == {"loop", "timer", "drop", "reset", "erased"}

TypeOK ==
    /\ fd_state \in [Conn -> {"new", "open", "closed"}]
    /\ peer_shut \in SUBSET Conn
    /\ pool \in Seq(Svc)
    /\ svc_list \in [Cid -> Svc \cup {None}]
    /\ next_cid \in 2 .. Cardinality(Conn) + 2
    /\ fd \in [Svc -> Conn \cup {None}] /\ cid \in [Svc -> Cid \cup {0}]
    /\ closed \in [Svc -> BOOLEAN] /\ alive \in [Svc -> BOOLEAN]
    /\ reg_network \in [Svc -> BOOLEAN]
    /\ pending_io \in [Conn -> Svc \cup {None}]
    /\ svc_map \in SUBSET ((Cid \cup {0}) \X Svc)
    /\ accept \in [pc : AcceptPc, svc : Svc \cup {None}]
    /\ net \in [pc : NetPc, cid : Cid \cup {0}, svc : Svc \cup {None}]
    /\ drop_list \in Seq(Cid) /\ told \in SUBSET Cid

Init ==
    /\ fd_state = [k \in Conn |-> "new"] /\ peer_shut = {}
    /\ pool = <<>>
    /\ svc_list = [c \in Cid |-> None] /\ next_cid = 2
    /\ fd = [o \in Svc |-> None] /\ cid = [o \in Svc |-> 0]
    /\ closed = [o \in Svc |-> FALSE] /\ alive = [o \in Svc |-> FALSE]
    /\ reg_network = [o \in Svc |-> FALSE]
    /\ pending_io = [k \in Conn |-> None] /\ svc_map = {}
    /\ accept = [pc |-> "idle", svc |-> None]
    /\ net = [pc |-> "loop", cid |-> 0, svc |-> None]
    /\ drop_list = <<>> /\ told = {}

-----------------------------------------------------------------------------
PoolSet == {pool[i] : i \in DOMAIN pool}

(***************************************************************************)
(* The pool hands out its first object, or a new one when it is empty.     *)
(***************************************************************************)
Poppable ==
    IF pool # <<>> THEN {Head(pool)}
    ELSE {o \in Svc : /\ \A c \in Cid : svc_list[c] # o
                      /\ o \notin {accept.svc, net.svc}}

(***************************************************************************)
(* Accept thread, pop_svc up to the registration.  Nobody knows the cid    *)
(* yet, so these assignments are one step.                                 *)
(***************************************************************************)
PopSvc(k) ==
    /\ accept.pc = "idle" /\ fd_state[k] = "new"
    /\ \E o \in Poppable :
          /\ pool' = IF pool # <<>> THEN Tail(pool) ELSE pool
          /\ svc_list' = [svc_list EXCEPT ![next_cid] = o]
          /\ fd' = [fd EXCEPT ![o] = k]
          /\ cid' = [cid EXCEPT ![o] = next_cid]
          /\ closed' = [closed EXCEPT ![o] = FALSE]
          /\ alive' = [alive EXCEPT ![o] = TRUE]
          /\ reg_network' = [reg_network EXCEPT ![o] = FALSE]
          /\ accept' = [pc |-> "popped", svc |-> o]
    /\ next_cid' = next_cid + 1
    /\ fd_state' = [fd_state EXCEPT ![k] = "open"]
    /\ UNCHANGED <<peer_shut, pending_io, svc_map, net, drop_list, told>>

(***************************************************************************)
(* register_svc adds the object to the reactor: input may be handled from  *)
(* now on.                                                                 *)
(***************************************************************************)
AddToReactor ==
    /\ accept.pc = "popped"
    /\ pending_io' = [pending_io EXCEPT ![fd[accept.svc]] = accept.svc]
    /\ accept' = [accept EXCEPT !.pc = "polled"]
    /\ UNCHANGED <<fd_state, peer_shut, pool, svc_list, next_cid, obj_vars,
                   svc_map, net, drop_list, told>>

(***************************************************************************)
(* Then it inserts the object into svc_map_ under the cid it has by now;   *)
(* insert leaves an entry of that cid alone.                               *)
(***************************************************************************)
InsertSvcMap ==
    LET c == cid[accept.svc]
    IN  /\ accept.pc = "polled"
        /\ svc_map' = IF \E e \in svc_map : e[1] = c THEN svc_map
                      ELSE svc_map \cup {<<c, accept.svc>>}
        /\ accept' = [accept EXCEPT !.pc = "mapped"]
        /\ UNCHANGED <<fd_state, peer_shut, pool, svc_list, next_cid, obj_vars,
                       pending_io, net, drop_list, told>>

SetRegNetwork ==
    /\ accept.pc = "mapped"
    /\ reg_network' = [reg_network EXCEPT ![accept.svc] = TRUE]
    /\ accept' = [pc |-> "idle", svc |-> None]
    /\ UNCHANGED <<fd_state, peer_shut, pool, svc_list, next_cid, fd, cid,
                   closed, alive, pending_io, svc_map, net, drop_list, told>>

-----------------------------------------------------------------------------
PeerShuts(k) ==
    /\ fd_state[k] = "open" /\ k \notin peer_shut
    /\ peer_shut' = peer_shut \cup {k}
    /\ UNCHANGED <<fd_state, pool, svc_list, next_cid, obj_vars, pending_io,
                   svc_map, accept, net, drop_list, told>>

(***************************************************************************)
(* Network thread, handle_input: data keeps the object alive, the end of   *)
(* the stream closes it and queues its cid.                                *)
(***************************************************************************)
HandleInput(k) ==
    LET o == pending_io[k]
    IN  /\ net.pc = "loop" /\ fd_state[k] = "open" /\ k \notin peer_shut
        /\ o # None /\ ~closed[o]
        /\ alive' = [alive EXCEPT ![o] = TRUE]
        /\ UNCHANGED <<fd_state, peer_shut, pool, svc_list, next_cid, fd, cid,
                       closed, reg_network, pending_io, svc_map, accept, net,
                       drop_list, told>>

HandleEof(k) ==
    LET o == pending_io[k]
    IN  /\ net.pc = "loop" /\ fd_state[k] = "open" /\ k \in peer_shut
        /\ o # None /\ ~closed[o]
        /\ alive' = [alive EXCEPT ![o] = TRUE]
        /\ closed' = [closed EXCEPT ![o] = TRUE]
        /\ drop_list' = Append(drop_list, cid[o])
        /\ UNCHANGED <<fd_state, peer_shut, pool, svc_list, next_cid, fd, cid,
                       reg_network, pending_io, svc_map, accept, net, told>>

(***************************************************************************)
(* V8 thread, drop_info_tick: a cid the script has learned from a message, *)
(* however long ago, is queued to be dropped.                              *)
(***************************************************************************)
PushDrop(c) ==
    /\ c < next_cid /\ Len(drop_list) < MaxDrops
    /\ accept.pc = "popped" => c # cid[accept.svc]
    /\ drop_list' = Append(drop_list, c)
    /\ UNCHANGED <<fd_state, peer_shut, pool, svc_list, next_cid, obj_vars,
                   pending_io, svc_map, accept, net, told>>

TimerFires ==
    /\ net.pc = "loop"
    /\ net' = [net EXCEPT !.pc = "timer"]
    /\ UNCHANGED <<fd_state, peer_shut, pool, svc_list, next_cid, obj_vars,
                   pending_io, svc_map, accept, drop_list, told>>

\* Mutant of ProcessDrop: closed_ is not set before the release.
ProcessDropNotClosed ==
    LET c == Head(drop_list)
        o == svc_list[c]
    IN  /\ net.pc = "timer" /\ drop_list # <<>>
        /\ drop_list' = Tail(drop_list)
        /\ net' = [pc |-> "drop", cid |-> c, svc |-> None]
        /\ \/ /\ o = None
              /\ UNCHANGED <<closed, reg_network, pending_io, svc_map>>
           \/ /\ o # None /\ ~reg_network[o]
              /\ UNCHANGED closed
              /\ UNCHANGED <<reg_network, pending_io, svc_map>>
           \/ /\ o # None /\ reg_network[o]
              /\ UNCHANGED closed
              /\ pending_io' = [pending_io EXCEPT ![fd[o]] = None]
              /\ svc_map' = {e \in svc_map : e[1] # cid[o]}
              /\ reg_network' = [reg_network EXCEPT ![o] = FALSE]
        /\ UNCHANGED <<fd_state, peer_shut, pool, svc_list, next_cid, fd, cid,
                       alive, accept, told>>

(***************************************************************************)
(* process_drop, first half: the object found by the cid is closed, and    *)
(* unregistered if its flag says that it is registered.                    *)
(***************************************************************************)
ProcessDrop ==
    LET c == Head(drop_list)
        o == svc_list[c]
    IN  /\ net.pc = "timer" /\ drop_list # <<>>
        /\ drop_list' = Tail(drop_list)
        /\ net' = [pc |-> "drop", cid |-> c, svc |-> None]
        /\ \/ /\ o = None
              /\ UNCHANGED <<closed, reg_network, pending_io, svc_map>>
           \/ /\ o # None /\ ~reg_network[o]
              /\ closed' = [closed EXCEPT ![o] = TRUE]
              /\ UNCHANGED <<reg_network, pending_io, svc_map>>
           \/ /\ o # None /\ reg_network[o]
              /\ closed' = [closed EXCEPT ![o] = TRUE]
              /\ pending_io' = [pending_io EXCEPT ![fd[o]] = None]
              /\ svc_map' = {e \in svc_map : e[1] # cid[o]}
              /\ reg_network' = [reg_network EXCEPT ![o] = FALSE]
        /\ UNCHANGED <<fd_state, peer_shut, pool, svc_list, next_cid, fd, cid,
                       alive, accept, told>>

(***************************************************************************)
(* process_drop, second half: post_drop_cid, then push_svc closes the fd   *)
(* and resets the object.                                                  *)
(***************************************************************************)
DropHandler ==
    LET o == svc_list[net.cid]
    IN  /\ net.pc = "drop"
        /\ told' = told \cup {net.cid}
        /\ \/ /\ o = None
              /\ net' = [pc |-> "timer", cid |-> 0, svc |-> None]
              /\ UNCHANGED <<fd_state, obj_vars>>
           \/ /\ o # None
              /\ fd_state' = IF closed[o] THEN [fd_state EXCEPT ![fd[o]] = "closed"]
                             ELSE fd_state
              /\ fd' = [fd EXCEPT ![o] = None]
              /\ cid' = [cid EXCEPT ![o] = 0]
              /\ closed' = [closed EXCEPT ![o] = FALSE]
              /\ alive' = [alive EXCEPT ![o] = FALSE]
              /\ reg_network' = [reg_network EXCEPT ![o] = FALSE]
              /\ net' = [net EXCEPT !.pc = "reset", !.svc = o]
        /\ UNCHANGED <<peer_shut, pool, svc_list, next_cid, pending_io, svc_map,
                       accept, drop_list>>

\* Mutant of EraseSvc: the cid stays in the list of used ones.
EraseSvcForgotten ==
    /\ net.pc = "reset"
    /\ net' = [net EXCEPT !.pc = "erased"]
    /\ UNCHANGED <<fd_state, peer_shut, pool, svc_list, next_cid, obj_vars, pending_io,
                   svc_map, accept, drop_list, told>>

(***************************************************************************)
(* push_svc goes on: the cid is erased, then the object is pooled.         *)
(***************************************************************************)
EraseSvc ==
    /\ net.pc = "reset"
    /\ svc_list' = [svc_list EXCEPT ![net.cid] = None]
    /\ net' = [net EXCEPT !.pc = "erased"]
    /\ UNCHANGED <<fd_state, peer_shut, pool, next_cid, obj_vars, pending_io,
                   svc_map, accept, drop_list, told>>

PoolSvc ==
    /\ net.pc = "erased"
    /\ pool' = Append(pool, net.svc)
    /\ net' = [pc |-> "timer", cid |-> 0, svc |-> None]
    /\ UNCHANGED <<fd_state, peer_shut, svc_list, next_cid, obj_vars,
                   pending_io, svc_map, accept, drop_list, told>>

(***************************************************************************)
(* The rest of handle_timeout when the heartbeat is due: the entries of    *)
(* svc_map_ are visited in turn, an object in two entries twice.  To close *)
(* an object that was reset ends the process: its endpoint_ is null.       *)
(***************************************************************************)
Entries(o) == Cardinality({e \in svc_map : e[2] = o})

BeatenTwice(o) == alive[o] /\ Entries(o) > 1

HeartbeatScan ==
    LET open == {o \in Svc : Entries(o) > 0 /\ ~closed[o]}
        dead == {o \in open : ~alive[o] \/ BeatenTwice(o)}
    IN  /\ net.pc = "timer" /\ drop_list = <<>>
        /\ \A o \in dead : cid[o] # 0
        /\ alive' = [o \in Svc |-> alive[o] /\ o \notin open]
        /\ closed' = [o \in Svc |-> closed[o] \/ o \in dead]
        /\ \E order \in [1 .. Cardinality(dead) -> dead] :
              /\ \A i, j \in DOMAIN order : order[i] = order[j] => i = j
              /\ drop_list' = drop_list \o [i \in DOMAIN order |-> cid[order[i]]]
        /\ net' = [net EXCEPT !.pc = "loop"]
        /\ UNCHANGED <<fd_state, peer_shut, pool, svc_list, next_cid, fd, cid,
                       reg_network, pending_io, svc_map, accept, told>>

TimerEnds ==
    /\ net.pc = "timer" /\ drop_list = <<>>
    /\ net' = [net EXCEPT !.pc = "loop"]
    /\ UNCHANGED <<fd_state, peer_shut, pool, svc_list, next_cid, obj_vars,
                   pending_io, svc_map, accept, drop_list, told>>

Next ==
    \/ \E k \in Conn : PopSvc(k) \/ PeerShuts(k) \/ HandleInput(k) \/ HandleEof(k)
    \/ AddToReactor \/ InsertSvcMap \/ SetRegNetwork
    \/ \E c \in Cid : PushDrop(c)
    \/ TimerFires \/ ProcessDrop \/ DropHandler \/ EraseSvc \/ PoolSvc
    \/ HeartbeatScan \/ TimerEnds

Spec == Init /\ [][Next]_vars

-----------------------------------------------------------------------------
InUse(o) == \E c \in Cid : svc_list[c] = o

(***************************************************************************)
(* An object is in the pool once at most, and never while a cid stands for *)
(* it: two connections cannot get the same object, although any number of  *)
(* drops of the same cid may be queued (push_svc).                         *)
(***************************************************************************)
ObjectsNotShared ==
    /\ \A i, j \in DOMAIN pool : pool[i] = pool[j] => i = j
    /\ \A o \in PoolSet : ~InUse(o)
    /\ \A c, d \in Cid : svc_list[c] = svc_list[d] /\ svc_list[c] # None => c = d

(***************************************************************************)
(* No fd leaks: an fd is open only while an object in use holds it, and an *)
(* object gives up its fd only by closing it (push_svc, close_fd).         *)
(***************************************************************************)
OpenFdIsHeld ==
    \A k \in Conn : fd_state[k] = "open" =>
        \E o \in Svc : fd[o] = k /\ InUse(o)

(***************************************************************************)
(* reg_network_ tells whether the object is registered with the network:   *)
(* when no thread is at work, the objects in svc_map_ have it set.         *)
(***************************************************************************)
RegNetworkTruthful ==
    (accept.pc = "idle" /\ net.pc = "loop")
        => \A e \in svc_map : reg_network[e[2]] /\ cid[e[2]] = e[1]

(***************************************************************************)
(* A new object is set alive so that the heartbeat does not close it: one  *)
(* heartbeat never both marks and closes an object (pop_svc,               *)
(* handle_timeout).                                                        *)
(***************************************************************************)
AliveSurvivesBeat ==
    [][\A o \in Svc : (net.pc = "timer" /\ net'.pc = "loop" /\ alive[o] /\ ~closed[o])
          => ~closed'[o]]_vars
=============================================================================
