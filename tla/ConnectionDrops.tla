--------------------------- MODULE ConnectionDrops ---------------------------
(***************************************************************************)
(* How connections of a CLIENT_SERVER endpoint come and go, in time.       *)
(*                                                                         *)
(*   - the accept thread numbers a new connection and registers it         *)
(*     (Endpoint::pop_svc);                                                *)
(*   - the network thread reads it, notices its end, checks its heartbeat, *)
(*     and releases dropped cids (Svc::handle_input, Network);             *)
(*   - the V8 thread handles messages, asks for connections to be closed   *)
(*     one second later (V8_Manager::push_drop, drop_info_tick), and hears *)
(*     of dropped cids (process_drop_cid).                                 *)
(*                                                                         *)
(* A request to drop a connection travels as a bare cid through two queues *)
(* while the cid may be released and numbered anew.  The records carry the *)
(* connection that was meant only so that properties can speak of it: no   *)
(* guard reads it.  svc_list_ is an instance of CidAllocator.              *)
(***************************************************************************)
EXTENDS Integers, Sequences, FiniteSets

CONSTANTS
    Conn,              \* the connections that clients make, one after another
    NoConn,            \* no connection
    EraseInterval,     \* Svc_Static_List::erase_interval_
    DropDelay,         \* the wait of drop_info_tick before it closes
    HeartbeatTimeout,  \* Network::heartbeat_timeout_, 0 when switched off
    MaxLag,            \* assumed: the longest a queued entry stays unhandled
    MaxSize, MaxTime,  \* bounds of the cid table and of the clock
    MaxQueue           \* bound: most messages, and delayed closes, that wait

ASSUME DropsAssumption ==
    /\ NoConn \notin Conn
    /\ EraseInterval \in Nat /\ DropDelay \in Nat /\ HeartbeatTimeout \in Nat
    /\ MaxLag \in Nat \ {0}
    /\ MaxSize \in Nat /\ MaxSize >= 2
    /\ MaxTime \in Nat /\ MaxQueue \in Nat

(***************************************************************************)
(* The cooling time covers the longest way a cid can travel: as a message  *)
(* that waits, as the delayed close it asks for, in the network's queue,   *)
(* and back to the V8 thread.  In the code it is 12 minutes, and the       *)
(* delayed close takes one second.                                         *)
(***************************************************************************)
ASSUME CoolingCoversDrops == EraseInterval >= DropDelay + 4 * MaxLag

VARIABLES
    owner, free, size, now,  \* svc_list_ and the clock (CidAllocator)
    peer,            \* "new", "open" or "shut": the client's end
    closed, alive,   \* Svc::closed_, Svc::alive_
    registered,      \* svc_map_: the connections the network thread serves
    net,             \* network thread: "loop", or "timer" in handle_timeout
    heartbeat_tv,    \* Network::heartbeat_tv_
    drop_list,       \* Network::drop_list_
    drop_cid_list,   \* V8_Manager::drop_cid_list_
    buffer_list,     \* V8_Manager::buffer_list_
    drop_info_list,  \* V8_Manager::drop_info_list_
    last_input,      \* history: when the connection was last heard of
    told             \* history: connections whose end the V8 thread has heard

list_vars == <<owner, free, size, now>>
v8_vars == <<drop_cid_list, buffer_list, drop_info_list, told>>
svc_vars == <<peer, closed, alive, registered, last_input>>
net_vars == <<net, heartbeat_tv, drop_list>>
vars == <<list_vars, v8_vars, svc_vars, net_vars>>

SvcList == INSTANCE CidAllocator WITH Svc <- Conn, NoSvc <- NoConn

Cid == SvcList!Cid

Entry == [cid : Cid, conn : Conn, at : Nat]

TypeOK ==
    /\ SvcList!TypeOK
    /\ peer \in [Conn -> {"new", "open", "shut"}]
    /\ closed \in [Conn -> BOOLEAN] /\ alive \in [Conn -> BOOLEAN]
    /\ registered \in SUBSET Conn
    /\ net \in {"loop", "timer"} /\ heartbeat_tv \in Nat
    /\ drop_list \in Seq(Entry) /\ drop_cid_list \in Seq(Entry)
    /\ buffer_list \in Seq(Entry) /\ drop_info_list \in Seq(Entry)
    /\ last_input \in [Conn -> Nat] /\ told \in SUBSET Conn

Init ==
    /\ SvcList!Init
    /\ peer = [k \in Conn |-> "new"]
    /\ closed = [k \in Conn |-> FALSE] /\ alive = [k \in Conn |-> FALSE]
    /\ registered = {}
    /\ net = "loop" /\ heartbeat_tv = HeartbeatTimeout
    /\ drop_list = <<>> /\ drop_cid_list = <<>>
    /\ buffer_list = <<>> /\ drop_info_list = <<>>
    /\ last_input = [k \in Conn |-> 0] /\ told = {}

-----------------------------------------------------------------------------
CidOf(k) == CHOOSE c \in Cid : owner[c] = k

EntryFor(k) == [cid |-> CidOf(k), conn |-> k, at |-> now]

(***************************************************************************)
(* The client goes away; nobody has noticed yet.                           *)
(***************************************************************************)
PeerShuts(k) ==
    /\ peer[k] = "open"
    /\ peer' = [peer EXCEPT ![k] = "shut"]
    /\ UNCHANGED <<list_vars, v8_vars, net_vars, closed, alive, registered,
                   last_input>>

\* Mutant of AcceptSvc: a released cid is handed out without cooling down.
AcceptSvcHotReuse(k) ==
    /\ peer[k] = "new"
    /\ \/ SvcList!RecordNew(k)
       \/ /\ free # <<>>
          /\ owner' = [owner EXCEPT ![Head(free).cid] = k]
          /\ free' = Tail(free)
          /\ UNCHANGED <<size, now>>
    /\ peer' = [peer EXCEPT ![k] = "open"]
    /\ closed' = [closed EXCEPT ![k] = FALSE]
    /\ alive' = [alive EXCEPT ![k] = TRUE]
    /\ registered' = registered \cup {k}
    /\ last_input' = [last_input EXCEPT ![k] = now]
    /\ UNCHANGED <<v8_vars, net_vars>>

(***************************************************************************)
(* Accept thread, pop_svc: record the connection, mark it alive, register  *)
(* it with the network.                                                    *)
(***************************************************************************)
AcceptSvc(k) ==
    /\ peer[k] = "new"
    /\ SvcList!RecordNew(k) \/ SvcList!RecordReuse(k)
    /\ peer' = [peer EXCEPT ![k] = "open"]
    /\ closed' = [closed EXCEPT ![k] = FALSE]
    /\ alive' = [alive EXCEPT ![k] = TRUE]
    /\ registered' = registered \cup {k}
    /\ last_input' = [last_input EXCEPT ![k] = now]
    /\ UNCHANGED <<v8_vars, net_vars>>

(***************************************************************************)
(* Svc::handle_close: only the first close of a connection queues a drop.  *)
(***************************************************************************)
HandleClose(K) ==
    /\ closed' = [k \in Conn |-> closed[k] \/ k \in K]
    /\ \E order \in [1 .. Cardinality(K) -> K] :
          /\ \A i, j \in DOMAIN order : order[i] = order[j] => i = j
          /\ drop_list' = drop_list \o [i \in DOMAIN order |-> EntryFor(order[i])]

\* Mutant of HandleInput: data does not mark the connection alive.
HandleInputNotAlive(k) ==
    /\ net = "loop" /\ k \in registered /\ ~closed[k] /\ peer[k] = "open"
    /\ Len(buffer_list) < MaxQueue
    /\ last_input' = [last_input EXCEPT ![k] = now]
    /\ buffer_list' = Append(buffer_list, EntryFor(k))
    /\ UNCHANGED <<list_vars, net_vars, peer, closed, alive, registered,
                   drop_cid_list, drop_info_list, told>>

(***************************************************************************)
(* Network thread, handle_input on data: the connection is alive, and a    *)
(* message is posted to the V8 thread.                                     *)
(***************************************************************************)
HandleInput(k) ==
    /\ net = "loop" /\ k \in registered /\ ~closed[k] /\ peer[k] = "open"
    /\ Len(buffer_list) < MaxQueue
    /\ alive' = [alive EXCEPT ![k] = TRUE]
    /\ last_input' = [last_input EXCEPT ![k] = now]
    /\ buffer_list' = Append(buffer_list, EntryFor(k))
    /\ UNCHANGED <<list_vars, net_vars, peer, closed, registered,
                   drop_cid_list, drop_info_list, told>>

\* Mutant of HandleEof: closed_ is set first, so that handle_close does nothing.
HandleEofClosedFirst(k) ==
    /\ net = "loop" /\ k \in registered /\ ~closed[k] /\ peer[k] = "shut"
    /\ alive' = [alive EXCEPT ![k] = TRUE]
    /\ closed' = [closed EXCEPT ![k] = TRUE]
    /\ UNCHANGED <<list_vars, v8_vars, peer, registered, last_input, net_vars>>

(***************************************************************************)
(* Network thread, handle_input on an error or the end of the stream.      *)
(***************************************************************************)
HandleEof(k) ==
    /\ net = "loop" /\ k \in registered /\ ~closed[k] /\ peer[k] = "shut"
    /\ alive' = [alive EXCEPT ![k] = TRUE]
    /\ HandleClose({k})
    /\ UNCHANGED <<list_vars, v8_vars, peer, registered, last_input, net,
                   heartbeat_tv>>

(***************************************************************************)
(* V8 thread, push_send_buffer on a full send list: the sender closes.     *)
(***************************************************************************)
SendListFull(k) ==
    /\ k \in registered /\ ~closed[k]
    /\ HandleClose({k})
    /\ UNCHANGED <<list_vars, v8_vars, peer, alive, registered, last_input,
                   net, heartbeat_tv>>

-----------------------------------------------------------------------------
HeartbeatDue == HeartbeatTimeout > 0 /\ now >= heartbeat_tv

(***************************************************************************)
(* The 10 ms timer of the network thread.  A timeout that finds nothing to *)
(* do is left out.                                                         *)
(***************************************************************************)
TimerFires ==
    /\ net = "loop"
    /\ drop_list # <<>> \/ HeartbeatDue
    /\ net' = "timer"
    /\ UNCHANGED <<list_vars, v8_vars, svc_vars, heartbeat_tv, drop_list>>

(***************************************************************************)
(* One turn of process_drop.  The cid is all it has: whatever connection   *)
(* bears it now is closed, unregistered and released.  The V8 thread hears *)
(* of the cid even when no connection bears it (drop_handler).             *)
(***************************************************************************)
ProcessDrop ==
    /\ net = "timer" /\ drop_list # <<>>
    /\ LET d == Head(drop_list)
           k == owner[d.cid]
       IN  /\ drop_list' = Tail(drop_list)
           /\ drop_cid_list' = Append(drop_cid_list, [d EXCEPT !.at = now])
           /\ \/ /\ k = NoConn
                 /\ UNCHANGED <<list_vars, closed, registered>>
              \/ /\ k # NoConn
                 /\ closed' = [closed EXCEPT ![k] = TRUE]
                 /\ registered' = registered \ {k}
                 /\ SvcList!Erase(d.cid)
    /\ UNCHANGED <<buffer_list, drop_info_list, told, peer, alive, last_input,
                   net, heartbeat_tv>>

\* Mutant of HeartbeatScan: a connection found alive is not marked.
HeartbeatScanKeepsAlive ==
    /\ net = "timer" /\ drop_list = <<>>
    /\ net' = "loop"
    /\ \/ /\ HeartbeatDue
          /\ heartbeat_tv' = now + HeartbeatTimeout
          /\ HandleClose({k \in registered : ~closed[k] /\ ~alive[k]})
       \/ /\ ~HeartbeatDue
          /\ UNCHANGED <<heartbeat_tv, closed, drop_list>>
    /\ UNCHANGED <<list_vars, v8_vars, peer, alive, registered, last_input>>

(***************************************************************************)
(* The rest of handle_timeout: when the heartbeat is due, a connection     *)
(* heard of since the last one is marked, the others are closed.           *)
(***************************************************************************)
HeartbeatScan ==
    /\ net = "timer" /\ drop_list = <<>>
    /\ net' = "loop"
    /\ \/ /\ HeartbeatDue
          /\ heartbeat_tv' = now + HeartbeatTimeout
          /\ alive' = [k \in Conn |-> IF k \in registered /\ ~closed[k]
                                        THEN FALSE ELSE alive[k]]
          /\ HandleClose({k \in registered : ~closed[k] /\ ~alive[k]})
       \/ /\ ~HeartbeatDue
          /\ UNCHANGED <<heartbeat_tv, alive, closed, drop_list>>
    /\ UNCHANGED <<list_vars, v8_vars, peer, registered, last_input>>

-----------------------------------------------------------------------------
(***************************************************************************)
(* V8 thread, process_drop_cid: on_drop_cid in the script.                 *)
(***************************************************************************)
ProcessDropCid ==
    /\ drop_cid_list # <<>>
    /\ told' = told \cup {Head(drop_cid_list).conn}
    /\ drop_cid_list' = Tail(drop_cid_list)
    /\ UNCHANGED <<list_vars, svc_vars, net_vars, buffer_list, drop_info_list>>

(***************************************************************************)
(* V8 thread, process_buffer: a message that cannot be parsed, or whose    *)
(* handler calls close_client, asks for its connection to be closed.       *)
(***************************************************************************)
ProcessBuffer ==
    /\ buffer_list # <<>>
    /\ buffer_list' = Tail(buffer_list)
    /\ \/ UNCHANGED drop_info_list
       \/ /\ Len(drop_info_list) < MaxQueue
          /\ drop_info_list' =
                Append(drop_info_list, [Head(buffer_list) EXCEPT !.at = now])
    /\ UNCHANGED <<list_vars, svc_vars, net_vars, drop_cid_list, told>>

(***************************************************************************)
(* V8 thread, one turn of drop_info_tick: the first entry is old enough,   *)
(* and its cid goes to the network's queue whatever happened meanwhile.    *)
(***************************************************************************)
DropInfoTick ==
    /\ drop_info_list # <<>>
    /\ now - Head(drop_info_list).at >= DropDelay
    /\ drop_info_list' = Tail(drop_info_list)
    /\ drop_list' = Append(drop_list, [Head(drop_info_list) EXCEPT !.at = now])
    /\ UNCHANGED <<list_vars, svc_vars, net, heartbeat_tv, drop_cid_list,
                   buffer_list, told>>

(***************************************************************************)
(* Time passes unless some thread is already MaxLag late with its work.    *)
(***************************************************************************)
InTime(q, allowed) == q # <<>> => now - Head(q).at < allowed

Tick ==
    /\ InTime(drop_list, MaxLag)
    /\ InTime(drop_cid_list, MaxLag)
    /\ InTime(buffer_list, MaxLag)
    /\ InTime(drop_info_list, DropDelay + MaxLag)
    /\ HeartbeatTimeout > 0 => now < heartbeat_tv + MaxLag
    /\ SvcList!Tick
    /\ UNCHANGED <<v8_vars, svc_vars, net_vars>>

Next ==
    \/ \E k \in Conn : \/ PeerShuts(k) \/ AcceptSvc(k) \/ HandleInput(k)
                       \/ HandleEof(k) \/ SendListFull(k)
    \/ TimerFires \/ ProcessDrop \/ HeartbeatScan
    \/ ProcessDropCid \/ ProcessBuffer \/ DropInfoTick
    \/ Tick

Spec == Init /\ [][Next]_vars

(***************************************************************************)
(* The network thread keeps polling and its timer keeps firing; the V8     *)
(* thread keeps taking entries from its queues.  Clients owe nothing.      *)
(***************************************************************************)
Fairness ==
    /\ \A k \in Conn : WF_vars(HandleEof(k))
    /\ WF_vars(TimerFires) /\ WF_vars(ProcessDrop) /\ WF_vars(HeartbeatScan)
    /\ WF_vars(ProcessDropCid) /\ WF_vars(ProcessBuffer)

FairSpec == Spec /\ Fairness

-----------------------------------------------------------------------------
EntriesOf(q) == {q[i] : i \in 1 .. Len(q)}

(***************************************************************************)
(* A cid waiting in any queue, be it a message, a delayed close, a drop or *)
(* the news of one, still means the connection it was queued for, or none: *)
(* process_drop never closes, and on_drop_cid never names, a later client  *)
(* that was given the same number.                                         *)
(***************************************************************************)
QueuedCidsNeverStale ==
    \A e \in EntriesOf(drop_list) \cup EntriesOf(drop_cid_list)
               \cup EntriesOf(buffer_list) \cup EntriesOf(drop_info_list) :
        owner[e.cid] \in {e.conn, NoConn}

(***************************************************************************)
(* The heartbeat closes a connection only after a full period of silence,  *)
(* although it keeps one bit per connection and no time (handle_timeout).  *)
(***************************************************************************)
HeartbeatClosesOnlySilent ==
    [][\A k \in Conn :
          (net = "timer" /\ net' = "loop" /\ ~closed[k] /\ closed'[k])
             => now - last_input[k] >= HeartbeatTimeout]_vars

(***************************************************************************)
(* A silent client is closed within two periods and the network thread's   *)
(* delay in noticing them (handle_timeout).                                *)
(***************************************************************************)
SilentClosedInTime ==
    HeartbeatTimeout > 0 =>
        \A k \in registered :
            ~closed[k] => now - last_input[k] <= 2 * (HeartbeatTimeout + MaxLag)

(***************************************************************************)
(* When a client goes away, the script hears of it in the end, whichever   *)
(* thread closed the connection first (handle_close, process_drop).        *)
(***************************************************************************)
EveryDropReported == \A k \in Conn : (peer[k] = "shut") ~> (k \in told)
=============================================================================
