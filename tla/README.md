# A verification project for node_server

TLA+ models of the game server framework `node_server`: a C++ core (`nodelib`)
that gives every process its network endpoints and a V8 script engine, plugins
in C++, and the JavaScript of the center, gate, game, data, log, public and
master servers. TLC checks the models on small instances, TLAPS proves part of
what they state for every value of the constants.

    tlc -workers 2 -config MCLoginProtocol.cfg MCLoginProtocol.tla
    tlapm SvcIOProofs.tla

Contents: [1 the system](#1-the-system), [2 the modules](#2-the-modules),
[3 the runs](#3-the-runs), [4 deviations](#4-where-the-code-deviates),
[5 the proofs](#5-the-proofs), [6 what is left out](#6-what-is-left-out),
[7 the plan](#7-the-plan).

## 1 The system

A deployment is a set of processes (nodes), started and restarted by a daemon.
In every process there are

  - an **accept thread** per server endpoint, which numbers and registers new
    connections (`Server`, `Endpoint::pop_svc`);
  - a **network thread** per endpoint (`Network::run_handler`): an epoll reactor
    that reads, a 10 ms timer that writes, drops connections and checks their
    heartbeat;
  - the **V8 thread** (`V8_Manager::run_handler`): takes dropped endpoints,
    dropped connections, messages, script timers and closes that are due from
    its queues, and calls the script's `on_drop_eid`, `on_drop_cid`, `on_msg`,
    `on_tick`;
  - in a gate, the **plugin thread** (`Gate_Manager::transmit_msg`), which
    forwards messages that the V8 thread's filter has handed to it; in a data
    server a plugin thread that serves rows (`DB_Manager::process_list`).

Connections between processes and from clients are numbered per endpoint by
`cid`. Most of what threads tell each other is a bare cid in a queue. Messages
are structures described by XML files: a script's object is packed into bits by
walking the fields of its structure, and every reader walks the same fields.

| component | state | operations | hard because | what makes it correct |
|---|---|---|---|---|
| connection id table `Svc_Static_List` | one array with two index-linked rings, free and used; time of release per node | `record_svc`, `erase_svc`, `validate_cid` | cids wait in queues of other threads when they are released | no cid in use twice; none reused before 12 minutes; oldest first; the rings stay intact |
| connection teardown: `Network`, `Svc`, `V8_Manager` | `closed_`, `alive_`, `drop_list_`, `drop_cid_list_`, `drop_info_list_` | input, end of stream, heartbeat, `process_drop`, `push_drop`, `process_drop_cid` | five ways to close, three queues, a delayed close | a queued cid never means another client; every drop is reported; silent clients are closed, others not |
| object lifecycle: `Endpoint`, `Object_Pool` | `Svc` objects, `svc_pool_`, `svc_list_`, `svc_map_`, the reactor's `pending_io_map_` | `pop_svc`, `register_svc`, `process_drop`, `push_svc` | objects are shared by threads without a lock and pooled at once | no object stands for two connections; no fd leaks |
| connectors: `Connector`, `V8_Manager` | `cid_`, `drop_eid_list_`, the locks `io_lock_`, `notify_lock_` | `connect_server`, `process_drop`, `post_drop_cid`, `process_drop_eid` | two threads take two locks in different places; servers end while they are connected to | no circular wait; links come back |
| daemon | `core_map_`, the map of processes, a fifo | fork, `SIGCHLD`, `restart_process` | the handler interrupts the loop anywhere; signals merge | what ended is started again, up to a limit |
| send path: `Svc_Handler`, `Svc_Tcp`, `Svc_Http`, `Svc_Websocket` | `send_buffer_list_`, `send_data_` | `push_send_buffer`, `handle_send` | partial writes; threads push meanwhile | the peer gets the frames as they were pushed; the list is bounded |
| receive path: `Svc::handle_input`, `Svc_Tcp::handle_pack` | `recv_buffer_list_` | read, cut, merge | packages split anywhere | packages arrive whole, once, in order, without delay |
| HTTP: `http_parser`, `Http_Parser_Wrap`, `Svc_Http` | the parser's 60 states, header being matched, lengths | `http_parser_execute`, the callbacks | input split anywhere; bodies by length, chunks or end | the split makes no difference; what was sent is understood |
| WebSocket: `Svc_Websocket` | buffers, handshake done or not | `handle_pack`, `make_frame_header` | frames split anywhere, masks, extended lengths | payloads arrive whole, in order |
| buffers: `Byte_Buffer`, `Bit_Buffer` | array, read and write position | the reads and writes of every type | indices moved, memory shifted and grown | a queue of bytes; what is written is read |
| structures: `Base_Struct`, `Msg_Struct`, `Robot_Struct`, the database operators | none | nine walks over the same fields | each is a copy of the others, varied by hand | they agree bit by bit |
| data cache and data plugin: `Data_Manager`, `DB_Manager` | rows cached as buffers, id counters, sessions, forked connectors | load, save, select, delete, generate | caches in several processes; a database that goes away | a load sees the last save; answers stay with who asked for the session |
| center script | `account_token_map`, `sid_set`, `sid_idx` | `select_gate`, `verify_token`, removal, token timer | tokens raced by two connections | a token earns one session; session ids are freed |
| gate script and plugin | maps of sessions by cid, sid, account; two more in the plugin | `connect_gate`, `verify_token`, `on_drop_cid`, `game_logout`, forwarding | state read before a round trip and used after it; drops overtake messages | the maps agree; an account has one session; a client is answered |
| game script | `sid_login_map`, `sid_game_player_map`, `sid_logout_map` | session, enter, request, logout | loads and saves answered later | players have login data; nothing is left behind |
| role creation | `create_role_info` per login | four handlers across three answers | other sessions, and the same client's next request, in between; either of two saves may fail | ids unique; account and role agree |
| area of interest plugin | two sorted lists per scene, a map of neighbours per entity | enter, move, leave | three structures kept in step | neighbours know each other; what clients show is what the maps hold |
| public server (guilds, ranks), master, log, XML, tools | see `PROJECT.json` | | | |

`PROJECT.json` lists every component with its status, and under `hazards` each
behaviour that is hard to test, at its line.

## 2 The modules

    CidAllocator  <=  SvcStaticList            cids: what is promised, how it is kept
        |
    ConnectionDrops                            cids in the queues of three threads, in time
    SvcRegistration                            Svc objects, thread step by thread step
    SvcSend, SvcReceive                        bytes out and in

    NodeLinks --+-- Deployment                 connectors and locks; processes and signals
    Daemon    --+

    HttpParser --+-- HttpUrl -- HttpStream     a stream, cut anywhere
                 +-- HttpConnection            a connection of protocol HTTP
    WebSocket                                  a connection of protocol WEBSOCKET
    ByteQueue  <=  ByteBuffer -- MessageBuffers   bytes under every message

    BitBuffer -- StructCodec -- StructForms -- RowCodec -- StructRoutes
    DataCache -- DataServer                    rows and their caches

    ServerLinks --+-- CenterServer --+
                  +-- GateServer   --+-- LoginProtocol
                  +-- GameServer   --+
    RoleCreation, AreaOfInterest               the game script in detail

(`A <= B`: `B` is shown to implement `A`. A line: the right one is built on the
left one.)

| module | code | correspondence |
|---|---|---|
| `CidAllocator` | `Svc_Static_List.h` | What the table promises: `owner` is the `svc` field of every node, `free` the free ring from its oldest release, `size` the array's. `RecordNew`, `RecordReuse` are the two ways through `record_svc`, `Erase` is `erase_svc`. |
| `SvcStaticList` | `Svc_Static_List.h` | The array itself: `prev`, `next`, `svc`, `timestamp` of every node, nodes 0 and 1 the heads, every assignment to an index in the code's order. `ImplementsAllocator` maps it to `CidAllocator`. |
| `ConnectionDrops` | `Network.cpp`, `Svc.cpp`, `Endpoint.cpp`, `V8_Manager.cpp` | Uses `CidAllocator` as `svc_list_`. One action per handler; `Tick` is the clock. Queue entries carry the connection that was meant as history; no guard reads it. |
| `SvcRegistration` | `Endpoint.cpp`, `Network.cpp`, `Svc.h`, `Object_Pool.h`, `Epoll_Watcher.cpp` | One step per shared variable that `pop_svc`, `register_svc` and `process_drop` touch. Objects are reused at once, cids are not. |
| `NodeLinks` | `Connect.cpp`, `Endpoint.cpp`, `Node_Endpoint.cpp`, `Network.cpp`, `Epoll_Watcher.cpp`, `V8_Manager.cpp` | The connectors of one node. `net` and `v8` are program counters: what a thread holds and waits for follows from them. Steps end where a lock is taken or released. `ServerListens`, `ServerEnds`, `ServerSends` are the other side. |
| `Daemon` | `Daemon_Server.cpp` | One thread and a signal handler that interrupts it at any step. `process` is the world's record of processes, `core_map` the daemon's. |
| `Deployment` | | Composes the two: a server listens while its process lives. |
| `SvcSend` | `Svc.cpp`, `Svc_Tcp.cpp`, `Svc_Http.cpp`, `Svc_WebSocket.cpp`, `Buffer_List.h` | One step per locked operation or flag access of a sending thread and of the network thread. `protocol` is the handler that `create_handler` chose. |
| `SvcReceive` | `Svc.cpp`, `Svc_Tcp.cpp`, `Buffer_List.h` | `HandleInput` is one call: a read of any length, `handle_pack` as a function over its turns, and the post. |
| `HttpParser`, `HttpUrl` | `http_parser.cpp` | The parser as a record and one operator per group of states; states that spell a constant word are one state with an index. `heard` is the sequence of callbacks. `http_parser_parse_url` and the host states are `HttpUrl`. |
| `HttpStream` | | A caller that hands the parser what arrives. |
| `HttpConnection` | `Http_Parser_Wrap.cpp`, `Svc_Http.cpp` | One buffer per read, a new parser per buffer; answers written in one call that may take a part. |
| `WebSocket` | `Svc_WebSocket.cpp` | `handle_pack` over the list of buffers: handshake, then frames. The exclusive or of two bytes is a constant operator, which the run gives its bitwise definition. |
| `ByteBuffer`, `MessageBuffers` | `Byte_Buffer.h`, `V8_Manager.cpp`, `Node_Manager.cpp`, `Gate_Manager.cpp` | The array with its two indices, its front room and its growth; the heads of a message, written, carried and read. `IsByteQueue` maps a buffer to `ByteQueue`. |
| `BitBuffer` | `Bit_Buffer.h` | A sequence of bits and a read position. |
| `StructCodec`, `StructForms` | `Base_Struct.cpp`, `Msg_Struct.cpp`, `Robot_Struct.cpp`, `Struct_Tool.cpp` | Each walk over a structure is an operator of the code's name, recursive where the code is. A failed walk returns what it did before. |
| `RowCodec` | `Mysql_Operator.cpp`, `Mongo_Operator.cpp`, `Base_Function.cpp` | What becomes of a buffer in a row or document, and back, blobs in base64 included. |
| `StructRoutes` | | One object, one conversion per step, every order of them. |
| `DataCache`, `DataServer` | `Data_Manager.cpp`, `DB_Manager.cpp` | A request is one action of the process that serves it. `DataCache` is the operators on tables and cache, `DataServer` the sessions, the forked connectors and the way back, with several servers that ask for the same sessions. |
| `ServerLinks` | `Node_Manager`, `V8_Manager` | FIFO queues between the processes. |
| `CenterServer`, `GateServer`, `GameServer` | the scripts, `Gate_Manager.cpp` | One action per message handler, with everything the handler calls. A handler that throws keeps what it did before. Two handlers of the gate are two actions each, as the plugin's thread (`TransmitMsg`) may forward between them: `GateDropCid`, which sends and empties the script's maps, and then `DropFromPlugin`; `TokenVerified`, which fills the script's and the plugin's maps, and then `AddToGame`. No other handler of the script runs in between (`V8Idle`). |
| `LoginProtocol` | | Composes the three and adds the clients. |
| `RoleCreation` | `login.js`, `game_server.js`, `DB_Manager.cpp` | One action per answer of the data server, `DataStep` that server. Clients need not wait; saves and selects may fail. What a client waits for, what it did wrong (`hasty`), the accounts whose last save failed and the roles a fetch dropped are history; no guard of the servers reads them. |
| `AreaOfInterest` | `Aoi_Manager.cpp`, `Aoi_Entity.cpp`, `Aoi_Wrap.cpp`, `entity.js` | One action per call from the script; the sorted lists are sequences. |

Names are the code's where TLA+ allows it; helpers that have no name there are
capitalised. A component's proofs are in its module's name with `Proofs`,
those of `RoleCreation`, `AreaOfInterest` and `DataServer` in `GameProofs`,
those of `Deployment` and `MessageBuffers` in `NodeProofs`, those of `SvcSend`,
`SvcReceive` and `WebSocket` in `SvcIOProofs`
([section 5](#5-the-proofs)). Each `MC` module gives a module's constants their
values (the `.cfg` alone does for `SvcStaticList` and `ConnectionDrops`); `MCSvcIO`, `MCLoginProtocol`, `MCGame`, `MCData`, `MCProtocols` and `MCNode` put modules
that share no state side by side and choose in the initial state which of them
moves (`part`, `direction`, `protocol`): the states of the run are the sum of
theirs, not the product. A module also holds the mutants of its definitions,
under "Mutant of": changed forms of an action or helper that a plausible bug
would have. Put in place of the definition, each makes TLC find its property
violated, which shows that the property depends on that part of the code.

## 3 The runs

| run | bounds | states | shows |
|---|---|---|---|
| `static_list` | 2 objects, table of 5, time 0..4 | 10 k | rings linked both ways; they implement the allocator |
| `node`, part `cids` | 2 objects, table of 5, time 0..6, cooling 1 | 2 k | cids in use once, cooled before reuse, table grows only if all are hot |
| `node`, part `links` | connectors to 2 servers, one started at once and one on request, 2 ends of processes, 1 message | 139 k | no two threads wait for each other's lock; once every start has been asked for, every link is made again (liveness) |
| `drops` | 2 connections, table of 4, time 0..6, cooling 5, delay 1, lag 1, queues of 1, heartbeat off | 8.4 M | queued cids never stale |
| `heartbeat` | 1 connection, period 2, time 0..9 | 68 k | silent connections closed in time and only these; every drop reported (liveness) |
| `svc_io`, direction `send` | 2 senders, list of 2, 2 buffers per writev, 4 frames of 3 bytes, 13 bytes written | 2.2 M | TCP: no byte lost or repeated; HTTP, WebSocket: frames leave the list whole; list bounded; a closed connection is queued to be dropped |
| `svc_io`, direction `receive` | 3 packages, kinds RPC, TYPE and neither, lengths 0, 1, 3, 4 with a limit of 3 | 62 k | packages intact; valid RPC peers keep their connection |
| `registration` | 3 connections, 3 objects, 2 queued drops | 805 k | objects not shared, fds held until closed |
| `login`, part `login` | 2 connections of 1 account, 2 session ids, one client with 2 requests, time 0..2 | 2.9 M, both parts | one session per token, session ids accounted for, plugin and script agree, gate and game server agree, players have their login data, logouts wait for their saves |
| `login`, part `roles` | 2 sessions, 2 names, 4 requests of one client or 2 of each, saves and selects that fail | " | account and role tables agree but for failed saves and stale fetches, ids and accounts of roles stay apart |
| `game`, part `login` | 2 connections, 2 session ids | 46 k, all three parts | a client is accepted or loses its connection (liveness) |
| `game`, part `roles` | 2 sessions, 2 names, 3 requests in all, of one client or of both | " | requests answered (liveness) |
| `game`, part `scene` | 3 entities, 1 scene, places 0, 2, 3, radius 1, 2 moves | " | neighbours know each other, clients show what the maps hold |
| `protocols`, `stream` | 23 streams of one or two messages, 12 of them malformed, reads of up to 3 characters or the rest | 63 k, all four parts | the split makes no difference; well-formed messages are understood |
| `protocols`, `http` | 2 requests, 3 reads, 3 writes | " | a request that arrives in one read is understood |
| `protocols`, `websocket` | 2 frames, 4 payload lengths, reads of any length | " | frames understood over any split |
| `protocols`, `buffers` | 2 buffers of room 1 + 1, 4 bytes; messages with bodies of 0 to 4 | " | `Byte_Buffer` implements `ByteQueue`; a message arrives with its head and body |
| `data`, part `routes` | 5 structures with all labels and types, 61 objects, 4 conversions; bytes of 4 bits, words of 8 | 327 k, both parts | objects come out as they went in |
| `data`, part `server` | 2 tables of 1 row, 2 values, 2 sessions, 2 servers that ask for both, 1 data connector, 3 requests, a database that breaks | " | answers go to a server that asked for the session; what the server saved is kept; loads see the last save |
| `send_resume` | 1 sender, frames of 2 bytes | (violated) | a partly written WebSocket or HTTP frame starts over |
| `registration_beat` | 2 connections, 2 objects | (violated) | a stale entry of `svc_map_` lets one heartbeat kick a fresh connection |

Deadlock is not checked in any run: clients and servers of the models may stop,
and so does every bounded clock or counter. Threads that wait for each other's
locks are `NoCircularWait` in the run `node`.

**Why the bounds are enough.** The table of 5 has two heads and three nodes,
the least in which a node is between two others in a ring; time lets every one
of them cool and be reused. In `drops` the second connection can reuse the
first's cid while entries for the first still could wait, if the cooling did
not prevent it (its mutant is found). In `heartbeat` the clock passes four
periods. A frame of three bytes has a first, an inner and a last byte, and a
write of two buffers can stop in either. Lengths 0, 3 and 4 are the edges of
`max_pack_size_ = 3`; a header may be split at every byte. Three connections
on three objects let an object be in the pool, in use, and between both. In
`login` two connections of one account are the least that race for a token,
and two requests let a client enter the game twice, ask before it entered, and
be refused; either may be forwarded ahead of `ADD_SESSION`. Four requests let
one client fetch its list, ask for two roles under two names before the first
is answered, and fetch a list that is stale when it comes; two of each client
let two roles be made at once. Two links are the least for one to be queued behind the other, and
two ends let one come while the V8 thread reconnects the other. Three entities
on one axis let one leave the reach of another and stay in that of the third. The
objects of `data` have numbers at both ends of their fields, empty and full
strings, lists and maps, absent and present branches; four conversions are a
way there and back through a store. The limit of one session makes the third request
of `data` the first that can be passed on; it may be of the server that asked
before or of another. Payloads end just below, at and above the
extended length and the limit of a package. Buffers of one byte of room shift
and grow at the second write. Symmetric are, in runs without liveness only, the
sending threads of `svc_io`, connections and objects of `registration`, buffers
of `protocols`, and sessions and servers of `data`: nothing the code does depends
on which of them it is.

**Fairness.** `ConnectionDrops`: the network thread's poll sees the end of a
stream, its timer fires, and both threads take from their queues; the loops of
`Epoll_Watcher::watcher_loop` and `V8_Manager::run_handler` do nothing else.
Weak fairness suffices since nothing disables a queued entry. Clients owe
nothing. `LoginProtocol`: every process handles what arrives on its links, each
client's inbox is served, and a connection the gate has closed drops (which
`EveryDropReported` shows for the layer below). `RoleCreation`: the game server
and the data server handle their messages. `Deployment`: each thread takes its
next step when it can for good, the operating system delivers a pending signal,
a server that was forked comes to listen, and nothing is owed by what crashes
or by whom messages are sent. A thread's step that needs a lock is weakly fair
only: no thread is assumed to win a lock that others take in turn.

**Assumptions**, each named in its module or under its constant:

  - `CoolingCoversDrops` (`ConnectionDrops`): the cooling time is at least the
    delay of a close plus the time an entry waits in four queues, `MaxLag` each.
    In the code the cooling time is 12 minutes and the delay 1 second, so
    threads may fall behind by nearly three minutes. Nothing in the code
    enforces it; with less, `QueuedCidsNeverStale` fails.
  - `ConnectionDrops` takes `pop_svc` and `process_drop` as one step each;
    `SvcRegistration` takes them apart, but never reuses a cid; in `NodeLinks`
    each connection has an object of its own.
  - In `LoginProtocol` links between servers do not break, one gate and one
    game server are registered, tokens are never equal. A client sends
    `connect_gate` once per connection, as its first message.
  - In `RoleCreation` each session is its account's only one and names are not
    empty. `RequestAnswered` is about clients that wait for an answer before the
    next request and fetch their role list first; the two invariants are about
    all.
  - `LoginProtocol` and `RoleCreation` have a data server that serves every
    session itself. One that passes sessions on to a connector loses their saves
    and answers none of them (`SavesAreServed` below), so that an entry of
    `sid_logout_map` stays for good.
  - `LoneCrashes`: a process ends only after the daemon has dealt with the end
    of the one before. `CoreLimit` is 2000 in the code and 0 in the run, and the
    count of a node starts at -1 and is read before it is raised: a node is
    restarted at its first two ends and given up at its third. The run, with two
    ends, gives up none; `UpLinksComeBack` below needs four.
  - The client libraries of MySQL and MongoDB, and the servers behind them,
    return what was stored, except that a column of whole numbers rounds.
    `SafeRoute` names the structures on which the two stores and JSON are not
    faithful; they are deviations below.
  - `FramesUnderstood` and `WholeRequestsUnderstood` name the frames and reads
    they are about; what the others do is below.

## 4 Where the code deviates

Two runs show a line of the code's own documentation violated; they are under
`findings` in `PROJECT.json`. The further deviations were met while modelling.
Each is stated as a property of its module that no run lists, because the code does
not keep it: put in place of the properties of the run's `.cfg` (with the
constant given, where one is), it makes TLC print a behaviour that violates it.

| property (run) | what happens |
|---|---|
| `WireIsPrefix` (finding) | `Svc_WebSocket.cpp:58` says a frame is written on at the next timeout; it is written from its start again, so the peer's stream is broken. The same in `Svc_Http`. |
| `AliveSurvivesBeat` (finding) | A connection ends before its registration has set `reg_network_`; its `svc_map_` entry stays, the object is reused, and one heartbeat visits it twice: marks it, then closes it. |
| `RegNetworkTruthful` (`registration`) | The same cause: `reg_network_` set on an object already reset. |
| `SendDataMeansData` (`svc_io`) | A push between the network thread's last look at the empty list and its clearing of `send_data_` waits until the next push. |
| `ValidStaysOpen` (`svc_io`) | A four-byte header of which two or three bytes have arrived reads as length 0, and the connection is closed. |
| `RequestsServed` (`node`, `Requested = {"b", "c"}`) | Two start requests that one `read` of the fifo returns: only the first is understood. |
| `LinksComeBack` (`node`, `LoneCrashes = FALSE`) | Two processes end within one run of the signal handler; `wait` is called once, and the second is never started again. |
| `UpLinksComeBack` (`node`, `MaxCrashes = 4`, `MaxMessages = 0`) | `process_drop_eid` tries the first endpoint of `drop_eid_list_` until its server is back; if the daemon has given that up, the links queued behind it stay down. |
| `EveryRequestUnderstood` (`protocols`) | A request of which a read brings a part, or two requests in one read: each buffer is parsed from its start by a new parser. |
| `AnswersWrittenOnce` (`protocols`) | A part of an HTTP answer was written; the whole is written again behind it. |
| `BuffersReturned` (`protocols`) | The buffer of an HTTP request is not given back to its pool. |
| `AllFramesUnderstood` (`protocols`) | Extended lengths are read low byte first, a frame without a mask behind one that had one is unmasked with the old key, and a handshake in two reads is taken for one. |
| `FloatsSurviveMysql` (`data`) | The struct tool declares an `int(11)` column for a float. |
| `DocumentsSurviveMongo` (`data`) | A member is written under its field's name and looked up by its type's; a vector inside a structure is saved as a map is. |
| `MessagesSurviveJson` (`data`) | Lists are written with elements wrapped in a node of the field's name, which the reader does not unwrap; the tag of a switch is not written. |
| `LoadsSucceed` (`data`) | A cached row is read to its end by the first load; the next load of the same row fails until it is saved again. |
| `AllLoadsAreFresh` (`data`) | A data connector loads from its own cache and the database, and misses what the server has saved in its cache alone. |
| `IdsUnique` (`data`) | Each connector counts ids by itself. |
| `SavesAreServed` (`data`) | A save that is passed on has the id and, as `DATA_MSG`, the type of an answer of a connector; `process_list` asks for nothing else (`DB_Manager.cpp:125`), so the connector takes it for one, finds no session in its own `session_map_`, logs that and drops the save. The same with runtime data. |
| `AnswersReachAsker` (`data`) | Game servers and the public server (`public_server.js:165`, `guild.js:93`) ask under the player's sid. `session_map_.insert` keeps the first of them, and a connector's answer to another goes to that one. |
| `SavedIsKept` (`data`, `LinkStates = {"none"}`) | For a database the configuration does not name, a save that is to clear the cache erases the cached row, fails and says so; what was saved before is gone as well. |
| `SeesEverybodyNear` (`game`) | `update_list` looks for an entity's new place on the wrong side; the list is out of order and the walk for neighbours ends early. |
| `OneSessionPerAccount` (`login`) | Two connections of one account both pass `connect_gate` before either token is verified. |
| `RefusedOnlyForLive` (`login`) | A client drops while its token is verified; the session that is then added stays, and the account is refused from then on. |
| `GameForgets` (`login`) | A session that ends before its player entered the game stays in `sid_login_map`. The plugin's thread may forward a request between the plugin's `add_session` and `ADD_SESSION`: the game server does not know the session, and then adds it; or between `LOGOUT` and `remove_session`. |
| `TokensExpire` (`game`, `MaxTime = 2`) | `select_gate` stores the function `util.now_sec`, not its value; the timer compares with NaN. |
| `RoleNamesUnique` (`login`) | Two names are found free before either role is saved. |
| `NameWasChecked` (`login`) | A client that does not wait for its answer, and nothing makes it, replaces `create_role_info` between check and save. |
| `RolesNeverLost` (`login`) | The save of the account's list fails and that of the role does not; `process_db_ret_code` looks at neither, and the player is in the game. Or the answer to a second request for the list, read before the new role was saved, replaces the list that has it; the next role is saved with a list that lacks the first. `RolesListed` says that no role is lost in a third way. |

Three more are not stated as properties. `RequestAnswered` is about clients that
fetch their list and wait: a role made before any list was fetched finds
`role_list` undefined in `db_create_role`, the handler throws, and the client is
never answered. The models of login and of role creation are apart, so
that one consequence of a failed save is in neither: `process_db_ret_code`
deletes the session from `sid_logout_map` whichever save of its player failed,
and if that of the new role is answered after the logout, the entry goes before
the logout's save is done. And the test by which `http_parser.cpp:1481` looks for
an overflow misses some: with a range of 2^16 the length 300000 is read as 37856.
`MessagesUnderstood` is about lengths far below the range.

## 5 The proofs

Each proof module extends the module it is about. All theorems hold for every
value of the constants that satisfies the named assumption. The inductive
invariants were checked by TLC on the runs' instances before they were proved.

`CidAllocatorProofs`, from `AllocatorAssumption` alone. `TypeOK` and
`OldestFirst` are inductive together, since a release is stamped with a clock
that does not go back. `CidsAccountedFor` counts each cid once, in use or in
the free queue; with `TypeOK` it is inductive, and the proof rests on two
lemmas on the cids of a sequence without its head and with one more element.
`NoEarlyReuse` and `GrowsOnlyWhenHot` are action properties: reuse takes the
head of the queue, and by `OldestFirst` the head is hot only if all are.

`SvcStaticListProofs`, from `ListAssumption`. `TypeOK /\ RingsLinked` is
inductive. `RingsLinked` is restated as a predicate `Rings` on two functions,
and two lemmas of pure functions say that unlinking a node and linking it before
a head keep `Rings`; each action is such a step.

The same module proves the refinement, `Spec => ImplementsAllocator`. The
allocator's queue is read off the array by walking the free ring for as many
steps as there are free nodes, so its proof needs what `RingsLinked` does not
say: that one walk meets every free node once. The inductive invariant adds
that a sequence `q` of cids lists the free nodes without repetition in the
order of `next` (`RingOrder`), and that a node in use holds a connection.
`WalkMeetsOrder` shows by induction on the steps that the walk gives `q`, and
counting shows that it is as long; then a pushed node leaves `q` alone, reuse
takes its head (`OrderTail`), and `erase_svc` appends to it (`OrderAppend`),
because the predecessor of the head of a well linked ring is the last of `q`.

`ConnectionDropsProofs`, from `DropsAssumption` and `CoolingCoversDrops`.
`QueuedCidsNeverStale` is about what never happens: that a cid is handed out
again while an entry for its last connection waits. What is inductive is an
age. Every queue has an offset and a lag: an entry is at most its lag old, and
at most the offset younger than the release of its cid, if that was released
since (`FreshQueue`; the offsets of the four queues add up along the way of a
cid, from 0 for a message to the delay of a close and three lags for the news
of a drop). When a cid has cooled, an entry for it would be older than its lag,
so there is none. What the allocator promises is taken from its own proofs by
`INSTANCE CidAllocatorProofs`. The two properties of the heartbeat rest on
`AliveBit`, which says what the one bit per connection means: where it is set
the connection was heard of since the last beat, where it is not the last beat
cleared it.

`SvcRegistrationProofs`, from `RegistrationAssumption`. An object is on its way
to a connection in the hands of a thread (`InHands`), in the pool, or in use by
one cid, and never two of these; `ObjectsNotShared` is the part of this that
the run checks. Cids are fresh because every accepted connection is counted
(`Numbered`), and an fd is held until it is closed because `closed_` is set
before an object is reset. The reactor may know an object that was released,
but only by the fd of a connection that has ended; this is the weak spot that
`AliveSurvivesBeat` in [section 4](#4-where-the-code-deviates) goes through, and the proof shows
that it never leads to a shared object.

`SvcIOProofs`, first part, from `SendAssumption`.

  - `ListBounded` is not inductive: a thread that has passed the size test has
    not pushed yet. `RoomReserved` counts these threads with the list,
    `Len(send_list) + Cardinality(InRoom) <= MaxList + Cardinality(Sender) - 1`;
    the test lets a thread in only below the limit, when at most all other
    threads are in the room.
  - `ClosedIsQueued` is inductive with the types of the counter and of the
    threads' places.
  - `NothingLostOrRepeated` (TCP) and `FramesLeaveWhole` (HTTP, WebSocket) rest
    on `WInv`. Between a write and the removal of what it took the wire is ahead
    of the list, by no more than the buffers that were gathered (`UnderWay`);
    with one write per frame what was taken is the beginning of the first frame
    and the end of the wire (`FromStart`); and every frame that was pushed is in
    the list or lies on the wire in one piece (`LeftWhole`).

`SvcIOProofs`, second part, from `ReceiveAssumption`: `PackagesIntact` and
`RpcStaysOpen`. The invariant (`rcvIInv`) has a number d: the packages up to d
are valid and are what was posted, and while the connection is open the buffers
in the list, followed by what has not been read yet, are the packages from d + 1
on (`Pending`), the next of which is not there in full (`AllPosted`). The same
with the list inside the loop is what every turn of `handle_pack` keeps
(`Stands`, `TurnKeeps`): joining two buffers leaves the bytes as they are, and
as the first buffer begins with a header (`FrontIs`), what is cut off is a
package. A turn that does not stop takes a buffer or a byte away (`Left`), so
the loop has stopped within the turns `HandlePack` allows it.

`SvcIOProofs`, third part, from `WebSocketAssumption`: `FramesUnderstood`. The
assumption says that the short lengths leave room for the mask bit and lie below
both limits (126, 128, 2^15, 60 * 1024), and of the exclusive or only that it
maps bytes to bytes and that the same key undoes it. As with packages, the
invariant (`wsIInv`) has a number d: the payloads posted are those of the first
d frames (`PayloadsTo`); the one buffer that may be left, without its eid and
cid, followed by what has not been read, is the bytes of the frames from d + 1
on (`UpTo`); and of the next frame not all is there (`Short`). This stands from
the handshake on, and only for a client that keeps to what `FramesUnderstood`
asks. Inside a call a second buffer may be there, and no eid and cid may get
between the two (`WsStands`). A frame that such a client makes has the form
`handle_pack` looks for (`IsFrame`), and unmasking gives its payload back
(`Unmasked`). A turn takes a frame that is there in full (`WholeIn`) and gives
what is behind it its eid and cid again, or joins the second buffer to the
first, or, when there is none, stops; `WsLeft` bounds the turns that are left.

`LoginProtocolProofs`, from `LinksAssumption` and `GateAssumption`.
`PlayersHaveLogin` is inductive itself, with one lemma per action of the game
server. The five others rest on one invariant, `Typed /\ V8Typed /\ Tokens /\
MapsAgree /\ AsksKept /\ SidsKept`:

  - `Tokens`: a token some account still holds has earned nothing yet, and
    `sid_idx` is the number of tokens that have;
  - `AsksKept`: a connection asks for its session once and is answered once, and
    until then it has none, so that state a handler reads before its round trip
    to the center is as it was when the answer arrives;
  - `SidsKept`: a session id is granted, removed, logged out and saved once each,
    in this order, whichever server holds the message that says so; this is
    stated over the contents of all links together, and orders a session's
    messages on the links where FIFO matters. A session the gate has entered in
    its maps and not yet announced (`adding`, between `TokenVerified` and
    `AddToGame`) counts as one whose `ADD_SESSION` is under way (`Adding`);
  - `MapsAgree`: the gate's maps are inverse to each other, and the plugin's are
    the part of the script's that it has been told of, except for the connection
    `removing`, whose drop the script has handled and the plugin has not (between
    `GateDropCid` and `DropFromPlugin`, while the plugin's thread may forward).

There is one lemma per message handler and part of the invariant. The account
maps are not part of it: two sessions of one account are what the code allows
(`OneSessionPerAccount` in section 4).

`GameProofs`, first part, from no assumption: clients need not wait, and any save
or select may fail. The invariant is `Typed /\ InfoKept /\ OwnerKept /\ IdsOnce /\
ListInv`:

  - `InfoKept`: a session that has asked for a name has said for which account,
    its own; a second request may replace the name, never the account;
  - `OwnerKept`: wherever an id is found (the tables, the lists in memory, the
    messages both ways: `Owns`), it has been handed out, and to one account;
  - `IdsOnce`: the ids of answers under way and of roles that are made or being
    saved are all different;
  - `ListInv`: a list on its way has all roles made before it (`ListsFull`), a
    role on its way comes right behind a list that has it (`Behind`,
    `ListedFirst`), and so the role is listed when it reaches its table
    (`TableListed`), unless the save of the list failed (`unsaved`) or a fetched
    list that lacked it has taken the place of one that had it (`forgotten`).
    `InMemory` says that these are the only ways out of the list in memory, too.

`RolesListed` and `RolesOwned` follow.

`GameProofs`, second part, from `AoiAssumption`: `NeighboursMutual`, inductive
with `ListsKept` (a manager's two lists hold each of its entities once, and no
other) and `EntitiesKnown` (the plugin knows the entities that have a
manager, and their scripts are in a scene). The positions are not needed:
wherever the walk along the two lists ends, it finds entities of the same
manager, never the one it started from; `MapsAfter` enters and leaves in both
maps, and `Told` tells both clients.

`GameProofs`, third part, from `DataAssumption` and `DataServerAssumption`.
`AnswersStayInSession`: what `session_map` says of a session is a server that
has asked under it, though not always the one the answer is for, and no other
process than a connector gets into `connector_list`. `SavedIsKept`, about what
the data server saves itself, and `LoadsAreFresh` are proved for
`"none" \notin LinkStates`: every process has a connection, up or broken, to
the databases it is asked for. `DB_Manager::init` connects to each one of the configuration, and a
process that cannot is aborted; for any other database `SavedIsKept` fails
(section 4). Their invariant `keptIInv` says of every row that its latest value
is found in the database or in somebody's cache (`AllFound`), and, while the
server has no connectors, that the server itself reads it (`AllFresh`). A load
keeps both although it fills the cache and moves where rows have been read to
(`NoneLost`); a save that succeeds makes its value what is read, in each table
of a collection (`SavedAt`), and leaves the others alone (`OthersSame`).

`NodeProofs`, first part, from no assumption. `NoCircularWait` says that no network
thread waits in `push_buffer` for the lock the V8 thread holds while that waits
in `add_io` for the reactor's lock the network thread holds. Nothing in the
locking forbids it: the two threads take the two locks in opposite orders. What
does is the life of a connection, so the inductive invariant `IInv` follows it:

  - `linkTypeOK`, and `QueueInv`: an endpoint is at most once in
    `drop_eid_list_`, and the one being connected is the first;
  - `OnlyNewest`: of a connector's connections only the newest is registered
    with its reactor;
  - `DroppedOnce`: that one is dropped once, and when its drop is handed to the
    V8 thread nothing else waits to be dropped;
  - `QueuedIdle`: hence a connector that waits to be connected again has a
    network thread with nothing to serve, which cannot be in `push_buffer`.

There is a lemma per step of a thread, one for a connector that a step leaves
alone (`SameKeeps`) and one for steps of the servers (`ServerKeeps`). The
daemon's steps change links only through `ServerListens` and `ServerEnds`, so
the theorem holds however processes end and are restarted.

`NodeProofs`, second part, from `ByteBufferAssumption` and `MessageAssumption`
(the sizes are numbers, and strings and bodies are sequences). `IsByteQueue`
goes step by step. As long as a buffer's indices are in order (`InOrder`), each of the
three ways to make space leaves its contents and leaves room for what is
written (`EnsureMakesSpace`); hence a write puts its bytes behind the contents
(`CopyAppends`), a read that is allowed takes the first ones (`ReadsFront`), and
`reset` empties (`ResetEmpties`).

`MessageArrives` is about the one buffer that carries a message. The invariant
`MessageKept` says for each stage where in it the parts of the message are: the
header, the id, type and session, and the body after the packing (`Packed`),
eight bytes further with eid and cid in front and perhaps more behind
(`Addressed`), with marks over the first two bytes of the header (`Unpacked`),
and the body alone once the head is read. The length in the header is right because a
package of the short kind has less than `RpcLimit` bytes together with id, type
and session (`Lengths`). `write_len` and `handle_pack` write over bytes that are
there, which needs no space and so moves nothing (`OverwrittenBytes`); a copy
has the marks and the rest at the same places (`HasMarks`).

**Induction over data.** The library's induction theorems take a predicate as a
parameter, which the installed provers cannot instantiate. `SvcIOProofs` does
without: its lemma `Induction` is about a *set* of numbers that holds 0 and the
successor of each of its members, and follows from the least element of its
complement (`NatMin`, by the library's theorem that finite sets are well founded
under inclusion). With it are proved that the recursive function by which
`FlattenSeq` is defined exists and is unique, and from that how flattening goes
with appending and concatenating. The turns of `HandlePack` and of the
WebSocket's `handle_pack` are recursive functions as well; that they exist, and
what all of them keep, is proved in the same way. So are the loads and saves of
a collection, table by table, in `GameProofs`.

Some type invariants are proved that no run lists. In
[section 3](#3-the-runs) these properties are proved: `CidsAccountedFor`,
`NoEarlyReuse`, `GrowsOnlyWhenHot`, `RingsLinked`, `ImplementsAllocator`, `QueuedCidsNeverStale`,
`HeartbeatClosesOnlySilent`, `SilentClosedInTime`, `ObjectsNotShared`,
`OpenFdIsHeld`, `ListBounded`, `ClosedIsQueued`, `NothingLostOrRepeated`,
`FramesLeaveWhole`, `PackagesIntact`, `RpcStaysOpen`, `FramesUnderstood`,
`TokenEarnsOneSession`,
`SidsAccountedFor`, `PluginAgrees`, `SessionsPaired`, `PlayersHaveLogin`, `LogoutsAwaitSaves`, `RolesListed`,
`RolesOwned`, `NeighboursMutual`, `AnswersStayInSession`, `SavedIsKept`,
`LoadsAreFresh`, `NoCircularWait`, `IsByteQueue`, `MessageArrives`.

Model-checked only: all liveness properties (the provers have no backend for
fairness and `ENABLED`), and whatever is computed by a RECURSIVE operator, which
costs a module its SMT backend: the parser (`SplitsDontMatter`,
`MessagesUnderstood`, `WholeRequestsUnderstood`) and the codecs
(`ObjectsUnchanged`). `Bitwise` is recursive too, so only `MCProtocols` uses it,
to give `ByteXor` its value.

## 6 What is left out

  - The public server's guilds and ranks are planned. The log server and its
    plugin are a write-only sink forked like the data plugin. The master, the
    HTTP client it uses and the monitor plugin read counters and answer
    queries. The data and log scripts handle no message.
  - The XML parser is vendored; the wrapper around it is used at start-up.
    Logging, time, encryption, hashing and compression keep no state another
    component reads. SHA-1 and base64 of the WebSocket handshake are taken as
    an answer to a key.
  - Mail, bag, activity and the periodic save of players change one player's
    data sequentially.
  - Start-up and configuration of a node, the hot update of scripts, and
    garbage collection. The timer queue is a clock in the models that need one.
  - The text of SQL statements, indices, and the client libraries of both
    databases.
  - The choice among several gate and game servers by hash: one of each is
    registered. Session ids never wrap at 2^32.
  - The WebSocket test message of the center, the latency figure of the gate.

The notes under `components` in `PROJECT.json` say for each partly modelled
component which operations are missing.

## 7 The plan

Done, in this order: `CidAllocator` and `SvcStaticList`, their refinement and
proofs; `ConnectionDrops`; `SvcSend` and `SvcReceive`; `SvcRegistration`;
`LoginProtocol` with what it composes; `RoleCreation`; the data cache and the
data plugin; the codecs and the database rows; the HTTP parser and its
connection; WebSocket; the buffers; connectors, daemon and their composition,
with its proof; the area of interest; the proofs of section 5.

Next:

  1. `PublicServer`: guilds and ranks, with the cut of rank lists.
  2. `V8Loop`: the hot update of scripts between two messages, timers, and
     whether a wake-up of `notify_lock_` can be lost.
  3. Two gates and two game servers: `set_node_info`, the choice by hash, and
     the session ids of both at the center.
  4. Links between the servers that break, under `LoginProtocol`.

Proofs: the parser and the codecs, once they are written with recursive
functions or folds in place of RECURSIVE operators.
