----------------------------- MODULE DataServer -----------------------------
(***************************************************************************)
(* The data server and its connectors (src/plugin/db/DB_Manager.cpp).  The *)
(* server serves the requests of the other servers from its own cache.     *)
(* When it knows too many sessions it forks a data connector, a process    *)
(* with a cache, a counter of ids and a connection of its own, and passes  *)
(* the requests of new sessions on to it; the answers come back through    *)
(* the server, which remembers who was the first to ask for a session.     *)
(*                                                                         *)
(* A process serves a request in one call of its thread: one action.       *)
(* Requests and answers between the server and a connector are queued.     *)
(***************************************************************************)
EXTENDS DataCache

CONSTANTS
    Connectors,       \* data connectors, in the order they are forked
    SessionIds,       \* sessions
    Servers,          \* cids of the servers that ask, each for any session
    MaxSessionCount,  \* max_session_count of the configuration
    LinkStates,       \* what may happen to the connection to the database
    MaxRequests,      \* bound: most requests made
    Operations        \* the requests the servers make

Server == "server"

ASSUME DataServerAssumption ==
    /\ Connectors \in Seq(Range(Connectors)) /\ Server \notin Range(Connectors)
    /\ 0 \notin Servers /\ MaxSessionCount \in Nat \ {0} /\ LinkStates \subseteq Links /\ MaxRequests \in Nat

Processes == {Server} \cup Range(Connectors)

VARIABLES
    db,             \* the tables of the database
    saved_idx,      \* the row of the idx table
    cache, runtime, idx_value,  \* of each process: cached rows, runtime data, count of ids
    sid_set,        \* sessions the server serves itself
    session_map,    \* who asked for a session passed on
    fork_list,      \* connectors being forked: data_fork_list_
    data_node_idx,  \* how many have been forked
    connector_list, \* connectors that have said hello
    inbox,          \* inbox[c]: requests on their way to a connector
    outbox,         \* outbox[c]: answers on their way back
    answer,         \* the latest answer sent to a server
    gone,           \* processes that have crashed
    requests,       \* how many requests have been made
    latest,         \* latest[t][k]: what a load may find, going by the saves served
    issued,         \* ids given out, in order
    askers          \* <<session, server>>: who has asked for which session

rows_vars == <<db, saved_idx, cache, runtime, idx_value, gone, latest, issued>>
fork_vars == <<fork_list, data_node_idx, connector_list>>
dataVars == <<rows_vars, fork_vars, sid_set, session_map, inbox, outbox, answer, requests, askers>>

NoAnswer == [to |-> 0, sid |-> 0, op |-> "none", code |-> 0, value |-> None]

Requests == UNION {[op : {op}, sid : SessionIds, cid : Servers, type : IF op \in {"save", "save_all"} THEN SaveTypes ELSE {"none"},
                    table : IF op \in {"load", "load_table", "save", "delete", "select"} THEN TableSet ELSE {"none"},
                    key : IF op \in {"load_table", "generate"} THEN {0} ELSE Keys,
                    value : IF op \in {"save", "save_all", "save_runtime"} THEN Values ELSE {None}] : op \in Operations}

dataInit ==
    /\ db = EmptyTables /\ saved_idx = 0
    /\ cache = [p \in Processes |-> EmptyCache]
    /\ runtime = [p \in Processes |-> NoRows]
    /\ idx_value = [p \in Processes |-> 0]
    /\ sid_set = {} /\ session_map = [s \in {} |-> 0]
    /\ fork_list = {} /\ data_node_idx = 0 /\ connector_list = << >>
    /\ inbox = [c \in Range(Connectors) |-> << >>]
    /\ outbox = [c \in Range(Connectors) |-> << >>]
    /\ answer = NoAnswer /\ gone = {} /\ requests = 0
    /\ latest = [t \in TableSet |-> [k \in Keys |-> {None}]]
    /\ issued = << >> /\ askers = {}

(***************************************************************************)
(* Serving a request m in process p.                                       *)
(***************************************************************************)
\* The server answers to where the request came from, a connector to the server.
SendAnswer(p, m, op, code, value) ==
    LET a == [to |-> m.cid, sid |-> m.sid, op |-> op, code |-> code, value |-> value]
    IN IF p = Server
       THEN answer' = a /\ UNCHANGED outbox
       ELSE outbox' = [outbox EXCEPT ![p] = Append(@, a)] /\ UNCHANGED answer
RetCode(p, m, code) == SendAnswer(p, m, "ret_code", code, m.op)
Quiet == UNCHANGED <<answer, outbox>>

SendRows(p, m, r) == IF r.code < 0 THEN RetCode(p, m, r.code) ELSE SendAnswer(p, m, m.op, 0, r.rows)

load_db_data(p, m, link) ==
    LET results == IF m.op = "load_all" THEN LoadCollection(db, cache[p], m.key, link)
                                        ELSE LoadTable(db, cache[p], m.table, m.key, link)
    IN \E r \in results :
          /\ cache' = [cache EXCEPT ![p] = r.cache]
          /\ SendRows(p, m, r)
          /\ UNCHANGED <<db, saved_idx, runtime, idx_value, gone, latest, issued>>

\* What a save leaves a load to find: the new value, or, had it failed, either.
Noted(m, code) ==
    [t \in TableSet |->
        IF m.op = "save_all" \/ t = m.table
        THEN [latest[t] EXCEPT ![m.key] = (IF code = 0 THEN {} ELSE @) \cup {m.value}]
        ELSE latest[t]]

\* save_db_data answers when it fails, and when the session ends.
save_db_data(p, m, link) ==
    LET r == IF m.op = "save_all" THEN SaveCollection(db, cache[p], m.type, m.key, m.value, link)
                                  ELSE SaveRow(db, cache[p], m.type, m.table, m.key, m.value, link)
    IN /\ db' = r.db
       /\ cache' = [cache EXCEPT ![p] = r.cache]
       /\ latest' = Noted(m, r.code)
       /\ gone' = IF r.code = Crash THEN gone \cup {p} ELSE gone
       /\ IF r.code = Crash \/ (r.code = 0 /\ m.type # "SAVE_DB_CLEAR_CACHE")
          THEN Quiet ELSE RetCode(p, m, r.code)
       /\ UNCHANGED <<saved_idx, runtime, idx_value, issued>>

delete_db_data(p, m, link) ==
    LET r == DeleteRow(db, cache[p], m.table, m.key, link)
    IN /\ db' = r.db
       /\ cache' = [cache EXCEPT ![p] = r.cache]
       /\ latest' = IF r.code < 0 THEN latest ELSE [latest EXCEPT ![m.table][m.key] = {None}]
       /\ IF r.code < 0 THEN RetCode(p, m, r.code) ELSE Quiet
       /\ UNCHANGED <<saved_idx, runtime, idx_value, gone, issued>>

select_db_data(p, m, link) ==
    /\ SendRows(p, m, SelectRow(db, cache[p], m.table, m.key, link))
    /\ UNCHANGED rows_vars

generate_id(p, m) ==
    /\ idx_value' = [idx_value EXCEPT ![p] = @ + 1]
    /\ issued' = Append(issued, idx_value'[p])
    /\ SendAnswer(p, m, "res_generate_id", 0, idx_value'[p])
    /\ UNCHANGED <<db, saved_idx, cache, runtime, gone, latest>>

load_runtime_data(p, m) ==
    LET r == LoadRuntime(runtime[p], m.key)
    IN /\ runtime' = [runtime EXCEPT ![p] = r.runtime]
       /\ IF r.code < 0 THEN RetCode(p, m, r.code) ELSE SendAnswer(p, m, m.op, 0, r.value)
       /\ UNCHANGED <<db, saved_idx, cache, idx_value, gone, latest, issued>>

save_runtime_data(p, m) ==
    /\ runtime' = [runtime EXCEPT ![p] = SaveRuntime(@, m.key, m.value)]
    /\ Quiet
    /\ UNCHANGED <<db, saved_idx, cache, idx_value, gone, latest, issued>>

delete_runtime_data(p, m) ==
    LET r == DeleteRuntime(runtime[p], m.key)
    IN /\ runtime' = [runtime EXCEPT ![p] = r.runtime]
       /\ IF r.code < 0 THEN RetCode(p, m, r.code) ELSE Quiet
       /\ UNCHANGED <<db, saved_idx, cache, idx_value, gone, latest, issued>>

Serve(p, m, link) ==
    \/ m.op \in {"load", "load_table", "load_all"} /\ load_db_data(p, m, link)
    \/ m.op \in {"save", "save_all"} /\ save_db_data(p, m, link)
    \/ m.op = "delete" /\ delete_db_data(p, m, link)
    \/ m.op = "select" /\ select_db_data(p, m, link)
    \/ m.op = "generate" /\ generate_id(p, m)
    \/ m.op = "load_runtime" /\ load_runtime_data(p, m)
    \/ m.op = "save_runtime" /\ save_runtime_data(p, m)
    \/ m.op = "delete_runtime" /\ delete_runtime_data(p, m)
(***************************************************************************)
(* process_list of the server.                                             *)
(***************************************************************************)
\* With more sessions than it should have, the server forks a connector, one at
\* a time.
ForkConnector ==
    LET full == Cardinality(sid_set) >= MaxSessionCount
        wanted == Cardinality(sid_set) \div MaxSessionCount - Len(connector_list)
    IN IF full /\ wanted > 0 /\ data_node_idx \notin fork_list
          /\ data_node_idx < Len(Connectors)
       THEN /\ data_node_idx' = data_node_idx + 1
            /\ fork_list' = fork_list \cup {data_node_idx + 1}
       ELSE UNCHANGED <<data_node_idx, fork_list>>

\* A session the server does not serve itself is passed on once it is full.
Elsewhere(sid) ==
    connector_list # << >> /\ Cardinality(sid_set) >= MaxSessionCount /\ sid \notin sid_set

EndsSession(m) == m.op \in {"save", "save_all"} /\ m.type = "SAVE_DB_CLEAR_CACHE"

\* A request from another server.  Game and public server ask for the same
\* sessions; session_map_ keeps the first of them.
ServerRequest == \E m \in Requests :
    /\ requests < MaxRequests /\ requests' = requests + 1
    /\ Server \notin gone
    /\ askers' = askers \cup {<<m.sid, m.cid>>}
    /\ ForkConnector /\ UNCHANGED connector_list
    /\ \/ /\ Elsewhere(m.sid)
          /\ session_map' = IF m.sid \in DOMAIN session_map THEN session_map
                            ELSE PutRow(session_map, m.sid, m.cid)
          /\ \E c \in Range(connector_list) : inbox' = [inbox EXCEPT ![c] = Append(@, [m EXCEPT !.cid = 0])]
          /\ UNCHANGED <<rows_vars, sid_set, outbox, answer>>
       \/ /\ ~Elsewhere(m.sid)
          /\ \E link \in LinkStates : Serve(Server, m, link)
          /\ sid_set' = IF EndsSession(m) /\ answer'.code = 0
                        THEN sid_set \ {m.sid} ELSE sid_set \cup {m.sid}
          /\ UNCHANGED <<session_map, inbox>>

\* SYNC_NODE_INFO from a connector that has started; init has loaded its ids.
\* The id to take off fork_list is read from bit_buffer, which holds whatever
\* message was served last: it may be that of any connector, or of none.
NodeInfo == \E c \in Range(Connectors), said \in 0..Len(Connectors) :
    /\ \E n \in 1..data_node_idx : Connectors[n] = c
    /\ c \notin Range(connector_list) \cup gone /\ Server \notin gone
    /\ connector_list' = Append(connector_list, c)
    /\ idx_value' = [idx_value EXCEPT ![c] = saved_idx]
    /\ fork_list' = fork_list \ {said}
    /\ UNCHANGED <<db, saved_idx, cache, runtime, gone, latest, issued, data_node_idx, sid_set, session_map, inbox, outbox, answer, requests, askers>>

\* What is passed on has the type of an answer, and a save also its id.
TakenForAnswer(m) == m.op \in {"save", "save_all", "save_runtime"}

\* A connector takes the next request passed on to it.  A save it takes for an
\* answer to pass back, has no session for it, and drops it.
ConnectorServes == \E c \in Range(connector_list) \ gone :
    /\ inbox[c] # << >>
    /\ inbox' = [inbox EXCEPT ![c] = Tail(@)]
    /\ \/ /\ TakenForAnswer(Head(inbox[c]))
          /\ UNCHANGED <<rows_vars, outbox, answer>>
       \/ /\ ~TakenForAnswer(Head(inbox[c]))
          /\ \E link \in LinkStates : Serve(c, Head(inbox[c]), link)
    /\ UNCHANGED <<fork_vars, sid_set, session_map, requests, askers>>

\* Mutant of PassBack: it goes to where the connector sent it.
PassBackUnrouted == \E c \in Range(connector_list) :
    /\ outbox[c] # << >> /\ Server \notin gone
    /\ outbox' = [outbox EXCEPT ![c] = Tail(@)]
    /\ answer' = Head(outbox[c])
    /\ UNCHANGED <<rows_vars, fork_vars, sid_set, session_map, inbox, requests, askers>>

\* An answer of a connector goes on to the first server that asked.
PassBack == \E c \in Range(connector_list) :
    /\ outbox[c] # << >> /\ Server \notin gone
    /\ outbox' = [outbox EXCEPT ![c] = Tail(@)]
    /\ LET a == Head(outbox[c])
       IN answer' = IF a.sid \in DOMAIN session_map
                    THEN [a EXCEPT !.to = session_map[a.sid]] ELSE answer
    /\ UNCHANGED <<rows_vars, fork_vars, sid_set, session_map, inbox, requests, askers>>

\* tick saves the ids every 30 seconds.
Tick == \E p \in {Server} \cup Range(connector_list) :
    /\ p \notin gone /\ "up" \in LinkStates
    /\ saved_idx' = idx_value[p]
    /\ UNCHANGED <<db, cache, runtime, idx_value, gone, latest, issued, fork_vars, sid_set, session_map, inbox, outbox, answer, requests, askers>>

\* The daemon starts a server that has crashed again: init loads the ids.
Restart ==
    /\ gone = {Server} /\ connector_list = << >>
    /\ gone' = {}
    /\ cache' = [cache EXCEPT ![Server] = EmptyCache]
    /\ runtime' = [runtime EXCEPT ![Server] = NoRows]
    /\ idx_value' = [idx_value EXCEPT ![Server] = saved_idx]
    /\ sid_set' = {} /\ fork_list' = {} /\ data_node_idx' = 0
    /\ latest' = [t \in TableSet |-> [k \in Keys |-> {db[t][k]}]]
    /\ UNCHANGED <<db, saved_idx, issued, connector_list, session_map, inbox, outbox, answer, requests, askers>>

dataNext == ServerRequest \/ NodeInfo \/ ConnectorServes \/ PassBack \/ Tick \/ Restart
dataSpec == dataInit /\ [][dataNext]_dataVars

(***************************************************************************)
(* Properties                                                              *)
(***************************************************************************)

\* An answer for a session goes to a server that has asked for that session,
\* through whichever connector it comes and whatever was asked for other
\* sessions: the server alone, when no other asks for the session.
AnswersStayInSession == answer.op # "none" => <<answer.sid, answer.to>> \in askers

\* What a process without connectors loads is what was saved last, in the cache
\* or the database, for a row, a table and a collection alike; a save that
\* failed may have been done or not.
LoadsAreFresh ==
    [][(connector_list = << >> /\ answer' # answer) =>
          /\ answer'.op \in {"load", "load_table"} =>
                \E t \in TableSet : \A k \in DOMAIN answer'.value : answer'.value[k] \in latest[t][k]
          /\ answer'.op = "load_all" =>
                \E k \in Keys : \A n \in DOMAIN CachedTables : answer'.value[n] \in latest[CachedTables[n]][k]]_dataVars

\* What the server has saved is kept, in the database or in somebody's cache,
\* whatever connectors load and delete meanwhile, unless the process that had it
\* is gone.  Not where a process never connected: a save that is to clear the
\* cache drops the row there, and then fails.  A save passed on to a connector
\* never is one of these (SavesAreServed).
SavedIsKept ==
    gone = {} => \A t \in TableSet, k \in Keys :
        \/ db[t][k] \in latest[t][k]
        \/ \E p \in Processes : k \in DOMAIN cache[p][t] /\ cache[p][t][k].value \in latest[t][k]

\* The code does not keep these.

\* Every answer goes to the server that made the request, also when another has
\* asked for the same session before: game servers and the public server do.
AnswersReachAsker ==
    \A c \in Range(Connectors) : \A i \in DOMAIN outbox[c] :
        LET sid == outbox[c][i].sid
        IN \A p \in Servers : <<sid, p>> \in askers => session_map[sid] = p

\* No request on its way to a connector is one that it will drop.
SavesAreServed ==
    \A c \in Range(Connectors) : \A i \in DOMAIN inbox[c] : ~TakenForAnswer(inbox[c][i])

\* A row that exists can be loaded while the database is up.
LoadsSucceed ==
    [][(answer' # answer /\ answer'.op = "ret_code" /\ answer'.value = "load") =>
          answer'.code # -1]_dataVars

\* A process with connectors loads what was saved last, too.
AllLoadsAreFresh ==
    [][(answer' # answer /\ answer'.op = "load") =>
          \E t \in TableSet : \A k \in DOMAIN answer'.value : answer'.value[k] \in latest[t][k]]_dataVars

\* No id is given out twice.
IdsUnique == \A i, j \in DOMAIN issued : i # j => issued[i] # issued[j]
=============================================================================
