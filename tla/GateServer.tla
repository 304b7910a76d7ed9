----------------------------- MODULE GateServer -----------------------------
(***************************************************************************)
(* A gate: its clients' connections, the script with its three maps of     *)
(* sessions, and the C++ plugin with two maps of its own, which forwards   *)
(* messages between clients and the game server on a thread of its own.    *)
(* The V8 thread takes dropped connections and messages from separate      *)
(* queues, so the news that a connection dropped overtakes what the client *)
(* sent before; what it sent is handled all the same.                      *)
(*                                                                         *)
(* The plugin's thread holds but the lock of the plugin's maps: it may     *)
(* forward between two steps of a handler of the script.  The handlers     *)
(* that send to the game server and change the plugin's maps have a step   *)
(* for each, and no other handler of the script runs in between.           *)
(***************************************************************************)
EXTENDS ServerLinks

CONSTANTS
    NoCid,        \* no connection
    Cid,          \* connections of clients, never used again after a drop
    AccountOf,    \* the account that the client of a connection logs in
    MaxRequests   \* bound: requests of each connection after its connect_gate

ASSUME GateAssumption ==
    /\ AccountOf \in [Cid -> Account] /\ MaxRequests \in [Cid -> Nat]
    /\ NoCid \notin Cid

VARIABLES
    client,           \* state of every connection
    inbox,            \* the client's messages that the script has not seen
    requests,         \* how many requests the client may still send
    told,             \* what the client has been told
    cid_session,      \* cid_session_map: the session id, 0 for none
    sid_session,      \* sid_session_map: a session's connection
    account_session,  \* account_session_map: the session id, 0 for none
    cid_session_cpp,  \* cid_session_map_ of the plugin
    sid_session_cpp,  \* sid_session_map_ of the plugin
    adding,           \* the session on_add_session has still to send, 0 for none
    removing,         \* the connection on_drop_cid has still to take from the plugin
    plugin_list       \* messages the filter has handed to the plugin

client_vars == <<client, inbox, requests, told>>
script_vars == <<cid_session, sid_session, account_session>>
plugin_vars == <<cid_session_cpp, sid_session_cpp>>
v8_vars == <<adding, removing>>
gate_vars == <<client_vars, script_vars, plugin_vars, v8_vars, plugin_list>>

\* The V8 thread is between two handlers of the script.
V8Idle == adding = 0 /\ removing = NoCid

ClientState == {"new", "open", "closing", "dropped", "gone"}

GateTypeOK ==
    /\ client \in [Cid -> ClientState]
    /\ requests \in [Cid -> Nat] /\ \A c \in Cid : requests[c] <= MaxRequests[c]
    /\ told \in [Cid -> SUBSET {"CONNECT_GATE", "ENTER_GAME", "ROLE_INFO"}]
    /\ cid_session \in [Cid -> {0} \cup Sid]
    /\ sid_session \in [Sid -> {NoCid} \cup Cid]
    /\ account_session \in [Account -> {0} \cup Sid]
    /\ cid_session_cpp \in [Cid -> {0} \cup Sid]
    /\ sid_session_cpp \in [Sid -> {NoCid} \cup Cid]
    /\ adding \in {0} \cup Sid /\ removing \in {NoCid} \cup Cid

GateInit ==
    /\ client = [c \in Cid |-> "new"] /\ inbox = [c \in Cid |-> <<>>]
    /\ requests = MaxRequests
    /\ told = [c \in Cid |-> {}]
    /\ cid_session = [c \in Cid |-> 0]
    /\ sid_session = [s \in Sid |-> NoCid]
    /\ account_session = [a \in Account |-> 0]
    /\ cid_session_cpp = [c \in Cid |-> 0]
    /\ sid_session_cpp = [s \in Sid |-> NoCid]
    /\ adding = 0 /\ removing = NoCid
    /\ plugin_list = <<>>

-----------------------------------------------------------------------------
(***************************************************************************)
(* The clients.  Each opens its connection and asks for its session with a *)
(* token, a wrong one being 0.                                             *)
(***************************************************************************)
ClientConnect(c, token) ==
    /\ client[c] = "new"
    /\ client' = [client EXCEPT ![c] = "open"]
    /\ inbox' = [inbox EXCEPT ![c] = <<[id |-> "CONNECT_GATE", token |-> token]>>]
    /\ UNCHANGED <<requests, told, script_vars, plugin_vars, v8_vars, plugin_list, net>>

ClientSend(c, id) ==
    /\ client[c] \in {"open", "closing"} /\ requests[c] > 0
    /\ requests' = [requests EXCEPT ![c] = @ - 1]
    /\ inbox' = [inbox EXCEPT ![c] = Append(@, [id |-> id])]
    /\ UNCHANGED <<client, told, script_vars, plugin_vars, v8_vars, plugin_list, net>>

(***************************************************************************)
(* The connection is closed by its client, or by the gate after close_client. *)
(***************************************************************************)
ClientDrop(c) ==
    /\ client[c] \in {"open", "closing"}
    /\ client' = [client EXCEPT ![c] = "dropped"]
    /\ UNCHANGED <<inbox, requests, told, script_vars, plugin_vars, v8_vars, plugin_list, net>>

-----------------------------------------------------------------------------
(***************************************************************************)
(* remove_session of the plugin.                                           *)
(***************************************************************************)
RemoveFromPlugin(c) ==
    /\ cid_session_cpp' = [cid_session_cpp EXCEPT ![c] = 0]
    /\ sid_session_cpp' = IF cid_session_cpp[c] = 0 THEN sid_session_cpp
                            ELSE [sid_session_cpp EXCEPT ![cid_session_cpp[c]] = NoCid]

CloseClient(c) ==
    client' = IF client[c] = "open" THEN [client EXCEPT ![c] = "closing"] ELSE client

(***************************************************************************)
(* on_close_session: the plugin forgets the session, the script does not.  *)
(***************************************************************************)
CloseSession(c) == RemoveFromPlugin(c) /\ CloseClient(c)

\* Mutant of RemoveSession: the center is not told.
RemoveSessionSilent(s, n) ==
    LET c == sid_session[s]
    IN  /\ net' = Send(n, "gate_game", [id |-> "LOGOUT", sid |-> s])
        /\ cid_session' = [cid_session EXCEPT ![c] = 0]
        /\ sid_session' = [sid_session EXCEPT ![s] = NoCid]
        /\ account_session' = [account_session EXCEPT ![AccountOf[c]] = 0]

(***************************************************************************)
(* on_remove_session, n being the links with the message handled taken.    *)
(***************************************************************************)
RemoveSession(s, n) ==
    LET c == sid_session[s]
    IN  /\ net' = Send(Send(n, "gate_game", [id |-> "LOGOUT", sid |-> s]),
                       "gate_center", [id |-> "REMOVE_SESSION", sid |-> s])
        /\ cid_session' = [cid_session EXCEPT ![c] = 0]
        /\ sid_session' = [sid_session EXCEPT ![s] = NoCid]
        /\ account_session' = [account_session EXCEPT ![AccountOf[c]] = 0]

\* Mutant of GateDropCid: the plugin keeps the session.
GateDropCidScriptOnly(c) ==
    /\ V8Idle /\ client[c] = "dropped"
    /\ client' = [client EXCEPT ![c] = "gone"]
    /\ \/ /\ cid_session[c] # 0
          /\ RemoveSession(cid_session[c], net)
       \/ /\ cid_session[c] = 0
          /\ UNCHANGED <<script_vars, net>>
    /\ UNCHANGED <<plugin_vars, v8_vars, inbox, requests, told, plugin_list>>

(***************************************************************************)
(* on_drop_cid: on_remove_session, and then remove_session of the plugin.  *)
(***************************************************************************)
GateDropCid(c) ==
    /\ V8Idle /\ client[c] = "dropped"
    /\ client' = [client EXCEPT ![c] = "gone"]
    /\ \/ /\ cid_session[c] # 0
          /\ RemoveSession(cid_session[c], net)
          /\ removing' = c
       \/ /\ cid_session[c] = 0
          /\ UNCHANGED <<script_vars, removing, net>>
    /\ UNCHANGED <<plugin_vars, adding, inbox, requests, told, plugin_list>>

DropFromPlugin ==
    /\ removing # NoCid
    /\ RemoveFromPlugin(removing)
    /\ removing' = NoCid
    /\ UNCHANGED <<client_vars, script_vars, adding, plugin_list, net>>

-----------------------------------------------------------------------------
NextIs(c, id) == inbox[c] # <<>> /\ Head(inbox[c]).id = id

TakeFrom(c) == inbox' = [inbox EXCEPT ![c] = Tail(@)]

\* Mutant of ConnectGate: a refused client is not closed.
ConnectGateUnanswered(c) ==
    /\ V8Idle /\ NextIs(c, "CONNECT_GATE") /\ TakeFrom(c)
    /\ \/ /\ account_session[AccountOf[c]] # 0
          /\ UNCHANGED <<client, plugin_vars, net>>
       \/ /\ account_session[AccountOf[c]] = 0
          /\ net' = Send(net, "gate_center",
                         [id |-> "VERIFY_TOKEN", sid |-> c, cid |-> c,
                          account |-> AccountOf[c], token |-> Head(inbox[c]).token])
          /\ UNCHANGED <<client, plugin_vars>>
    /\ UNCHANGED <<requests, told, script_vars, v8_vars, plugin_list>>

(***************************************************************************)
(* connect_gate: refused while the account has a session here, else the    *)
(* center is asked.                                                        *)
(***************************************************************************)
ConnectGate(c) ==
    /\ V8Idle /\ NextIs(c, "CONNECT_GATE") /\ TakeFrom(c)
    /\ \/ /\ account_session[AccountOf[c]] # 0
          /\ CloseSession(c)
          /\ UNCHANGED net
       \/ /\ account_session[AccountOf[c]] = 0
          /\ net' = Send(net, "gate_center",
                         [id |-> "VERIFY_TOKEN", sid |-> c, cid |-> c,
                          account |-> AccountOf[c], token |-> Head(inbox[c]).token])
          /\ UNCHANGED <<client, plugin_vars>>
    /\ UNCHANGED <<requests, told, script_vars, v8_vars, plugin_list>>

Heartbeat(c) ==
    /\ V8Idle /\ NextIs(c, "HEARTBEAT") /\ TakeFrom(c)
    /\ IF cid_session[c] = 0 THEN CloseSession(c)
                             ELSE UNCHANGED <<client, plugin_vars>>
    /\ UNCHANGED <<requests, told, script_vars, v8_vars, plugin_list, net>>

(***************************************************************************)
(* The filter hands every other message of a client to the plugin.         *)
(***************************************************************************)
FilterClientMsg(c) ==
    /\ V8Idle /\ inbox[c] # <<>> /\ Head(inbox[c]).id \in {"ENTER_GAME", "ROLE_INFO"}
    /\ TakeFrom(c)
    /\ plugin_list' = Append(plugin_list,
                             [id |-> Head(inbox[c]).id, from |-> "client", cid |-> c])
    /\ UNCHANGED <<client, requests, told, script_vars, plugin_vars, v8_vars, net>>

FilterServerMsg ==
    /\ V8Idle /\ \E id \in {"ENTER_GAME", "ROLE_INFO"} : Arrives("game_gate", id)
    /\ plugin_list' = Append(plugin_list,
                             [id |-> Head(net["game_gate"]).id, from |-> "server",
                              sid |-> Head(net["game_gate"]).sid])
    /\ net' = Taken("game_gate")
    /\ UNCHANGED <<client_vars, script_vars, plugin_vars, v8_vars>>

-----------------------------------------------------------------------------

(***************************************************************************)
(* The center's answers.  verify_token adds the session to the script's    *)
(* maps, where a new entry replaces an old one, and to the plugin's, where *)
(* it does not, and then asks the game server to add it.                   *)
(***************************************************************************)
TokenVerified ==
    /\ V8Idle /\ Arrives("center_gate", "VERIFY_TOKEN")
    /\ LET msg == Head(net["center_gate"])
       IN  /\ cid_session' = [cid_session EXCEPT ![msg.cid] = msg.sid]
           /\ sid_session' = [sid_session EXCEPT ![msg.sid] = msg.cid]
           /\ account_session' = [account_session EXCEPT ![msg.account] = msg.sid]
           /\ cid_session_cpp' = [cid_session_cpp EXCEPT
                                    ![msg.cid] = IF @ = 0 THEN msg.sid ELSE @]
           /\ sid_session_cpp' = [sid_session_cpp EXCEPT
                                    ![msg.sid] = IF @ = NoCid THEN msg.cid ELSE @]
           /\ adding' = msg.sid
    /\ net' = Taken("center_gate")
    /\ UNCHANGED <<client_vars, removing, plugin_list>>

AddToGame ==
    /\ adding # 0
    /\ net' = Send(net, "gate_game", [id |-> "ADD_SESSION", sid |-> adding])
    /\ adding' = 0
    /\ UNCHANGED <<client_vars, script_vars, plugin_vars, removing, plugin_list>>

\* process_node_code: the sid field holds the connection.
TokenRejected ==
    /\ V8Idle /\ Arrives("center_gate", "NODE_CODE")
    /\ CloseSession(Head(net["center_gate"]).sid)
    /\ net' = Taken("center_gate")
    /\ UNCHANGED <<inbox, requests, told, script_vars, v8_vars, plugin_list>>

Tell(c, id) ==
    told' = IF client[c] \in {"open", "closing"}
              THEN [told EXCEPT ![c] = @ \cup {id}] ELSE told

(***************************************************************************)
(* The game server has added a session: the client is told, unless the     *)
(* session is gone and the script throws.                                  *)
(***************************************************************************)
SessionAdded ==
    /\ V8Idle /\ Arrives("game_gate", "ADD_SESSION")
    /\ LET s == Head(net["game_gate"]).sid
       IN  IF sid_session[s] = NoCid THEN UNCHANGED told
                                     ELSE Tell(sid_session[s], "CONNECT_GATE")
    /\ net' = Taken("game_gate")
    /\ UNCHANGED <<client, inbox, requests, script_vars, plugin_vars, v8_vars, plugin_list>>

(***************************************************************************)
(* game_logout: the game server wants a session ended.  The plugin forgets *)
(* it before LOGOUT is sent, so what it forwards in between is of other    *)
(* sessions and could as well have come first: one step.                   *)
(***************************************************************************)
GateLogout ==
    /\ V8Idle /\ Arrives("game_gate", "LOGOUT")
    /\ LET s == Head(net["game_gate"]).sid
       IN  \/ /\ sid_session[s] # NoCid
              /\ CloseSession(sid_session[s])
              /\ RemoveSession(s, Taken("game_gate"))
           \/ /\ sid_session[s] = NoCid
              /\ net' = Taken("game_gate")
              /\ UNCHANGED <<client, script_vars, plugin_vars>>
    /\ UNCHANGED <<inbox, requests, told, v8_vars, plugin_list>>

-----------------------------------------------------------------------------
(***************************************************************************)
(* The plugin's thread, transmit_msg: a client without a session is        *)
(* closed, a message to a session that is gone is dropped.  It may forward *)
(* a request ahead of its session's ADD_SESSION, and behind its LOGOUT.    *)
(***************************************************************************)
TransmitMsg ==
    /\ plugin_list # <<>>
    /\ plugin_list' = Tail(plugin_list)
    /\ LET msg == Head(plugin_list)
       IN  \/ /\ msg.from = "client" /\ cid_session_cpp[msg.cid] = 0
              /\ CloseClient(msg.cid)
              /\ UNCHANGED <<told, net>>
           \/ /\ msg.from = "client" /\ cid_session_cpp[msg.cid] # 0
              /\ net' = Send(net, "gate_game",
                             [id |-> msg.id, sid |-> cid_session_cpp[msg.cid]])
              /\ UNCHANGED <<client, told>>
           \/ /\ msg.from = "server"
              /\ IF sid_session_cpp[msg.sid] = NoCid
                   THEN UNCHANGED told
                   ELSE Tell(sid_session_cpp[msg.sid], msg.id)
              /\ UNCHANGED <<client, net>>
    /\ UNCHANGED <<inbox, requests, script_vars, plugin_vars, v8_vars>>
=============================================================================
