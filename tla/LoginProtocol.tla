--------------------------- MODULE LoginProtocol ---------------------------
(***************************************************************************)
(* A login across the processes: center, gate with its plugin, game and    *)
(* data server, and clients that connect, ask, and drop at any time.       *)
(***************************************************************************)
EXTENDS CenterServer, GateServer, GameServer

vars == <<net, center_vars, gate_vars, game_vars>>

TypeOK == CenterTypeOK /\ GateTypeOK /\ GameTypeOK

Init == LinksInit /\ CenterInit /\ GateInit /\ GameInit

(***************************************************************************)
(* A client shows a token that its account was given at some time, or a    *)
(* wrong one.                                                              *)
(***************************************************************************)
Connect(c) ==
    /\ \E token \in 0 .. issued : ClientConnect(c, token)
    /\ UNCHANGED <<center_vars, game_vars>>

CenterStep ==
    /\ \/ \E a \in Account : SelectGate(a)
       \/ VerifyToken \/ RejectToken \/ CenterRemoveSession
       \/ CenterTokenHandler
    /\ UNCHANGED <<gate_vars, game_vars>>

ClientStep(c) ==
    /\ \/ \E id \in {"HEARTBEAT", "ENTER_GAME", "ROLE_INFO"} : ClientSend(c, id)
       \/ ClientDrop(c)
    /\ UNCHANGED <<center_vars, game_vars>>

GateStep ==
    /\ \/ \E c \in Cid : \/ GateDropCid(c) \/ ConnectGate(c) \/ Heartbeat(c)
                         \/ FilterClientMsg(c)
       \/ DropFromPlugin \/ FilterServerMsg \/ TokenVerified \/ AddToGame
       \/ TokenRejected \/ SessionAdded \/ GateLogout \/ TransmitMsg
    /\ UNCHANGED <<center_vars, game_vars>>

GameStep ==
    /\ \/ GameAddSession \/ EnterGame \/ ClientRequest \/ PlayerData
       \/ GameLogout \/ DbRetCode \/ DataServer
    /\ UNCHANGED <<center_vars, gate_vars>>

Next ==
    \/ \E c \in Cid : Connect(c) \/ ClientStep(c)
    \/ CenterStep \/ GateStep \/ GameStep

Spec == Init /\ [][Next]_vars

(***************************************************************************)
(* The V8 threads and the plugin's thread keep taking what is queued for   *)
(* them, no connection starves another, and a connection the gate has      *)
(* closed drops.                                                           *)
(***************************************************************************)
Fairness ==
    /\ WF_vars(GameStep)
    /\ WF_vars(CenterStep /\ (VerifyToken \/ RejectToken \/ CenterRemoveSession))
    /\ WF_vars(CenterStep /\ CenterTokenHandler)
    /\ WF_vars(GateStep /\ (AddToGame \/ DropFromPlugin))
    /\ WF_vars(GateStep /\ (TokenVerified \/ TokenRejected))
    /\ WF_vars(GateStep /\ (SessionAdded \/ GateLogout \/ FilterServerMsg))
    /\ WF_vars(GateStep /\ TransmitMsg)
    /\ \A c \in Cid :
          /\ WF_vars(GateStep /\ (ConnectGate(c) \/ Heartbeat(c) \/ FilterClientMsg(c)))
          /\ WF_vars(GateStep /\ GateDropCid(c))
          /\ WF_vars(client[c] = "closing" /\ ClientStep(c) /\ ClientDrop(c))

FairSpec == Spec /\ Fairness

-----------------------------------------------------------------------------
(***************************************************************************)
(* A token earns one session id at most, whoever shows it and how often    *)
(* (verify_token, on_close_session of the center).                         *)
(***************************************************************************)
TokenEarnsOneSession == \A t \in Token : grants[t] <= 1

(***************************************************************************)
(* The center's set of session ids is what the gate has, and what is under *)
(* way between them: an id it granted, or one the gate has removed.        *)
(***************************************************************************)
SidsAccountedFor ==
    sid_set = {s \in Sid : sid_session[s] # NoCid}
                \cup SidsUnderWay("center_gate", "VERIFY_TOKEN")
                \cup SidsUnderWay("gate_center", "REMOVE_SESSION")

(***************************************************************************)
(* The plugin forwards only for sessions the script has, or for the one    *)
(* whose drop the script is in the middle of, and its two maps agree at    *)
(* every moment: a client's messages travel under the session id by which  *)
(* the answers find the client (add_session, remove_session).              *)
(***************************************************************************)
PluginAgrees ==
    /\ \A c \in Cid : cid_session_cpp[c] # 0 =>
          /\ cid_session[c] = cid_session_cpp[c] \/ c = removing
          /\ sid_session_cpp[cid_session_cpp[c]] = c
    /\ \A s \in Sid : sid_session_cpp[s] # NoCid =>
          /\ sid_session[s] = sid_session_cpp[s] \/ sid_session_cpp[s] = removing
          /\ cid_session_cpp[sid_session_cpp[s]] = s

(***************************************************************************)
(* A session of the gate is known to the game server, or will be, or the   *)
(* game server has asked the gate to end it.                               *)
(***************************************************************************)
SessionsPaired ==
    \A s \in Sid : sid_session[s] # NoCid =>
        \/ s \in sid_login
        \/ s = adding
        \/ s \in SidsUnderWay("gate_game", "ADD_SESSION")
        \/ s \in SidsUnderWay("game_gate", "LOGOUT")

(***************************************************************************)
(* Whatever order loads, logouts and refusals come in, a player in the     *)
(* game has its login data, which the handlers read without a test.        *)
(***************************************************************************)
PlayersHaveLogin == sid_player \subseteq sid_login

(***************************************************************************)
(* Every client that connects is told that it has its session, or loses    *)
(* its connection.                                                         *)
(***************************************************************************)
ConnectAnswered ==
    \A c \in Cid : client[c] = "open" ~>
                      ("CONNECT_GATE" \in told[c] \/ client[c] # "open")

(***************************************************************************)
(* sid_logout_map, which keeps a session out of the game, holds exactly    *)
(* the sessions whose save or its confirmation is under way: no entry is   *)
(* left behind, and none goes before the data is saved (logout, and        *)
(* process_db_ret_code).                                                   *)
(***************************************************************************)
LogoutsAwaitSaves ==
    LET answers == net["data_game"]
    IN  sid_logout = SidsUnderWay("game_data", "SAVE_DB_DATA") \cup
            {answers[i].sid : i \in {j \in DOMAIN answers :
                answers[j].id = "DB_RET_CODE" /\ answers[j].opt = "SAVE_DB_DATA"}}

(***************************************************************************)
(* The gate notifies the game server of a session's end to remove it: once *)
(* no message is under way, the game server has no session the gate lacks. *)
(***************************************************************************)
GameForgets ==
    (\A l \in Link : net[l] = <<>>) =>
        \A s \in sid_login : sid_session[s] # NoCid

(***************************************************************************)
(* An account logs in once: no two sessions of the gate have its name.     *)
(***************************************************************************)
OneSessionPerAccount ==
    \A s, t \in Sid :
        /\ sid_session[s] # NoCid /\ sid_session[t] # NoCid
        /\ AccountOf[sid_session[s]] = AccountOf[sid_session[t]]
        => s = t

(***************************************************************************)
(* A client is refused for a double login only while another connection of *)
(* its account lives, or its end is still to be handled.                   *)
(***************************************************************************)
RefusedOnlyForLive ==
    \A c \in Cid :
        (NextIs(c, "CONNECT_GATE") /\ account_session[AccountOf[c]] # 0)
            => client[sid_session[account_session[AccountOf[c]]]] # "gone"

(***************************************************************************)
(* A token nobody shows is cleared by the center's timer, as long as the   *)
(* clock runs (MaxTime).                                                   *)
(***************************************************************************)
TokensExpire ==
    \A a \in Account :
        (account_token[a] # 0 /\ now + 2 <= MaxTime) ~> account_token[a] = 0
=============================================================================
