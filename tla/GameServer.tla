----------------------------- MODULE GameServer -----------------------------
(***************************************************************************)
(* The game server's script, from the session a gate adds to the player    *)
(* in the game and back: the login data and the players by session id, the *)
(* load of a player's data from the data server, and the logout that saves *)
(* it.  RoleCreation models how a role is made; here a role is its account *)
(* and the data server knows it or does not.                               *)
(***************************************************************************)
EXTENDS ServerLinks

VARIABLES
    sid_login,    \* sid_login_map: sessions with login data
    sid_player,   \* sid_game_player_map: the sessions with a player in the game
    sid_logout    \* sid_logout_map: sessions whose data is being saved

game_vars == <<sid_login, sid_player, sid_logout>>

GameTypeOK ==
    sid_login \subseteq Sid /\ sid_player \subseteq Sid /\ sid_logout \subseteq Sid

GameInit == sid_login = {} /\ sid_player = {} /\ sid_logout = {}

Reply(l, id) == [id |-> id, sid |-> Head(net[l]).sid]

(***************************************************************************)
(* on_add_session, and its answer to the gate.                             *)
(***************************************************************************)
GameAddSession ==
    /\ Arrives("gate_game", "ADD_SESSION")
    /\ sid_login' = sid_login \cup {Head(net["gate_game"]).sid}
    /\ net' = Send(Taken("gate_game"), "game_gate", Reply("gate_game", "ADD_SESSION"))
    /\ UNCHANGED <<sid_player, sid_logout>>

\* Mutant of EndSession: a player's login data goes as well.
EndSessionOfPlayer(l) ==
    LET sid == Head(net[l]).sid
    IN  /\ sid_login' = sid_login \ {sid}
        /\ net' = IF sid \in sid_player \cup sid_login
                    THEN Send(Taken(l), "game_gate", Reply(l, "LOGOUT"))
                    ELSE Taken(l)
        /\ UNCHANGED <<sid_player, sid_logout>>

(***************************************************************************)
(* on_remove_session for the session of the message at the head of l: the  *)
(* gate is asked to end it.  A player stays until the gate says so, login  *)
(* data goes at once; with neither the script throws, and nothing is sent. *)
(***************************************************************************)
EndSession(l) ==
    LET sid == Head(net[l]).sid
    IN  /\ sid_login' = IF sid \in sid_player THEN sid_login ELSE sid_login \ {sid}
        /\ net' = IF sid \in sid_player \cup sid_login
                    THEN Send(Taken(l), "game_gate", Reply(l, "LOGOUT"))
                    ELSE Taken(l)
        /\ UNCHANGED <<sid_player, sid_logout>>

\* Mutant of EnterGame, EndSession's send forgotten: the gate is not told.
EnterGameSilent ==
    /\ Arrives("gate_game", "ENTER_GAME")
    /\ LET sid == Head(net["gate_game"]).sid
       IN  \/ /\ sid \notin sid_login \/ sid \in sid_player \cup sid_logout
              /\ sid_login' = sid_login \ {sid}
              /\ net' = Taken("gate_game")
           \/ /\ sid \in sid_login /\ sid \notin sid_player \cup sid_logout
              /\ net' = Send(Taken("gate_game"), "game_data",
                             Reply("gate_game", "LOAD_DB_DATA"))
              /\ UNCHANGED sid_login
    /\ UNCHANGED <<sid_player, sid_logout>>

(***************************************************************************)
(* enter_game, refused without login data, in the game, or while saving.   *)
(***************************************************************************)
EnterGame ==
    /\ Arrives("gate_game", "ENTER_GAME")
    /\ LET sid == Head(net["gate_game"]).sid
       IN  \/ /\ sid \notin sid_login \/ sid \in sid_player \cup sid_logout
              /\ EndSession("gate_game")
           \/ /\ sid \in sid_login /\ sid \notin sid_player \cup sid_logout
              /\ net' = Send(Taken("gate_game"), "game_data",
                             Reply("gate_game", "LOAD_DB_DATA"))
              /\ UNCHANGED game_vars

(***************************************************************************)
(* Any request of a player; without a player the session is ended.         *)
(***************************************************************************)
ClientRequest ==
    /\ Arrives("gate_game", "ROLE_INFO")
    /\ \/ /\ Head(net["gate_game"]).sid \notin sid_player
          /\ EndSession("gate_game")
       \/ /\ Head(net["gate_game"]).sid \in sid_player
          /\ net' = Send(Taken("gate_game"), "game_gate",
                         Reply("gate_game", "ROLE_INFO"))
          /\ UNCHANGED game_vars

(***************************************************************************)
(* The player's data arrives, game_player.login: if the login data is gone *)
(* the script throws.                                                      *)
(***************************************************************************)
PlayerData ==
    /\ Arrives("data_game", "SAVE_DB_DATA")
    /\ LET sid == Head(net["data_game"]).sid
       IN  \/ /\ sid \in sid_login
              /\ sid_player' = sid_player \cup {sid}
              /\ net' = Send(Taken("data_game"), "game_gate",
                             Reply("data_game", "ENTER_GAME"))
           \/ /\ sid \notin sid_login
              /\ net' = Taken("data_game")
              /\ UNCHANGED sid_player
    /\ UNCHANGED <<sid_login, sid_logout>>

\* Mutant of GameLogout: the save is not sent.
GameLogoutUnsaved ==
    /\ Arrives("gate_game", "LOGOUT")
    /\ LET sid == Head(net["gate_game"]).sid
       IN  \/ /\ sid \in sid_player
              /\ sid_logout' = sid_logout \cup {sid}
              /\ sid_player' = sid_player \ {sid}
              /\ sid_login' = sid_login \ {sid}
              /\ net' = Taken("gate_game")
           \/ /\ sid \notin sid_player
              /\ net' = Taken("gate_game")
              /\ UNCHANGED game_vars

(***************************************************************************)
(* The gate has ended a session: its player logs out, and the data goes to *)
(* be saved.  Without a player nothing happens.                            *)
(***************************************************************************)
GameLogout ==
    /\ Arrives("gate_game", "LOGOUT")
    /\ LET sid == Head(net["gate_game"]).sid
       IN  \/ /\ sid \in sid_player
              /\ sid_logout' = sid_logout \cup {sid}
              /\ sid_player' = sid_player \ {sid}
              /\ sid_login' = sid_login \ {sid}
              /\ net' = Send(Taken("gate_game"), "game_data",
                             Reply("gate_game", "SAVE_DB_DATA"))
           \/ /\ sid \notin sid_player
              /\ net' = Taken("gate_game")
              /\ UNCHANGED game_vars

(***************************************************************************)
(* process_db_ret_code: the answer to a save ends the logout; a failed     *)
(* load has no case.                                                       *)
(***************************************************************************)
DbRetCode ==
    /\ Arrives("data_game", "DB_RET_CODE")
    /\ sid_logout' = IF Head(net["data_game"]).opt = "SAVE_DB_DATA"
                       THEN sid_logout \ {Head(net["data_game"]).sid}
                       ELSE sid_logout
    /\ net' = Taken("data_game")
    /\ UNCHANGED <<sid_login, sid_player>>

(***************************************************************************)
(* The data server, serving all sessions itself: a load is answered with   *)
(* the data or a code, a save that clears the cache always with a code.    *)
(***************************************************************************)
DataServer ==
    /\ net["game_data"] # <<>>
    /\ LET msg == Head(net["game_data"])
           code == [id |-> "DB_RET_CODE", sid |-> msg.sid, opt |-> msg.id]
           data == [id |-> "SAVE_DB_DATA", sid |-> msg.sid]
       IN  \E answer \in IF msg.id = "LOAD_DB_DATA" THEN {code, data} ELSE {code} :
              net' = Send(Taken("game_data"), "data_game", answer)
    /\ UNCHANGED game_vars
=============================================================================
