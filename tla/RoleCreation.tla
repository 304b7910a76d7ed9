---------------------------- MODULE RoleCreation ----------------------------
(***************************************************************************)
(* How a client makes a role: the login module of the game server's        *)
(* script, and the tables of the data server it asks.  Each step of        *)
(* create_role is the handler of another answer of the data server: is the *)
(* name taken, what is the new role's id; then the account's list of roles *)
(* and the role are saved, and either save may fail.  Other sessions'      *)
(* steps come in between, and so do the same session's if its client does  *)
(* not wait for its answers, which nothing makes it do.                    *)
(***************************************************************************)
EXTENDS Naturals, Sequences

CONSTANTS
    Sessions,     \* sessions; each is its account's only one
    Name,         \* role names
    NoName,       \* none yet
    MaxAsks       \* bounds: how many requests each client makes at most

ASSUME RoleAssumption == NoName \notin Name /\ MaxAsks \subseteq [Sessions -> Nat]

VARIABLES
    login,       \* sid_login_map: the sessions with login data
    role_list,   \* login_data.account_info.role_list
    has_list,    \* the sessions whose role_list has been fetched
    create_info, \* login_data.create_role_info: the name and account asked for
    player,      \* sid_game_player_map: the role in the game, 0 for none
    to_data,     \* messages to the data server
    to_game,     \* and its answers
    idx,         \* idx_value_map_ of the data server, for role ids
    account_db,  \* table of accounts: the list of roles
    role_db,     \* table of roles: [role, name, account, checked]
    waiting,     \* the clients that wait for an answer
    hasty,       \* those that once did not, or made a role without a list
    asks,        \* requests a client may still make
    unsaved,     \* accounts whose last save failed
    forgotten    \* roles that a list just fetched dropped from the one it replaced

login_vars == <<login, role_list, has_list, create_info, player>>
data_vars == <<idx, account_db, role_db, unsaved>>
asker_vars == <<waiting, hasty, asks>>
role_vars == <<login_vars, data_vars, asker_vars, to_data, to_game, forgotten>>

RoleId == Nat \ {0}

NoInfo == [name |-> NoName, account |-> NoName]

roleTypeOK ==
    /\ login \subseteq Sessions /\ has_list \subseteq Sessions
    /\ waiting \subseteq Sessions /\ hasty \subseteq Sessions /\ unsaved \subseteq Sessions
    /\ forgotten \subseteq RoleId
    /\ role_list \in [Sessions -> SUBSET RoleId]
    /\ create_info \in [Sessions -> [name : Name, account : Sessions] \cup {NoInfo}]
    /\ player \in [Sessions -> {0} \cup RoleId]
    /\ idx \in {0} \cup RoleId
    /\ account_db \in [Sessions -> SUBSET RoleId]
    /\ role_db \subseteq [role : RoleId, name : Name, account : Sessions, checked : Name]
    /\ asks \in [Sessions -> Nat]

roleInit ==
    /\ login = Sessions /\ has_list = {} /\ waiting = {} /\ hasty = {}
    /\ unsaved = {} /\ forgotten = {}
    /\ role_list = [s \in Sessions |-> {}] /\ account_db = [s \in Sessions |-> {}]
    /\ create_info = [s \in Sessions |-> NoInfo]
    /\ player = [s \in Sessions |-> 0]
    /\ to_data = <<>> /\ to_game = <<>>
    /\ idx = 0 /\ role_db = {}
    /\ asks \in MaxAsks

-----------------------------------------------------------------------------
\* A client may ask at any time; it is hasty if it should have waited.
Request(s, ready) ==
    /\ s \in login /\ asks[s] > 0
    /\ asks' = [asks EXCEPT ![s] = @ - 1]
    /\ waiting' = waiting \cup {s}
    /\ hasty' = IF ready /\ s \notin waiting THEN hasty ELSE hasty \cup {s}

FetchRoleList(s) ==
    /\ Request(s, TRUE)
    /\ to_data' = Append(to_data, [id |-> "SELECT_ACCOUNT", sid |-> s])
    /\ UNCHANGED <<login_vars, data_vars, to_game, forgotten>>

\* Mutant of CreateRole: all logins share one create_role_info.
CreateRoleShared(s, name) ==
    /\ Request(s, s \in has_list)
    /\ create_info' = [t \in Sessions |-> [name |-> name, account |-> s]]
    /\ to_data' = Append(to_data, [id |-> "SELECT_NAME", sid |-> s, checked |-> name])
    /\ UNCHANGED <<login, role_list, has_list, player, data_vars, to_game, forgotten>>

(***************************************************************************)
(* create_role remembers what is asked for, over what was asked before,    *)
(* and asks for a role of that name.  A client gives its own account.  The *)
(* field checked is no part of the later messages: it follows the name     *)
(* asked for through the answers.                                          *)
(***************************************************************************)
CreateRole(s, name) ==
    /\ Request(s, s \in has_list)
    /\ create_info' = [create_info EXCEPT ![s] = [name |-> name, account |-> s]]
    /\ to_data' = Append(to_data, [id |-> "SELECT_NAME", sid |-> s, checked |-> name])
    /\ UNCHANGED <<login, role_list, has_list, player, data_vars, to_game, forgotten>>

(***************************************************************************)
(* The gate ends the session of a player: logout.  Before there is a       *)
(* player nothing happens in the game server, but the client is gone.      *)
(***************************************************************************)
Logout(s) ==
    /\ asks' = [asks EXCEPT ![s] = 0]
    /\ waiting' = waiting \ {s}
    /\ login' = IF player[s] = 0 THEN login ELSE login \ {s}
    /\ player' = [player EXCEPT ![s] = 0]
    /\ UNCHANGED <<role_list, has_list, create_info, hasty, data_vars, to_data, to_game, forgotten>>

-----------------------------------------------------------------------------
(***************************************************************************)
(* The data server takes the messages in turn; it has no connectors here.  *)
(* A select or a save that fails is answered by a code, an id is the next  *)
(* one, and a save that keeps the cache and succeeds is not answered.      *)
(***************************************************************************)
Answer(msg) == to_game' = Append(to_game, msg)

SelectData ==
    /\ to_data # <<>> /\ to_data' = Tail(to_data)
    /\ LET msg == Head(to_data)
       IN  \/ /\ msg.id \in {"SELECT_ACCOUNT", "SELECT_NAME"}
              /\ Answer([id |-> "OPT_FAIL", sid |-> msg.sid])
           \/ /\ msg.id = "SELECT_ACCOUNT"
              /\ Answer([id |-> "ROLE_LIST", sid |-> msg.sid,
                         role_list |-> account_db[msg.sid]])
           \/ /\ msg.id = "SELECT_NAME"
              /\ Answer([id |-> IF \E r \in role_db : r.name = msg.checked
                                  THEN "NAME_TAKEN" ELSE "NAME_FREE",
                         sid |-> msg.sid, checked |-> msg.checked])
    /\ UNCHANGED <<login_vars, data_vars, asker_vars, forgotten>>

GenerateId ==
    /\ to_data # <<>> /\ Head(to_data).id = "GENERATE_ID"
    /\ idx' = idx + 1
    /\ Answer([id |-> "GENERATED_ID", sid |-> Head(to_data).sid, role |-> idx + 1,
               checked |-> Head(to_data).checked])
    /\ to_data' = Tail(to_data)
    /\ UNCHANGED <<login_vars, asker_vars, account_db, role_db, unsaved, forgotten>>

\* The tables of a player are saved one after the other: when a later one fails,
\* the role is there all the same.
SaveData ==
    /\ to_data # <<>> /\ to_data' = Tail(to_data)
    /\ LET msg == Head(to_data)
           failed == [id |-> "SAVE_FAIL", sid |-> msg.sid]
       IN  \/ /\ msg.id = "SAVE_ACCOUNT"
              /\ account_db' = [account_db EXCEPT ![msg.sid] = msg.role_list]
              /\ unsaved' = unsaved \ {msg.sid}
              /\ UNCHANGED <<role_db, to_game>>
           \/ /\ msg.id = "SAVE_ACCOUNT"
              /\ unsaved' = unsaved \cup {msg.sid}
              /\ Answer(failed)
              /\ UNCHANGED <<account_db, role_db>>
           \/ /\ msg.id = "SAVE_PLAYER"
              /\ role_db' = role_db \cup {msg.role}
              /\ (to_game' = to_game \/ Answer(failed))
              /\ UNCHANGED <<account_db, unsaved>>
           \/ /\ msg.id = "SAVE_PLAYER"
              /\ Answer(failed)
              /\ UNCHANGED <<account_db, role_db, unsaved>>
    /\ UNCHANGED <<login_vars, asker_vars, idx, forgotten>>

-----------------------------------------------------------------------------
Answered(id) == to_game # <<>> /\ Head(to_game).id = id

Who == Head(to_game).sid

Handled == to_game' = Tail(to_game)

(***************************************************************************)
(* A failed select ends the session: on_remove_session.  The login data of *)
(* a player stays until the gate ends the session.                         *)
(***************************************************************************)
SelectFailed ==
    /\ Answered("OPT_FAIL") /\ Handled
    /\ login' = IF player[Who] = 0 THEN login \ {Who} ELSE login
    /\ waiting' = IF Who \in login THEN waiting \ {Who} ELSE waiting
    /\ UNCHANGED <<role_list, has_list, create_info, player, data_vars, hasty, asks,
                   to_data, forgotten>>

(***************************************************************************)
(* A failed save is left at that: process_db_ret_code ends only a logout.  *)
(***************************************************************************)
SaveFailed ==
    /\ Answered("SAVE_FAIL") /\ Handled
    /\ UNCHANGED <<login_vars, data_vars, asker_vars, to_data, forgotten>>

(***************************************************************************)
(* The other answers: without login data the script throws.                *)
(***************************************************************************)
RoleList ==
    /\ Answered("ROLE_LIST") /\ Handled
    /\ \/ /\ Who \in login
          /\ role_list' = [role_list EXCEPT ![Who] = Head(to_game).role_list]
          /\ forgotten' = forgotten \cup (role_list[Who] \ Head(to_game).role_list)
          /\ has_list' = has_list \cup {Who}
          /\ waiting' = waiting \ {Who}
       \/ /\ Who \notin login
          /\ UNCHANGED <<role_list, has_list, waiting, forgotten>>
    /\ UNCHANGED <<login, create_info, player, data_vars, hasty, asks, to_data>>

\* Mutant of NameTaken: the client is not told.
NameTakenUntold ==
    /\ Answered("NAME_TAKEN") /\ Handled
    /\ UNCHANGED <<login_vars, data_vars, asker_vars, to_data, forgotten>>

NameTaken ==
    /\ Answered("NAME_TAKEN") /\ Handled
    /\ waiting' = IF Who \in login THEN waiting \ {Who} ELSE waiting
    /\ UNCHANGED <<login_vars, data_vars, hasty, asks, to_data, forgotten>>

NameFree ==
    /\ Answered("NAME_FREE") /\ Handled
    /\ to_data' = Append(to_data, [id |-> "GENERATE_ID", sid |-> Who,
                                   checked |-> Head(to_game).checked])
    /\ UNCHANGED <<login_vars, data_vars, asker_vars, forgotten>>

(***************************************************************************)
(* db_create_role: the new role joins the list, both are saved, and the    *)
(* player is in the game.  A list never fetched makes the script throw.    *)
(***************************************************************************)
NewRole == [role |-> Head(to_game).role, name |-> create_info[Who].name,
            account |-> create_info[Who].account, checked |-> Head(to_game).checked]

\* Mutant of SaveBoth: the role is saved before the account's list.
SaveBothRoleFirst ==
    to_data' = to_data \o <<[id |-> "SAVE_PLAYER", sid |-> Who, role |-> NewRole],
                            [id |-> "SAVE_ACCOUNT", sid |-> Who, role_list |-> role_list'[Who]]>>

SaveBoth ==
    to_data' = to_data \o <<[id |-> "SAVE_ACCOUNT", sid |-> Who, role_list |-> role_list'[Who]],
                            [id |-> "SAVE_PLAYER", sid |-> Who, role |-> NewRole]>>

DbCreateRole ==
    /\ Answered("GENERATED_ID") /\ Handled
    /\ \/ /\ Who \in login /\ Who \in has_list
          /\ role_list' = [role_list EXCEPT ![Who] = @ \cup {Head(to_game).role}]
          /\ SaveBoth
          /\ player' = [player EXCEPT ![Who] = Head(to_game).role]
          /\ waiting' = waiting \ {Who}
       \/ /\ Who \notin login \cap has_list
          /\ UNCHANGED <<role_list, player, waiting, to_data>>
    /\ UNCHANGED <<login, has_list, create_info, data_vars, hasty, asks, forgotten>>

roleGameStep ==
    SelectFailed \/ SaveFailed \/ RoleList \/ NameTaken \/ NameFree \/ DbCreateRole

DataStep == SelectData \/ GenerateId \/ SaveData

roleNext ==
    \/ \E s \in Sessions : \/ FetchRoleList(s) \/ Logout(s)
                      \/ \E name \in Name : CreateRole(s, name)
    \/ roleGameStep \/ DataStep

roleSpec == roleInit /\ [][roleNext]_role_vars

(***************************************************************************)
(* Both servers keep taking their messages.                                *)
(***************************************************************************)
roleFairness == WF_role_vars(roleGameStep) /\ WF_role_vars(DataStep)

roleFairSpec == roleSpec /\ roleFairness

-----------------------------------------------------------------------------
(***************************************************************************)
(* A role in its table is in its account's list in the other, or the save  *)
(* of the list failed and the list in memory has it for the next save, if  *)
(* the session still lives, or a fetched list that lacked it has taken     *)
(* that one's place.                                                       *)
(* Whatever fails and however hasty the clients are, no order of saves,    *)
(* fetches and answers loses a role in another way (db_create_role).       *)
(***************************************************************************)
RolesListed ==
    \A r \in role_db :
        \/ r.role \in account_db[r.account]
        \/ r.account \in unsaved /\ (r.account \in login => r.role \in role_list[r.account])
        \/ r.role \in forgotten

(***************************************************************************)
(* Roles of different accounts keep apart, though what is known of a role  *)
(* waits in create_role_info and in four messages among those of others:   *)
(* every role has an id of its own, no account but the one it was made for *)
(* lists it, and no id is in the lists of two accounts.                    *)
(***************************************************************************)
RolesOwned ==
    /\ \A r, q \in role_db : r.role = q.role => r = q
    /\ \A r \in role_db, s \in Sessions : r.role \in account_db[s] => s = r.account
    /\ \A s, t \in Sessions : s # t => account_db[s] \cap account_db[t] = {}

(***************************************************************************)
(* A client that waits for an answer gets one, or its session ends, unless *)
(* it did not wait for an earlier one, or made a role without a list.      *)
(***************************************************************************)
RequestAnswered == \A s \in Sessions : s \in waiting ~> (s \notin waiting \/ s \in hasty)

(***************************************************************************)
(* The code does not keep these.  db_create_role saves the account's list  *)
(* so that the role is found again, but what RolesListed excepts happens.  *)
(* create_role checks that the name does not exist, but another session    *)
(* may take it between the check and the save, and the same session may    *)
(* ask for another name.                                                   *)
(***************************************************************************)
RolesNeverLost == \A r \in role_db : r.role \in account_db[r.account]

RoleNamesUnique == \A r, q \in role_db : r.name = q.name => r = q

NameWasChecked == \A r \in role_db : r.name = r.checked
=============================================================================
