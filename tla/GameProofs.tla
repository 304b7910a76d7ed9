----------------------------- MODULE GameProofs ------------------------------
(***************************************************************************)
(* Two parts of the game server's script, and the data server behind it,   *)
(* for any number of sessions.                                             *)
(*                                                                         *)
(* Role creation: a role in its table is in its account's list, or it is   *)
(* known which failure or which fetch took it out, and roles of different  *)
(* accounts keep apart, for any number of names and requests, whether      *)
(* clients wait for their answers or not and whatever save fails.          *)
(*                                                                         *)
(* Scenes: entities that are near each other know each other, for any      *)
(* scenes, coordinates and radius.                                         *)
(*                                                                         *)
(* The data server: answers stay in their session, what it saved is kept,  *)
(* and loads are fresh, for any tables, keys, connectors and sessions.     *)
(***************************************************************************)
EXTENDS RoleCreation, AreaOfInterest, DataServer, FiniteSetTheorems, SequenceTheorems,
        WellFoundedInduction, TLAPS

Role == [role : RoleId, name : Name, account : Sessions, checked : Name]

DataMsg ==
    [id : {"SELECT_ACCOUNT"}, sid : Sessions]
    \cup [id : {"SELECT_NAME", "GENERATE_ID"}, sid : Sessions, checked : Name]
    \cup [id : {"SAVE_ACCOUNT"}, sid : Sessions, role_list : SUBSET RoleId]
    \cup [id : {"SAVE_PLAYER"}, sid : Sessions, role : Role]

GameMsg ==
    [id : {"OPT_FAIL", "SAVE_FAIL"}, sid : Sessions]
    \cup [id : {"ROLE_LIST"}, sid : Sessions, role_list : SUBSET RoleId]
    \cup [id : {"NAME_TAKEN", "NAME_FREE"}, sid : Sessions, checked : Name]
    \cup [id : {"GENERATED_ID"}, sid : Sessions, role : RoleId, checked : Name]

Typed ==
    /\ to_data \in Seq(DataMsg) /\ to_game \in Seq(GameMsg)
    /\ role_list \in [Sessions -> SUBSET RoleId] /\ account_db \in [Sessions -> SUBSET RoleId]
    /\ create_info \in [Sessions -> [name : Name, account : Sessions] \cup {NoInfo}]
    /\ role_db \in SUBSET Role /\ idx \in Nat

Sent == {to_data[i] : i \in DOMAIN to_data}

Back == {to_game[i] : i \in DOMAIN to_game}

\* The roles in their table and those on the way to it.
Made == role_db \cup {m.role : m \in {n \in Sent : n.id = "SAVE_PLAYER"}}

\* Who asked for a name has said for whom.
InfoKept ==
    /\ \A s \in Sessions : create_info[s] # NoInfo => create_info[s].account = s
    /\ \A m \in Sent : m.id \in {"SELECT_NAME", "GENERATE_ID"} => create_info[m.sid] # NoInfo
    /\ \A m \in Back : m.id \in {"NAME_FREE", "GENERATED_ID"} => create_info[m.sid] # NoInfo

\* Where an id may be found, in the tables, in memory and in messages.
Owns(s, n) ==
    \/ n \in role_list[s] \cup account_db[s]
    \/ \E m \in Sent : m.id = "SAVE_ACCOUNT" /\ m.sid = s /\ n \in m.role_list
    \/ \E m \in Back : m.id = "ROLE_LIST" /\ m.sid = s /\ n \in m.role_list
    \/ \E m \in Back : m.id = "GENERATED_ID" /\ m.sid = s /\ n = m.role
    \/ \E r \in Made : r.account = s /\ n = r.role

OwnerKept ==
    /\ \A s \in Sessions, n \in RoleId : Owns(s, n) => n <= idx
    /\ \A s, t \in Sessions, n \in RoleId : Owns(s, n) /\ Owns(t, n) => s = t

IsId(i) == to_game[i].id = "GENERATED_ID"

IdsOnce ==
    /\ \A r, q \in Made : r.role = q.role => r = q
    /\ \A r \in Made, m \in Back : m.id = "GENERATED_ID" => r.role # m.role
    /\ \A i, j \in DOMAIN to_game : IsId(i) /\ IsId(j) /\ to_game[i].role = to_game[j].role => i = j

\* A role is listed once the account's list is saved with it, unless that failed.
Listed(r) ==
    \/ r.role \in account_db[r.account]
    \/ r.account \in unsaved
    \/ r.role \in forgotten

IsPlayer(i) == to_data[i].id = "SAVE_PLAYER"

Saves(i, s) == to_data[i].id = "SAVE_ACCOUNT" /\ to_data[i].sid = s

InMemory == \A r \in Made : r.role \in role_list[r.account] \cup forgotten

\* A list on its way has the account's roles that were made before.
ListsFull ==
    \A i \in DOMAIN to_data, s \in Sessions : Saves(i, s) =>
        /\ \A r \in role_db : r.account = s => r.role \in to_data[i].role_list \cup forgotten
        /\ \A j \in DOMAIN to_data :
              j < i /\ IsPlayer(j) /\ to_data[j].role.account = s
                => to_data[j].role.role \in to_data[i].role_list \cup forgotten

\* A role on its way comes right behind its list.
Behind(i, r) ==
    \/ i = 1 /\ Listed(r)
    \/ /\ i - 1 \in DOMAIN to_data /\ Saves(i - 1, r.account)
       /\ r.role \in to_data[i - 1].role_list

ListedFirst ==
    \A i \in DOMAIN to_data, r \in Made : IsPlayer(i) /\ r = to_data[i].role => Behind(i, r)

TableListed == \A r \in role_db : Listed(r)

ListInv == InMemory /\ ListsFull /\ ListedFirst /\ TableListed

IInv == Typed /\ InfoKept /\ OwnerKept /\ IdsOnce /\ ListInv

-----------------------------------------------------------------------------
(* The queues, position by position and as sets. *)
DataExtended ==
    /\ \A i \in DOMAIN to_data : i \in DOMAIN to_data' /\ to_data'[i] = to_data[i] /\ i < Len(to_data')
    /\ DOMAIN to_data' = DOMAIN to_data \cup {Len(to_data')} /\ Len(to_data') \in Nat \ {0}

DataTaken ==
    /\ 1 \in DOMAIN to_data /\ DOMAIN to_data \subseteq Nat \ {0}
    /\ \A i \in DOMAIN to_data' : i + 1 \in DOMAIN to_data /\ to_data'[i] = to_data[i + 1] /\ i \in Nat \ {0}
    /\ \A i \in DOMAIN to_data : i = 1 \/ (i - 1 \in DOMAIN to_data' /\ to_data'[i - 1] = to_data[i])

GameExtended ==
    /\ \A i \in DOMAIN to_game : to_game'[i] = to_game[i] /\ i < Len(to_game')
    /\ DOMAIN to_game' = DOMAIN to_game \cup {Len(to_game')} /\ Len(to_game') \in Nat \ {0}

GameTaken ==
    /\ 1 \in DOMAIN to_game /\ to_game' \in Seq(GameMsg)
    /\ \A i \in DOMAIN to_game' : i + 1 \in DOMAIN to_game /\ to_game'[i] = to_game[i + 1] /\ i \in Nat \ {0}

LEMMA DataExtends ==
    ASSUME Typed, NEW m \in DataMsg, to_data' = Append(to_data, m)
    PROVE  /\ DataExtended /\ to_data'[Len(to_data')] = m /\ to_data' \in Seq(DataMsg)
           /\ Sent' = Sent \cup {m}
<1>1. DataExtended /\ to_data'[Len(to_data')] = m /\ to_data' \in Seq(DataMsg)
  BY DEF Typed, DataExtended
<1> QED
  BY <1>1 DEF DataExtended, Sent

LEMMA DataTakes ==
    ASSUME Typed, to_data # <<>>, to_data' = Tail(to_data)
    PROVE  /\ DataTaken /\ Head(to_data) = to_data[1] /\ to_data[1] \in DataMsg
           /\ to_data' \in Seq(DataMsg)
           /\ to_data[1] \in Sent /\ Sent' \subseteq Sent
<1>1. /\ DataTaken /\ Head(to_data) = to_data[1] /\ to_data[1] \in DataMsg
      /\ to_data' \in Seq(DataMsg)
  BY DEF Typed, DataTaken
<1> QED
  BY <1>1 DEF DataTaken, Sent

LEMMA GameExtends ==
    ASSUME Typed, NEW m \in GameMsg, to_game' = Append(to_game, m)
    PROVE  /\ GameExtended /\ to_game'[Len(to_game')] = m /\ to_game' \in Seq(GameMsg)
           /\ Back' = Back \cup {m}
<1>1. GameExtended /\ to_game'[Len(to_game')] = m /\ to_game' \in Seq(GameMsg)
  BY DEF Typed, GameExtended
<1> QED
  BY <1>1 DEF GameExtended, Back

LEMMA GameTakes ==
    ASSUME Typed, to_game # <<>>, to_game' = Tail(to_game)
    PROVE  /\ GameTaken /\ Head(to_game) = to_game[1] /\ to_game[1] \in GameMsg
           /\ to_game[1] \in Back /\ Back' \subseteq Back
<1>1. GameTaken /\ Head(to_game) = to_game[1] /\ to_game[1] \in GameMsg
  BY DEF Typed, GameTaken
<1> QED
  BY <1>1 DEF GameTaken, Back

(* What is on its way is of its type. *)
LEMMA Messages ==
    ASSUME Typed
    PROVE  Sent \subseteq DataMsg /\ Back \subseteq GameMsg /\ Made \subseteq Role
<1>1. Sent \subseteq DataMsg /\ Back \subseteq GameMsg
  BY DEF Typed, Sent, Back
<1>2. \A m \in DataMsg : m.id = "SAVE_PLAYER" => m.role \in Role
  BY DEF DataMsg
<1> QED
  BY <1>1, <1>2 DEF Made, Typed

-----------------------------------------------------------------------------
(* What the parts of the invariant are about may change in few ways. *)

\* Ids go nowhere they were not.
LEMMA OwnerKeeps ==
    ASSUME OwnerKept, idx' = idx, \A s \in Sessions, n \in RoleId : Owns(s, n)' => Owns(s, n)
    PROVE  OwnerKept'
BY DEF OwnerKept

LEMMA OnceKeeps ==
    ASSUME Typed, IdsOnce, Made' \subseteq Made, Back' \subseteq Back,
           to_game' = to_game \/ GameTaken
    PROVE  IdsOnce'
<1>1. \A i, j \in DOMAIN to_game' :
        IsId(i)' /\ IsId(j)' /\ to_game'[i].role = to_game'[j].role => i = j
  <2>1. CASE to_game' = to_game
    BY <2>1 DEF IdsOnce, IsId
  <2>2. CASE GameTaken
    <3> SUFFICES ASSUME NEW i \in DOMAIN to_game', NEW j \in DOMAIN to_game',
                        IsId(i)', IsId(j)', to_game'[i].role = to_game'[j].role
                 PROVE  i = j
      OBVIOUS
    <3>1. i + 1 = j + 1
      BY <2>2 DEF GameTaken, IdsOnce, IsId
    <3> QED
      BY <3>1, <2>2 DEF GameTaken
  <2> QED
    BY <2>1, <2>2
<1> QED
  BY <1>1 DEF IdsOnce

LEMMA OnceAnswered ==
    ASSUME Typed, IdsOnce, Made' \subseteq Made, NEW m \in GameMsg, to_game' = Append(to_game, m),
           m.id = "GENERATED_ID" => /\ \A r \in Made : r.role # m.role
                                    /\ \A n \in Back : n.id = "GENERATED_ID" => n.role # m.role
    PROVE  IdsOnce'
<1>1. GameExtended /\ to_game'[Len(to_game')] = m /\ Back' = Back \cup {m}
  BY GameExtends
<1>2. \A i, j \in DOMAIN to_game' :
        IsId(i)' /\ IsId(j)' /\ to_game'[i].role = to_game'[j].role => i = j
  <2> SUFFICES ASSUME NEW i \in DOMAIN to_game', NEW j \in DOMAIN to_game',
                      IsId(i)', IsId(j)', to_game'[i].role = to_game'[j].role
               PROVE  i = j
    OBVIOUS
  <2>1. \A k \in DOMAIN to_game' :
           \/ k \in DOMAIN to_game /\ to_game'[k] = to_game[k]
           \/ k = Len(to_game') /\ to_game'[k] = m
    BY <1>1 DEF GameExtended
  <2> \A k \in DOMAIN to_game : to_game[k] \in Back
    BY DEF Back
  <2>2. CASE i \in DOMAIN to_game /\ j \in DOMAIN to_game
    BY <2>1, <2>2, <1>1 DEF IdsOnce, IsId, GameExtended
  <2> QED
    BY <2>1, <2>2 DEF IsId
<1> QED
  BY <1>1, <1>2 DEF IdsOnce

LEMMA ListsExtend ==
    ASSUME Typed, ListInv, NEW m \in DataMsg, to_data' = Append(to_data, m),
           m.id \notin {"SAVE_ACCOUNT", "SAVE_PLAYER"},
           UNCHANGED <<role_list, account_db, role_db, unsaved, forgotten>>
    PROVE  ListInv' /\ Made' = Made
<1>1. DataExtended /\ to_data'[Len(to_data')] = m /\ Sent' = Sent \cup {m}
  BY DataExtends
<1>2. Made' = Made
  BY <1>1 DEF Made
<1>3. \A r : Listed(r)' = Listed(r)
  BY DEF Listed
<1>4. \A i \in DOMAIN to_data' : IsPlayer(i)' \/ (\E s \in Sessions : Saves(i, s)')
        => i \in DOMAIN to_data /\ to_data'[i] = to_data[i]
  BY <1>1 DEF DataExtended, IsPlayer, Saves
<1>5. InMemory' /\ TableListed'
  BY <1>2, <1>3 DEF ListInv, InMemory, TableListed
<1>6. ListsFull'
  BY <1>4 DEF ListInv, ListsFull, IsPlayer, Saves
<1>7. ListedFirst'
  <2> SUFFICES ASSUME NEW i \in DOMAIN to_data', NEW r \in Made', IsPlayer(i)', r = to_data'[i].role
               PROVE  Behind(i, r)'
    BY DEF ListedFirst
  <2>1. i \in DOMAIN to_data /\ to_data'[i] = to_data[i] /\ IsPlayer(i)
    BY <1>4 DEF IsPlayer
  <2>2. Behind(i, r)
    BY <1>2, <2>1 DEF ListInv, ListedFirst
  <2> QED
    BY <1>1, <1>3, <2>2 DEF Behind, DataExtended, Saves
<1> QED
  BY <1>2, <1>5, <1>6, <1>7 DEF ListInv

(* The first message is taken; it says what becomes of the tables. *)
LEMMA ListsTake ==
    ASSUME Typed, ListInv, to_data # <<>>, to_data' = Tail(to_data),
           UNCHANGED <<role_list, forgotten>>,
           \A r \in role_db : Listed(r)',
           to_data[1].id = "SAVE_PLAYER" => \A r \in Made : Listed(r) => Listed(r)',
           to_data[1].id = "SAVE_ACCOUNT" =>
              \A r \in Made : r.account = to_data[1].sid /\ r.role \in to_data[1].role_list => Listed(r)',
           role_db' \subseteq role_db
              \cup (IF to_data[1].id = "SAVE_PLAYER" THEN {to_data[1].role} ELSE {})
    PROVE  ListInv' /\ Made' \subseteq Made
<1>1. DataTaken /\ to_data[1] \in DataMsg /\ to_data[1] \in Sent /\ Sent' \subseteq Sent
  BY DataTakes
<1>2. Made' \subseteq Made
  BY <1>1 DEF Made
<1>3. InMemory'
  BY <1>2 DEF ListInv, InMemory
<1>4. TableListed'
  <2> SUFFICES ASSUME NEW r \in role_db' PROVE Listed(r)'
    BY DEF TableListed
  <2>1. CASE r \in role_db
    BY <2>1
  <2>2. CASE to_data[1].id = "SAVE_PLAYER" /\ r = to_data[1].role
    <3>1. IsPlayer(1) /\ 1 - 1 \notin DOMAIN to_data
      BY <1>1, <2>2 DEF IsPlayer, DataTaken
    <3>2. r \in Made
      BY <1>1, <2>2 DEF Made
    <3>3. Listed(r)
      BY <1>1, <2>2, <3>1, <3>2 DEF ListInv, ListedFirst, DataTaken, Behind
    <3> QED
      BY <3>2, <3>3
  <2> QED
    BY <2>1, <2>2
<1>5. ListsFull'
  <2> SUFFICES ASSUME NEW i \in DOMAIN to_data', NEW s \in Sessions, Saves(i, s)'
               PROVE  /\ \A r \in role_db' : r.account = s => r.role \in to_data'[i].role_list \cup forgotten
                      /\ \A j \in DOMAIN to_data' :
                            j < i /\ IsPlayer(j)' /\ to_data'[j].role.account = s
                              => to_data'[j].role.role \in to_data'[i].role_list \cup forgotten
    BY DEF ListsFull
  <2>1. i + 1 \in DOMAIN to_data /\ Saves(i + 1, s) /\ to_data'[i] = to_data[i + 1] /\ i \in Nat \ {0}
    BY <1>1 DEF DataTaken, Saves
  <2>2. \A j \in DOMAIN to_data :
           j < i + 1 /\ IsPlayer(j) /\ to_data[j].role.account = s
             => to_data[j].role.role \in to_data'[i].role_list \cup forgotten
    BY <2>1 DEF ListInv, ListsFull
  <2>3. \A r \in role_db' : r.account = s => r.role \in to_data'[i].role_list \cup forgotten
    <3> SUFFICES ASSUME NEW r \in role_db', r.account = s
                 PROVE  r.role \in to_data'[i].role_list \cup forgotten
      OBVIOUS
    <3>1. CASE r \in role_db
      BY <2>1, <3>1 DEF ListInv, ListsFull
    <3>2. CASE to_data[1].id = "SAVE_PLAYER" /\ r = to_data[1].role
      BY <1>1, <2>1, <2>2, <3>2 DEF DataTaken, IsPlayer
    <3> QED
      BY <3>1, <3>2
  <2>4. \A j \in DOMAIN to_data' : j < i /\ IsPlayer(j)' /\ to_data'[j].role.account = s
             => to_data'[j].role.role \in to_data'[i].role_list \cup forgotten
    BY <1>1, <2>1, <2>2 DEF DataTaken, IsPlayer
  <2> QED
    BY <2>3, <2>4
<1>6. ListedFirst'
  <2> SUFFICES ASSUME NEW i \in DOMAIN to_data', NEW r \in Made', IsPlayer(i)', r = to_data'[i].role
               PROVE  Behind(i, r)'
    BY DEF ListedFirst
  <2>1. /\ i + 1 \in DOMAIN to_data /\ IsPlayer(i + 1) /\ to_data'[i] = to_data[i + 1]
        /\ i \in Nat \ {0} /\ r \in Made
    BY <1>1, <1>2 DEF DataTaken, IsPlayer
  <2>2. Behind(i + 1, r)
    BY <2>1 DEF ListInv, ListedFirst
  <2>3. i \in DOMAIN to_data /\ Saves(i, r.account) /\ r.role \in to_data[i].role_list
    BY <2>1, <2>2 DEF Behind
  <2>4. CASE i = 1
    BY <2>1, <2>3, <2>4 DEF Saves, Behind
  <2>5. CASE i # 1
    <3>1. i - 1 \in DOMAIN to_data' /\ to_data'[i - 1] = to_data[i]
      BY <1>1, <2>3, <2>5 DEF DataTaken
    <3> QED
      BY <2>3, <3>1 DEF Behind, Saves
  <2> QED
    BY <2>4, <2>5
<1> QED
  BY <1>2, <1>3, <1>4, <1>5, <1>6 DEF ListInv

-----------------------------------------------------------------------------
(* The clients and the gate. *)
LEMMA RequestsKeep ==
    ASSUME IInv, NEW s \in Sessions, FetchRoleList(s) \/ \E name \in Name : CreateRole(s, name)
    PROVE  IInv'
<1> USE RoleAssumption
<1>1. PICK m \in DataMsg, info \in [name : Name, account : {s}] \cup {NoInfo} :
        /\ m.id \in {"SELECT_ACCOUNT", "SELECT_NAME"} /\ to_data' = Append(to_data, m)
        /\ \/ create_info' = create_info /\ m.id = "SELECT_ACCOUNT"
           \/ /\ create_info' = [create_info EXCEPT ![s] = info] /\ m.sid = s
              /\ info \in [name : Name, account : {s}]
  <2>1. CASE FetchRoleList(s)
    <3> DEFINE m == [id |-> "SELECT_ACCOUNT", sid |-> s]
    <3>1. m \in DataMsg
      BY DEF DataMsg
    <3> QED
      BY <2>1, <3>1 DEF FetchRoleList, login_vars
  <2>2. CASE \E name \in Name : CreateRole(s, name)
    <3> PICK name \in Name : CreateRole(s, name)
      BY <2>2
    <3> DEFINE m == [id |-> "SELECT_NAME", sid |-> s, checked |-> name]
    <3>1. m \in DataMsg
      BY DEF DataMsg
    <3>2. [name |-> name, account |-> s] \in [name : Name, account : {s}]
      OBVIOUS
    <3> QED
      BY <3>1, <3>2 DEF CreateRole
  <2> QED
    BY <2>1, <2>2
<1>2. UNCHANGED <<role_list, to_game, idx, account_db, role_db, unsaved, forgotten>>
  BY DEF FetchRoleList, CreateRole, login_vars, data_vars
<1>3. Typed /\ InfoKept /\ OwnerKept /\ IdsOnce /\ ListInv
  BY DEF IInv
<1>4. to_data' \in Seq(DataMsg) /\ Sent' = Sent \cup {m} /\ Back' = Back
  BY <1>1, <1>2, <1>3, DataExtends DEF Back
<1>5. Made' = Made /\ ListInv'
  BY <1>1, <1>2, <1>3, ListsExtend
<1>6. info \in [name : Name, account : {s}] =>
         info \in [name : Name, account : Sessions] /\ info # NoInfo /\ info.account = s
  BY DEF NoInfo
<1>7. Typed'
  <2>1. create_info' \in [Sessions -> [name : Name, account : Sessions] \cup {NoInfo}]
    BY <1>1, <1>3, <1>6 DEF Typed
  <2> QED
    BY <1>2, <1>3, <1>4, <2>1 DEF Typed
<1>8. InfoKept'
  <2>1. CASE create_info' = create_info /\ m.id = "SELECT_ACCOUNT"
    BY <1>3, <1>4, <2>1 DEF InfoKept
  <2>2. CASE /\ create_info' = [create_info EXCEPT ![s] = info] /\ m.sid = s
             /\ info \in [name : Name, account : {s}]
    <3>1. \A t \in Sessions : create_info'[t] = IF t = s THEN info ELSE create_info[t]
      BY <1>3, <2>2 DEF Typed
    <3>2. \A n \in Sent' \cup Back : n.sid \in Sessions
      BY <1>3, <1>4, <2>2, Messages DEF DataMsg, GameMsg
    <3> QED
      BY <1>3, <1>4, <1>6, <2>2, <3>1, <3>2 DEF InfoKept
  <2> QED
    BY <1>1, <2>1, <2>2
<1>9. OwnerKept'
  <2>1. \A t \in Sessions, n \in RoleId : Owns(t, n)' => Owns(t, n)
    BY <1>1, <1>2, <1>4, <1>5 DEF Owns
  <2> QED
    BY <1>2, <1>3, <2>1, OwnerKeeps
<1>10. IdsOnce'
  BY <1>2, <1>3, <1>4, <1>5, OnceKeeps
<1> QED
  BY <1>5, <1>7, <1>8, <1>9, <1>10 DEF IInv

\* What the invariant is about stays but for the answers already taken.
Forgets ==
    /\ UNCHANGED <<role_list, create_info, to_data, idx, account_db, role_db, unsaved, forgotten>>
    /\ to_game' = to_game \/ (to_game # <<>> /\ to_game' = Tail(to_game))

LEMMA ForgetsKeeps ==
    ASSUME IInv, Forgets
    PROVE  IInv'
<1>1. Typed /\ InfoKept /\ OwnerKept /\ IdsOnce /\ ListInv
  BY DEF IInv
<1>2. to_game' \in Seq(GameMsg) /\ Back' \subseteq Back /\ (to_game' = to_game \/ GameTaken)
  BY <1>1, GameTakes DEF Forgets, Typed, Back, GameTaken
<1>3. Sent' = Sent /\ Made' = Made
  BY DEF Forgets, Sent, Made
<1>4. Typed' /\ InfoKept'
  BY <1>1, <1>2, <1>3 DEF Forgets, Typed, InfoKept
<1>5. OwnerKept'
  <2>1. \A t \in Sessions, n \in RoleId : Owns(t, n)' => Owns(t, n)
    BY <1>2, <1>3 DEF Owns, Forgets
  <2> QED
    BY <1>1, <2>1, OwnerKeeps DEF Forgets
<1>6. IdsOnce'
  BY <1>1, <1>2, <1>3, OnceKeeps
<1>7. ListInv'
  BY <1>1, <1>3 DEF Forgets, ListInv, InMemory, ListsFull, ListedFirst, Behind, TableListed,
     Listed, IsPlayer, Saves
<1> QED
  BY <1>1, <1>4, <1>5, <1>6, <1>7 DEF IInv

-----------------------------------------------------------------------------
(* The data server. *)
LEMMA SelectDataKeeps ==
    ASSUME IInv, SelectData
    PROVE  IInv'
<1>1. Typed /\ InfoKept /\ OwnerKept /\ IdsOnce /\ ListInv
  BY DEF IInv
<1>2. /\ to_data # <<>> /\ to_data' = Tail(to_data) /\ Head(to_data) = to_data[1]
      /\ to_data[1] \in DataMsg /\ to_data[1] \in Sent /\ Sent' \subseteq Sent
      /\ to_data' \in Seq(DataMsg)
  BY <1>1, DataTakes DEF SelectData
<1>3. UNCHANGED <<role_list, create_info, idx, account_db, role_db, unsaved, forgotten>>
  BY DEF SelectData, login_vars, data_vars
<1> DEFINE msg == to_data[1]
<1>4. PICK a \in GameMsg :
        /\ to_game' = Append(to_game, a) /\ a.id # "GENERATED_ID" /\ a.sid = msg.sid
        /\ a.id = "ROLE_LIST" => a.role_list = account_db[msg.sid]
        /\ a.id = "NAME_FREE" => msg.id = "SELECT_NAME"
  <2>1. msg.id \in {"SELECT_ACCOUNT", "SELECT_NAME"}
    BY <1>2 DEF SelectData
  <2>2. msg.sid \in Sessions /\ (msg.id = "SELECT_NAME" => msg.checked \in Name)
    BY <1>2, <2>1 DEF DataMsg
  <2>3. account_db[msg.sid] \in SUBSET RoleId
    BY <1>1, <2>2 DEF Typed
  <2>4. CASE Answer([id |-> "OPT_FAIL", sid |-> msg.sid])
    <3>1. [id |-> "OPT_FAIL", sid |-> msg.sid] \in GameMsg
      BY <2>2 DEF GameMsg
    <3> QED
      BY <2>4, <3>1 DEF Answer
  <2>5. CASE Answer([id |-> "ROLE_LIST", sid |-> msg.sid, role_list |-> account_db[msg.sid]])
    <3>1. [id |-> "ROLE_LIST", sid |-> msg.sid, role_list |-> account_db[msg.sid]] \in GameMsg
      BY <2>2, <2>3 DEF GameMsg
    <3> QED
      BY <2>5, <3>1 DEF Answer
  <2>6. CASE \E x \in {"NAME_TAKEN", "NAME_FREE"} :
               /\ Answer([id |-> x, sid |-> msg.sid, checked |-> msg.checked])
               /\ msg.id = "SELECT_NAME"
    <3>1. PICK x \in {"NAME_TAKEN", "NAME_FREE"} :
               Answer([id |-> x, sid |-> msg.sid, checked |-> msg.checked])
      BY <2>6
    <3>2. [id |-> x, sid |-> msg.sid, checked |-> msg.checked] \in GameMsg
      BY <2>2, <2>6 DEF GameMsg
    <3> QED
      BY <2>6, <3>1, <3>2 DEF Answer
  <2> QED
    BY <1>2, <2>4, <2>5, <2>6 DEF SelectData
<1>5. /\ to_game' \in Seq(GameMsg) /\ Back' = Back \cup {a} /\ msg.sid \in Sessions
  BY <1>1, <1>4, GameExtends DEF GameMsg
<1>6. msg.id \in {"SELECT_ACCOUNT", "SELECT_NAME"}
  BY <1>2 DEF SelectData
<1>7. ListInv' /\ Made' \subseteq Made
  <2>1. \A r \in role_db : Listed(r)'
    BY <1>1, <1>3 DEF Listed, ListInv, TableListed
  <2> QED
    BY <1>1, <1>2, <1>3, <1>6, <2>1, ListsTake
<1>8. Typed'
  BY <1>1, <1>2, <1>3, <1>5 DEF Typed
<1>9. InfoKept'
  BY <1>1, <1>2, <1>3, <1>4, <1>5 DEF InfoKept
<1>10. OwnerKept'
  <2>1. \A t \in Sessions, n \in RoleId : Owns(t, n)' => Owns(t, n)
    BY <1>2, <1>3, <1>4, <1>5, <1>7 DEF Owns
  <2> QED
    BY <1>1, <1>3, <2>1, OwnerKeeps
<1>11. IdsOnce'
  BY <1>1, <1>4, <1>7, OnceAnswered
<1> QED
  BY <1>7, <1>8, <1>9, <1>10, <1>11 DEF IInv

LEMMA GenerateIdKeeps ==
    ASSUME IInv, GenerateId
    PROVE  IInv'
<1>1. Typed /\ InfoKept /\ OwnerKept /\ IdsOnce /\ ListInv
  BY DEF IInv
<1>2. /\ to_data # <<>> /\ to_data' = Tail(to_data) /\ Head(to_data) = to_data[1]
      /\ to_data[1] \in DataMsg /\ to_data[1] \in Sent /\ Sent' \subseteq Sent
      /\ to_data' \in Seq(DataMsg) /\ to_data[1].id = "GENERATE_ID"
  BY <1>1, DataTakes DEF GenerateId
<1>3. UNCHANGED <<role_list, create_info, account_db, role_db, unsaved, forgotten>>
  BY DEF GenerateId, login_vars
<1> DEFINE s == to_data[1].sid
           a == [id |-> "GENERATED_ID", sid |-> s, role |-> idx + 1, checked |-> to_data[1].checked]
<1>4. idx' = idx + 1 /\ idx \in Nat /\ to_game' = Append(to_game, a)
  BY <1>1, <1>2 DEF GenerateId, Answer, Typed
<1>5. s \in Sessions /\ to_data[1].checked \in Name /\ a \in GameMsg
  <2>1. s \in Sessions /\ to_data[1].checked \in Name
    BY <1>2 DEF DataMsg
  <2> QED
    BY <1>4, <2>1 DEF GameMsg, RoleId
<1>6. a.id = "GENERATED_ID" /\ a.sid = s /\ a.role = idx + 1
  OBVIOUS
<1> HIDE DEF a, s
<1>7. to_game' \in Seq(GameMsg) /\ Back' = Back \cup {a}
  BY <1>1, <1>4, <1>5, GameExtends
<1>8. ListInv' /\ Made' \subseteq Made
  <2>1. \A r \in role_db : Listed(r)'
    BY <1>1, <1>3 DEF Listed, ListInv, TableListed
  <2> QED
    BY <1>1, <1>2, <1>3, <2>1, ListsTake
<1>9. Typed'
  BY <1>1, <1>2, <1>3, <1>4, <1>7 DEF Typed
<1>10. InfoKept'
  BY <1>1, <1>2, <1>3, <1>6, <1>7 DEF InfoKept, s
<1>11. \A t \in Sessions, n \in RoleId : Owns(t, n)' => Owns(t, n) \/ (t = s /\ n = idx + 1)
  BY <1>2, <1>3, <1>6, <1>7, <1>8 DEF Owns
<1>12. OwnerKept'
  <2>1. \A t \in Sessions, n \in RoleId : Owns(t, n)' => n <= idx'
    BY <1>1, <1>4, <1>11 DEF OwnerKept, RoleId
  <2>2. \A t, u \in Sessions, n \in RoleId : Owns(t, n)' /\ Owns(u, n)' => t = u
    <3>1. \A t \in Sessions : ~Owns(t, idx + 1)
      BY <1>1, <1>4 DEF OwnerKept, RoleId
    <3> QED
      BY <1>1, <1>11, <3>1 DEF OwnerKept
  <2> QED
    BY <2>1, <2>2 DEF OwnerKept
<1>13. IdsOnce'
  <2>1. \A r \in Made : r.role # a.role
    <3> SUFFICES ASSUME NEW r \in Made, r.role = idx + 1 PROVE FALSE
      BY <1>6
    <3>1. r \in Role /\ r.account \in Sessions /\ r.role \in RoleId
      BY <1>1, Messages DEF Role
    <3>2. Owns(r.account, r.role)
      BY DEF Owns
    <3> QED
      BY <1>1, <1>4, <3>1, <3>2 DEF OwnerKept
  <2>2. \A n \in Back : n.id = "GENERATED_ID" => n.role # a.role
    <3> SUFFICES ASSUME NEW n \in Back, n.id = "GENERATED_ID", n.role = idx + 1 PROVE FALSE
      BY <1>6
    <3>1. n.sid \in Sessions /\ n.role \in RoleId
      BY <1>1, Messages DEF GameMsg
    <3>2. Owns(n.sid, n.role)
      BY DEF Owns
    <3> QED
      BY <1>1, <1>4, <3>1, <3>2 DEF OwnerKept
  <2> QED
    BY <1>1, <1>4, <1>5, <1>8, <2>1, <2>2, OnceAnswered
<1> QED
  BY <1>8, <1>9, <1>10, <1>12, <1>13 DEF IInv

LEMMA SaveDataKeeps ==
    ASSUME IInv, SaveData
    PROVE  IInv'
<1>1. Typed /\ InfoKept /\ OwnerKept /\ IdsOnce /\ ListInv
  BY DEF IInv
<1> DEFINE msg == to_data[1]
<1>2. /\ to_data # <<>> /\ to_data' = Tail(to_data) /\ Head(to_data) = msg
      /\ msg \in DataMsg /\ msg \in Sent /\ Sent' \subseteq Sent
      /\ to_data' \in Seq(DataMsg)
  BY <1>1, DataTakes DEF SaveData
<1>3. UNCHANGED <<role_list, create_info, idx, forgotten>>
  BY DEF SaveData, login_vars
<1> DEFINE a == [id |-> "SAVE_FAIL", sid |-> msg.sid]
<1>4. msg.sid \in Sessions /\ a \in GameMsg
  BY <1>2 DEF DataMsg, GameMsg
<1>5. /\ msg.id \in {"SAVE_ACCOUNT", "SAVE_PLAYER"}
      /\ to_game' = to_game \/ to_game' = Append(to_game, a)
      /\ role_db' = role_db \/ (msg.id = "SAVE_PLAYER" /\ role_db' = role_db \cup {msg.role})
      /\ \/ account_db' = account_db /\ unsaved \subseteq unsaved'
            /\ (msg.id = "SAVE_ACCOUNT" => msg.sid \in unsaved')
         \/ /\ msg.id = "SAVE_ACCOUNT"
            /\ account_db' = [account_db EXCEPT ![msg.sid] = msg.role_list]
            /\ unsaved' = unsaved \ {msg.sid}
            /\ role_db' = role_db
  BY <1>2 DEF SaveData, Answer
<1>6. /\ msg.id = "SAVE_ACCOUNT" => msg.role_list \in SUBSET RoleId
      /\ msg.id = "SAVE_PLAYER" => msg.role \in Role /\ msg.role \in Made
  BY <1>2 DEF DataMsg, Made
<1> a.id = "SAVE_FAIL"
  OBVIOUS
<1> HIDE DEF a
<1>7. to_game' \in Seq(GameMsg) /\ Back' \subseteq Back \cup {a}
  BY <1>1, <1>4, <1>5, GameExtends DEF Back, Typed
<1>8. \A s \in Sessions :
         \/ account_db'[s] \subseteq account_db[s]
         \/ msg.id = "SAVE_ACCOUNT" /\ msg.sid = s /\ account_db'[s] = msg.role_list
  <2>1. CASE account_db' = account_db
    BY <2>1
  <2>2. CASE msg.id = "SAVE_ACCOUNT" /\ account_db' = [account_db EXCEPT ![msg.sid] = msg.role_list]
    <3>1. \A s \in Sessions :
             account_db'[s] = IF s = msg.sid THEN msg.role_list ELSE account_db[s]
      BY <1>1, <2>2 DEF Typed
    <3> QED
      BY <2>2, <3>1
  <2> QED
    BY <1>5, <2>1, <2>2
<1>9. ListInv' /\ Made' \subseteq Made
  <2>1. \A r \in Made : r \in Role
    BY <1>1, Messages
  <2>2. msg.id = "SAVE_ACCOUNT" =>
           \A r \in Made : r.account = msg.sid /\ r.role \in msg.role_list => Listed(r)'
    <3> SUFFICES ASSUME msg.id = "SAVE_ACCOUNT", NEW r \in Made, r.account = msg.sid,
                        r.role \in msg.role_list
                 PROVE  Listed(r)'
      OBVIOUS
    <3>1. r.account \in unsaved' \/ r.role \in account_db'[r.account]
      BY <1>1, <1>4, <1>5 DEF Typed
    <3> QED
      BY <3>1 DEF Listed
  <2>3. CASE account_db' = account_db /\ unsaved \subseteq unsaved'
    <3>1. /\ \A r \in Made : Listed(r) => Listed(r)'
          /\ \A r \in role_db : Listed(r)'
      BY <1>1, <1>3, <2>3 DEF Listed, ListInv, TableListed
    <3>2. role_db' \subseteq role_db \cup (IF msg.id = "SAVE_PLAYER" THEN {msg.role} ELSE {})
      BY <1>5
    <3> HIDE DEF msg
    <3> QED
      BY <1>1, <1>2, <1>3, <2>2, <3>1, <3>2, ListsTake DEF msg
  <2>4. CASE /\ msg.id = "SAVE_ACCOUNT"
             /\ account_db' = [account_db EXCEPT ![msg.sid] = msg.role_list]
             /\ unsaved' = unsaved \ {msg.sid}
             /\ role_db' = role_db
    \* The list just written has every role of the table: what was saved before is in it.
    <3>1. \A r \in role_db : Listed(r)'
      <4> SUFFICES ASSUME NEW r \in role_db PROVE Listed(r)'
        OBVIOUS
      <4>1. r \in Role /\ r.account \in Sessions /\ Listed(r)
        BY <1>1 DEF Typed, Role, ListInv, TableListed
      <4>2. CASE r.account = msg.sid
        <5>1. 1 \in DOMAIN to_data /\ Saves(1, msg.sid)
          BY <1>1, <1>2, <2>4, DataTakes DEF Saves, DataTaken
        <5>2. r.role \in msg.role_list \cup forgotten
          BY <1>1, <1>4, <4>2, <5>1 DEF ListInv, ListsFull
        <5> QED
          BY <1>1, <1>3, <1>4, <2>4, <4>2, <5>2 DEF Listed, Typed
      <4>3. CASE r.account # msg.sid
        BY <1>1, <1>3, <2>4, <4>1, <4>3 DEF Listed, Typed
      <4> QED
        BY <4>2, <4>3
    <3> QED
      BY <1>1, <1>2, <1>3, <2>2, <2>4, <3>1, ListsTake
  <2> QED
    BY <1>5, <2>3, <2>4
<1>10. Typed'
  <2>1. account_db' \in [Sessions -> SUBSET RoleId] /\ role_db' \in SUBSET Role
    BY <1>1, <1>4, <1>5, <1>6 DEF Typed
  <2> QED
    BY <1>1, <1>2, <1>3, <1>7, <2>1 DEF Typed
<1>11. InfoKept'
  BY <1>1, <1>2, <1>3, <1>7 DEF InfoKept
<1>12. OwnerKept'
  <2>1. \A t \in Sessions, n \in RoleId : Owns(t, n)' => Owns(t, n)
    BY <1>2, <1>3, <1>7, <1>8, <1>9 DEF Owns
  <2> QED
    BY <1>1, <1>3, <2>1, OwnerKeeps
<1>13. IdsOnce'
  <2>1. CASE to_game' = to_game
    BY <1>1, <1>9, <2>1, OnceKeeps DEF Back
  <2>2. CASE to_game' = Append(to_game, a)
    BY <1>1, <1>4, <1>9, <2>2, OnceAnswered
  <2> QED
    BY <1>5, <2>1, <2>2
<1> QED
  BY <1>9, <1>10, <1>11, <1>12, <1>13 DEF IInv

-----------------------------------------------------------------------------
(* The game server. *)
LEMMA RoleListKeeps ==
    ASSUME IInv, RoleList
    PROVE  IInv'
<1>1. Typed /\ InfoKept /\ OwnerKept /\ IdsOnce /\ ListInv
  BY DEF IInv
<1> DEFINE msg == to_game[1]
<1>2. /\ to_game # <<>> /\ to_game' = Tail(to_game) /\ Head(to_game) = msg
      /\ GameTaken /\ msg \in GameMsg /\ msg \in Back /\ Back' \subseteq Back
      /\ msg.id = "ROLE_LIST"
  BY <1>1, GameTakes DEF RoleList, Answered, Handled
<1>3. UNCHANGED <<create_info, to_data, idx, account_db, role_db, unsaved>>
  BY DEF RoleList, data_vars
<1>4. CASE UNCHANGED <<role_list, forgotten>>
  BY <1>2, <1>3, <1>4, ForgetsKeeps DEF Forgets
<1>5. CASE /\ role_list' = [role_list EXCEPT ![msg.sid] = msg.role_list]
           /\ forgotten' = forgotten \cup (role_list[msg.sid] \ msg.role_list)
  <2>1. msg.sid \in Sessions /\ msg.role_list \in SUBSET RoleId
    BY <1>2 DEF GameMsg
  <2>2. \A s \in Sessions : role_list'[s] = IF s = msg.sid THEN msg.role_list ELSE role_list[s]
    BY <1>1, <1>5 DEF Typed
  <2> HIDE DEF msg
  <2>3. Sent' = Sent /\ Made' = Made
    BY <1>3 DEF Sent, Made
  <2>4. Typed'
    <3>1. role_list' \in [Sessions -> SUBSET RoleId]
      BY <1>1, <1>5, <2>1 DEF Typed
    <3> QED
      BY <1>1, <1>2, <1>3, <3>1 DEF Typed, GameTaken
  <2>5. InfoKept'
    BY <1>1, <1>2, <1>3, <2>3 DEF InfoKept
  <2>6. OwnerKept'
    <3>1. \A t \in Sessions, n \in RoleId : Owns(t, n)' => Owns(t, n)
      BY <1>2, <1>3, <2>2, <2>3 DEF Owns
    <3> QED
      BY <1>1, <1>3, <3>1, OwnerKeeps
  <2>7. IdsOnce'
    BY <1>1, <1>2, <2>3, OnceKeeps
  <2>8. ListInv'
    <3>1. \A r \in Made : Listed(r) => Listed(r)'
      BY <1>3, <1>5 DEF Listed
    <3>2. InMemory'
      <4> SUFFICES ASSUME NEW r \in Made PROVE r.role \in role_list'[r.account] \cup forgotten'
        BY <2>3 DEF InMemory
      <4>1. r.account \in Sessions /\ r.role \in role_list[r.account] \cup forgotten
        BY <1>1, Messages DEF Role, ListInv, InMemory
      <4> QED
        BY <1>5, <2>2, <4>1
    <3>3. ListsFull'
      BY <1>1, <1>3, <1>5 DEF ListInv, ListsFull, IsPlayer, Saves
    <3>4. ListedFirst' /\ TableListed'
      BY <1>1, <1>3, <2>3, <3>1 DEF ListInv, ListedFirst, TableListed, Behind, IsPlayer, Saves, Made
    <3> QED
      BY <3>2, <3>3, <3>4 DEF ListInv
  <2> QED
    BY <2>4, <2>5, <2>6, <2>7, <2>8 DEF IInv
<1> QED
  BY <1>2, <1>4, <1>5 DEF RoleList, Who

LEMMA NameFreeKeeps ==
    ASSUME IInv, NameFree
    PROVE  IInv'
<1>1. Typed /\ InfoKept /\ OwnerKept /\ IdsOnce /\ ListInv
  BY DEF IInv
<1> DEFINE msg == to_game[1]
           m == [id |-> "GENERATE_ID", sid |-> msg.sid, checked |-> msg.checked]
<1>2. /\ to_game # <<>> /\ to_game' = Tail(to_game) /\ Head(to_game) = msg
      /\ GameTaken /\ msg \in GameMsg /\ msg \in Back /\ Back' \subseteq Back
      /\ msg.id = "NAME_FREE"
  BY <1>1, GameTakes DEF NameFree, Answered, Handled
<1>3. /\ UNCHANGED <<role_list, create_info, idx, account_db, role_db, unsaved, forgotten>>
      /\ to_data' = Append(to_data, m)
  BY <1>2 DEF NameFree, login_vars, data_vars, Who
<1>4. m \in DataMsg
  <2>1. msg.sid \in Sessions /\ msg.checked \in Name
    BY <1>2 DEF GameMsg
  <2> QED
    BY <2>1 DEF DataMsg
<1>5. m.id = "GENERATE_ID" /\ m.sid = msg.sid
  OBVIOUS
<1> HIDE DEF msg, m
<1>6. to_data' \in Seq(DataMsg) /\ Sent' = Sent \cup {m}
  BY <1>1, <1>3, <1>4, DataExtends
<1>7. ListInv' /\ Made' = Made
  BY <1>1, <1>3, <1>4, <1>5, ListsExtend
<1>8. Typed'
  BY <1>1, <1>2, <1>3, <1>6 DEF Typed, GameTaken
<1>9. InfoKept'
  BY <1>1, <1>2, <1>3, <1>5, <1>6 DEF InfoKept
<1>10. OwnerKept'
  <2>1. \A t \in Sessions, n \in RoleId : Owns(t, n)' => Owns(t, n)
    BY <1>2, <1>3, <1>5, <1>6, <1>7 DEF Owns
  <2> QED
    BY <1>1, <1>3, <2>1, OwnerKeeps
<1>11. IdsOnce'
  BY <1>1, <1>2, <1>7, OnceKeeps
<1> QED
  BY <1>7, <1>8, <1>9, <1>10, <1>11 DEF IInv

LEMMA DbCreateRoleKeeps ==
    ASSUME IInv, DbCreateRole
    PROVE  IInv'
<1>1. Typed /\ InfoKept /\ OwnerKept /\ IdsOnce /\ ListInv
  BY DEF IInv
<1> DEFINE msg == to_game[1]
           s == msg.sid
           r == NewRole
           m == [id |-> "SAVE_ACCOUNT", sid |-> s, role_list |-> role_list'[s]]
           p == [id |-> "SAVE_PLAYER", sid |-> s, role |-> r]
<1>2. /\ to_game # <<>> /\ to_game' = Tail(to_game) /\ Head(to_game) = msg
      /\ GameTaken /\ msg \in GameMsg /\ msg \in Back /\ Back' \subseteq Back
      /\ msg.id = "GENERATED_ID"
  BY <1>1, GameTakes DEF DbCreateRole, Answered, Handled
<1>3. UNCHANGED <<create_info, idx, account_db, role_db, unsaved, forgotten>>
  BY DEF DbCreateRole, data_vars
<1>4. CASE UNCHANGED <<role_list, to_data>>
  BY <1>2, <1>3, <1>4, ForgetsKeeps DEF Forgets
<1>5. CASE /\ role_list' = [role_list EXCEPT ![s] = @ \cup {msg.role}]
           /\ to_data' = to_data \o <<m, p>>
  <2>1. s \in Sessions /\ msg.role \in RoleId /\ msg.checked \in Name
    BY <1>2 DEF GameMsg
  <2>2. create_info[s] \in [name : Name, account : Sessions] /\ create_info[s].account = s
    BY <1>1, <1>2, <2>1 DEF Typed, InfoKept
  <2>3. r \in Role /\ r.role = msg.role /\ r.account = s
    BY <1>2, <2>1, <2>2 DEF NewRole, Who, Role
  <2>4. role_list' \in [Sessions -> SUBSET RoleId]
        /\ \A t \in Sessions :
              role_list'[t] = IF t = s THEN role_list[s] \cup {msg.role} ELSE role_list[t]
    BY <1>1, <1>5, <2>1 DEF Typed
  <2>5. m \in DataMsg /\ p \in DataMsg
    BY <2>1, <2>3, <2>4 DEF DataMsg
  <2>6. /\ m.id = "SAVE_ACCOUNT" /\ m.sid = s /\ m.role_list = role_list[s] \cup {msg.role}
        /\ p.id = "SAVE_PLAYER" /\ p.role = r
    BY <2>1, <2>4
  <2> HIDE DEF r, m, p, s, msg
  <2> DEFINE n == Len(to_data)
  <2>7. /\ n \in Nat /\ DOMAIN to_data = 1 .. n /\ DOMAIN to_data' = 1 .. n + 2
        /\ to_data' \in Seq(DataMsg)
        /\ \A i \in 1 .. n : to_data'[i] = to_data[i]
        /\ to_data'[n + 1] = m /\ to_data'[n + 2] = p
    BY <1>1, <1>5, <2>5 DEF Typed
  <2> HIDE DEF n
  <2>8. Sent' = Sent \cup {m, p}
    <3>1. DOMAIN to_data' = DOMAIN to_data \cup {n + 1, n + 2}
      BY <2>7
    <3> QED
      BY <2>7, <3>1 DEF Sent
  <2>9. Made' = Made \cup {r}
    BY <1>3, <2>6, <2>8 DEF Made
  <2>10. Typed'
    BY <1>1, <1>2, <1>3, <2>4, <2>7 DEF Typed, GameTaken
  <2>11. InfoKept'
    BY <1>1, <1>2, <1>3, <2>6, <2>8 DEF InfoKept
  <2>12. OwnerKept'
    <3>1. Owns(s, msg.role)
      BY <1>2, <2>1 DEF Owns, s
    <3>2. \A t \in Sessions, k \in RoleId : Owns(t, k)' => Owns(t, k)
      <4> SUFFICES ASSUME NEW t \in Sessions, NEW k \in RoleId, Owns(t, k)' PROVE Owns(t, k)
        OBVIOUS
      <4>1. CASE k \in role_list'[t] \cup account_db'[t]
        BY <1>3, <2>4, <3>1, <4>1 DEF Owns
      <4>2. CASE \E q \in Sent' : q.id = "SAVE_ACCOUNT" /\ q.sid = t /\ k \in q.role_list
        BY <2>6, <2>8, <3>1, <4>2 DEF Owns
      <4>3. CASE \E q \in Made' : q.account = t /\ k = q.role
        BY <2>3, <2>9, <3>1, <4>3 DEF Owns
      <4> QED
        BY <1>2, <4>1, <4>2, <4>3 DEF Owns
    <3> QED
      BY <1>1, <1>3, <3>2, OwnerKeeps
  <2>13. IdsOnce'
    <3>1. \A q \in Made : q.role # r.role
      BY <1>1, <1>2, <2>3 DEF IdsOnce
    <3>2. \A q, u \in Made' : q.role = u.role => q = u
      BY <1>1, <2>9, <3>1 DEF IdsOnce
    <3>3. \A i, j \in DOMAIN to_game' :
             IsId(i)' /\ IsId(j)' /\ to_game'[i].role = to_game'[j].role => i = j
      <4> SUFFICES ASSUME NEW i \in DOMAIN to_game', NEW j \in DOMAIN to_game',
                          IsId(i)', IsId(j)', to_game'[i].role = to_game'[j].role
                   PROVE  i = j
        OBVIOUS
      <4>1. i + 1 = j + 1
        BY <1>1, <1>2 DEF GameTaken, IdsOnce, IsId
      <4> QED
        BY <4>1, <1>2 DEF GameTaken
    <3>4. \A q \in Back' : q.id = "GENERATED_ID" => q.role # r.role
      <4> SUFFICES ASSUME NEW i \in DOMAIN to_game', IsId(i)', to_game'[i].role = r.role
                   PROVE  FALSE
        BY DEF Back, IsId
      <4>1. i + 1 \in DOMAIN to_game /\ IsId(i + 1) /\ to_game[i + 1].role = r.role /\ i \in Nat \ {0}
        BY <1>2 DEF GameTaken, IsId
      <4>2. 1 \in DOMAIN to_game /\ IsId(1) /\ to_game[1].role = r.role
        BY <1>2, <2>3 DEF GameTaken, IsId, msg
      <4>3. i + 1 = 1
        BY <1>1, <4>1, <4>2 DEF IdsOnce
      <4> QED
        BY <4>1, <4>3
    <3> QED
      BY <1>1, <1>2, <2>9, <3>2, <3>3, <3>4 DEF IdsOnce
  <2>14. InMemory'
    <3> SUFFICES ASSUME NEW q \in Made' PROVE q.role \in role_list'[q.account] \cup forgotten'
      BY DEF InMemory
    <3>1. CASE q \in Made
      <4>1. q.account \in Sessions /\ q.role \in role_list[q.account] \cup forgotten
        BY <1>1, <3>1, Messages DEF Role, ListInv, InMemory
      <4> QED
        BY <1>3, <2>4, <4>1
    <3>2. CASE q = r
      BY <2>1, <2>3, <2>4, <3>2
    <3> QED
      BY <2>9, <3>1, <3>2
  <2>15. ListsFull'
    <3> SUFFICES ASSUME NEW i \in DOMAIN to_data', NEW t \in Sessions, Saves(i, t)'
                 PROVE  /\ \A q \in role_db' : q.account = t => q.role \in to_data'[i].role_list \cup forgotten'
                        /\ \A j \in DOMAIN to_data' :
                              j < i /\ IsPlayer(j)' /\ to_data'[j].role.account = t
                                => to_data'[j].role.role \in to_data'[i].role_list \cup forgotten'
      BY DEF ListsFull
    <3>1. CASE i \in 1 .. n
      <4>1. i \in DOMAIN to_data /\ Saves(i, t) /\ to_data'[i] = to_data[i]
        BY <2>7, <3>1 DEF Saves
      <4>2. \A j \in DOMAIN to_data' : j < i /\ IsPlayer(j)' =>
               j \in DOMAIN to_data /\ IsPlayer(j) /\ to_data'[j] = to_data[j]
        BY <2>7, <3>1 DEF IsPlayer
      <4> QED
        BY <1>1, <1>3, <4>1, <4>2 DEF ListInv, ListsFull
    <3>2. CASE i = n + 1
      <4>1. t = s /\ to_data'[i].role_list = role_list[s] \cup {msg.role}
        BY <2>6, <2>7, <3>2 DEF Saves
      <4>2. \A j \in DOMAIN to_data' : j < i /\ IsPlayer(j)' => to_data'[j].role \in Made
        BY <2>7, <3>2 DEF IsPlayer, Made, Sent
      <4>3. \A q \in Made : q.account = t => q.role \in role_list[s] \cup forgotten
        BY <1>1, <4>1 DEF ListInv, InMemory
      <4>4. \A q \in role_db' : q \in Made
        BY <1>3 DEF Made
      <4> QED
        BY <1>3, <4>1, <4>2, <4>3, <4>4
    <3>3. CASE i = n + 2
      BY <2>6, <2>7, <3>3 DEF Saves
    <3> QED
      BY <2>7, <3>1, <3>2, <3>3
  <2>16. ListedFirst'
    <3> SUFFICES ASSUME NEW i \in DOMAIN to_data', NEW q \in Made', IsPlayer(i)', q = to_data'[i].role
                 PROVE  Behind(i, q)'
      BY DEF ListedFirst
    <3>1. CASE i \in 1 .. n
      <4>1. i \in DOMAIN to_data /\ IsPlayer(i) /\ q = to_data[i].role
        BY <2>7, <3>1 DEF IsPlayer
      <4>2. q \in Made
        BY <4>1 DEF Made, Sent, IsPlayer
      <4>3. Behind(i, q)
        BY <1>1, <4>1, <4>2 DEF ListInv, ListedFirst
      <4> QED
        BY <1>3, <2>7, <3>1, <4>3 DEF Behind, Saves, Listed
    <3>2. CASE i = n + 1
      BY <2>6, <2>7, <3>2 DEF IsPlayer
    <3>3. CASE i = n + 2
      <4>1. i - 1 = n + 1 /\ i - 1 \in DOMAIN to_data'
        BY <2>7, <3>3
      <4>2. q = r
        BY <2>6, <2>7, <3>3
      <4> QED
        BY <2>3, <2>6, <2>7, <4>1, <4>2 DEF Behind, Saves
    <3> QED
      BY <2>7, <3>1, <3>2, <3>3
  <2>17. TableListed'
    BY <1>1, <1>3 DEF ListInv, TableListed, Listed
  <2> QED
    BY <2>10, <2>11, <2>12, <2>13, <2>14, <2>15, <2>16, <2>17 DEF IInv, ListInv
<1> QED
  <2> HIDE DEF r
  <2> QED
    BY <1>2, <1>4, <1>5 DEF DbCreateRole, SaveBoth, Who, r

-----------------------------------------------------------------------------
LEMMA InitInv == roleInit => IInv
<1> SUFFICES ASSUME roleInit PROVE IInv
  OBVIOUS
<1>1. /\ to_data = <<>> /\ to_game = <<>> /\ role_db = {} /\ idx = 0
      /\ role_list = [s \in Sessions |-> {}] /\ account_db = [s \in Sessions |-> {}]
      /\ create_info = [s \in Sessions |-> NoInfo]
  BY DEF roleInit
<1>2. Sent = {} /\ Back = {} /\ Made = {}
  BY <1>1 DEF Sent, Back, Made
<1>3. Typed
  BY <1>1 DEF Typed
<1>4. InfoKept /\ OwnerKept /\ IdsOnce
  BY <1>1, <1>2 DEF InfoKept, OwnerKept, Owns, IdsOnce
<1>5. ListInv
  BY <1>1, <1>2 DEF ListInv, InMemory, ListsFull, ListedFirst, TableListed
<1> QED
  BY <1>3, <1>4, <1>5 DEF IInv

LEMMA NextInv == IInv /\ [roleNext]_role_vars => IInv'
<1> SUFFICES ASSUME IInv, [roleNext]_role_vars PROVE IInv'
  OBVIOUS
<1>1. CASE \E s \in Sessions : FetchRoleList(s) \/ \E name \in Name : CreateRole(s, name)
  BY <1>1, RequestsKeep
<1>2. CASE \E s \in Sessions : Logout(s)
  <2>1. Forgets
    BY <1>2 DEF Logout, Forgets, data_vars
  <2> QED
    BY <2>1, ForgetsKeeps
<1>3. CASE SelectFailed \/ SaveFailed \/ NameTaken \/ UNCHANGED role_vars
  <2>1. Forgets
    BY <1>3 DEF SelectFailed, SaveFailed, NameTaken, role_vars, login_vars, data_vars, Forgets,
       Answered, Handled
  <2> QED
    BY <2>1, ForgetsKeeps
<1>4. CASE RoleList \/ NameFree \/ DbCreateRole
  BY <1>4, RoleListKeeps, NameFreeKeeps, DbCreateRoleKeeps
<1>5. CASE DataStep
  BY <1>5, SelectDataKeeps, GenerateIdKeeps, SaveDataKeeps DEF DataStep
<1> QED
  BY <1>1, <1>2, <1>3, <1>4, <1>5 DEF roleNext, roleGameStep

LEMMA InvHolds == roleSpec => []IInv
BY InitInv, NextInv, PTL DEF roleSpec

(* A role in its table is in its account's list in the other, or it can be said why not: *)
(* whatever fails and whoever does not wait, no order of fetches, saves and answers      *)
(* loses a role in another way (db_create_role).                                         *)
THEOREM RolesAlwaysListed == roleSpec => []RolesListed
<1>1. IInv => RolesListed
  BY DEF IInv, ListInv, TableListed, InMemory, Listed, RolesListed, Made
<1> QED
  BY <1>1, InvHolds, PTL

(* Roles keep apart: each has an id of its own, and no account ever lists another's. *)
THEOREM RolesAlwaysOwned == roleSpec => []RolesOwned
<1>1. IInv => RolesOwned
  <2> SUFFICES ASSUME IInv PROVE RolesOwned
    OBVIOUS
  <2>1. \A r, q \in role_db : r.role = q.role => r = q
    BY DEF IInv, IdsOnce, Made
  <2>2. \A s \in Sessions : \A n \in account_db[s] : n \in RoleId /\ Owns(s, n)
    BY DEF IInv, Typed, Owns
  <2>3. \A r \in role_db : r.account \in Sessions /\ r.role \in RoleId /\ Owns(r.account, r.role)
    BY DEF IInv, Typed, Role, Owns, Made
  <2> QED
    BY <2>1, <2>2, <2>3 DEF IInv, OwnerKept, RolesOwned
<1> QED
  BY <1>1, InvHolds, PTL

(***************************************************************************)
(* The scene: who is near whom.  The list of a manager holds each of its   *)
(* entities, once.                                                         *)
(***************************************************************************)
ListOf(list, M) ==
    /\ list \in Seq(Sids)
    /\ \A i, j \in DOMAIN list : list[i] = list[j] => i = j
    /\ \A s : s \in M <=> \E i \in DOMAIN list : list[i] = s

In(m) == {s \in Sids : manager[s] = m}

ListsKept ==
    \A m \in Scenes : ListOf(x_list[m], In(m)) /\ ListOf(y_list[m], In(m))

aoiTyped ==
    /\ aoi_map \in [Sids -> SUBSET Sids] /\ shown \in [Sids -> SUBSET Sids]
    /\ manager \in [Sids -> Scenes \cup {NoScene}]
    /\ DOMAIN x_list = Scenes /\ DOMAIN y_list = Scenes
    /\ DOMAIN scene_id = Sids

\* An entity is known by its sid as long as it has a manager, and its script is in a scene.
EntitiesKnown ==
    /\ entity_map = {s \in Sids : manager[s] # NoScene}
    /\ \A s \in Sids : scene_id[s] = NoScene => manager[s] = NoScene

aoiIInv == aoiTyped /\ EntitiesKnown /\ ListsKept /\ NeighboursMutual

-----------------------------------------------------------------------------
(***************************************************************************)
(* Sets of numbers have a least, and if they are bounded a greatest.       *)
(***************************************************************************)
LEMMA NatMin ==
    ASSUME NEW T, T \subseteq Nat, T # {}
    PROVE  \E n \in T : \A m \in T : n <= m
<1> DEFINE F == {0 .. n : n \in T}
           R == StrictSubsetOrdering(Nat)
           S == FiniteSubsetsOf(Nat)
<1>1. IsWellFoundedOn(R, S)
  BY FS_StrictSubsetOrderingWellFounded
<1>2. F \subseteq S /\ F # {}
  <2>1. \A n \in T : 0 .. n \in SUBSET Nat /\ IsFiniteSet(0 .. n)
    BY FS_Interval
  <2> QED
    BY <2>1 DEF FiniteSubsetsOf
<1>3. \A n, m \in T : m < n => <<0 .. m, 0 .. n>> \in R
  BY DEF StrictSubsetOrdering
<1> HIDE DEF R, S
<1>4. PICK x \in F : \A y \in F : ~ (<<y, x>> \in R)
  <2> HIDE DEF F
  <2> QED
    BY <1>1, <1>2, WFMin
<1>5. PICK n \in T : x = 0 .. n
  OBVIOUS
<1>6. \A m \in T : 0 .. m \in F
  OBVIOUS
<1>7. \A m \in T : ~ (m < n)
  <2> HIDE DEF F
  <2> QED
    BY <1>3, <1>4, <1>5, <1>6
<1> QED
  BY <1>7

LEMMA Induction ==
  ASSUME NEW I, 0 \in I, \A n \in Nat : n \in I => n + 1 \in I
  PROVE  Nat \subseteq I
<1> SUFFICES ASSUME Nat \ I # {} PROVE FALSE
  OBVIOUS
<1>1. PICK n \in Nat \ I : \A m \in Nat \ I : n <= m
  BY NatMin
<1>2. n - 1 \in Nat /\ n - 1 \notin Nat \ I
  BY <1>1
<1> QED
  BY <1>2

LEMMA NatMax ==
    ASSUME NEW T, NEW b \in Nat, T \subseteq 0 .. b, T # {}
    PROVE  \E n \in T : \A m \in T : n >= m
<1> DEFINE U == {b - n : n \in T}
<1>1. U \subseteq Nat /\ U # {}
  <2>1. \A n \in T : n \in 0 .. b
    OBVIOUS
  <2>2. \A n \in T : b - n \in Nat
    BY <2>1
  <2> QED
    BY <2>2
<1>2. PICK u \in U : \A v \in U : u <= v
  <2> HIDE DEF U
  <2> QED
    BY <1>1, NatMin
<1>3. PICK n \in T : u = b - n
  BY <1>2
<1>4. \A m \in T : u <= b - m
  BY <1>2
<1> QED
  BY <1>3, <1>4

-----------------------------------------------------------------------------
(***************************************************************************)
(* An entity put into a list and taken out of it.                          *)
(***************************************************************************)
LEMMA Joined ==
    ASSUME NEW S, NEW a \in Seq(S), NEW b \in Seq(S)
    PROVE  /\ a \o b \in Seq(S) /\ Len(a \o b) = Len(a) + Len(b)
           /\ \A i \in 1 .. Len(a) : (a \o b)[i] = a[i]
           /\ \A i \in 1 .. Len(b) : (a \o b)[Len(a) + i] = b[i]
  BY ConcatProperties

LEMMA Cut ==
    ASSUME NEW S, NEW q \in Seq(S), NEW a \in 1 .. Len(q) + 1, NEW b \in a - 1 .. Len(q)
    PROVE  /\ SubSeq(q, a, b) \in Seq(S) /\ Len(SubSeq(q, a, b)) = b - a + 1
           /\ \A i \in 1 .. b - a + 1 : SubSeq(q, a, b)[i] = q[a + i - 1]
  OBVIOUS

LEMMA Inserted ==
    ASSUME NEW M, NEW list, ListOf(list, M), NEW s \in Sids \ M, NEW n \in 1 .. Len(list) + 1
    PROVE  ListOf(InsertAt(list, n, s), M \cup {s})
<1> DEFINE new == InsertAt(list, n, s)
<1>1. list \in Seq(Sids) /\ Len(list) \in Nat /\ DOMAIN list = 1 .. Len(list)
      /\ \A i \in 1 .. Len(list) : list[i] \in M
  BY LenProperties DEF ListOf
<1>2. /\ new \in Seq(Sids) /\ Len(new) = Len(list) + 1
      /\ \A i \in 1 .. Len(list) + 1 :
            new[i] = IF i < n THEN list[i] ELSE IF i = n THEN s ELSE list[i - 1]
  <2> DEFINE ahead == SubSeq(list, 1, n - 1)
             behind == SubSeq(list, n, Len(list))
  <2>1. /\ ahead \in Seq(Sids) /\ Len(ahead) = n - 1
        /\ \A i \in 1 .. n - 1 : ahead[i] = list[i]
        /\ behind \in Seq(Sids) /\ Len(behind) = Len(list) - n + 1
        /\ \A i \in 1 .. Len(list) - n + 1 : behind[i] = list[n + i - 1]
    BY <1>1, Cut
  <2>2. new = ahead \o <<s>> \o behind
    BY DEF InsertAt
  <2> HIDE DEF new, ahead, behind
  <2>3. /\ ahead \o <<s>> \in Seq(Sids) /\ Len(ahead \o <<s>>) = n
        /\ \A i \in 1 .. n - 1 : (ahead \o <<s>>)[i] = list[i]
        /\ (ahead \o <<s>>)[n] = s
    <3>1. <<s>> \in Seq(Sids) /\ Len(<<s>>) = 1 /\ <<s>>[1] = s
      OBVIOUS
    <3> DEFINE one == <<s>>
    <3> HIDE DEF one
    <3>2. one \in Seq(Sids) /\ Len(one) = 1 /\ one[1] = s
      BY <3>1 DEF one
    <3>3. /\ ahead \o one \in Seq(Sids) /\ Len(ahead \o one) = n
          /\ \A i \in 1 .. n - 1 : (ahead \o one)[i] = ahead[i]
          /\ \A i \in 1 .. 1 : (ahead \o one)[n - 1 + i] = one[i]
      <4>1. /\ ahead \o one \in Seq(Sids) /\ Len(ahead \o one) = Len(ahead) + Len(one)
            /\ \A i \in 1 .. Len(ahead) : (ahead \o one)[i] = ahead[i]
            /\ \A i \in 1 .. Len(one) : (ahead \o one)[Len(ahead) + i] = one[i]
        <5>1. ahead \in Seq(Sids) /\ one \in Seq(Sids)
          BY <2>1, <3>2
        <5> QED
          BY ONLY <5>1, Joined
      <4>2. n - 1 + 1 = n
        BY <1>1
      <4> QED
        BY <2>1, <3>2, <4>1, <4>2
    <3>4. (ahead \o one)[n] = s
      BY <3>2, <3>3
    <3> QED
      BY <2>1, <3>3, <3>4 DEF one
  <2> DEFINE front == ahead \o <<s>>
  <2> HIDE DEF front
  <2>4. /\ front \in Seq(Sids) /\ Len(front) = n
        /\ \A i \in 1 .. n - 1 : front[i] = list[i]
        /\ front[n] = s /\ new = front \o behind
    BY <2>2, <2>3 DEF front
  <2>5. /\ new \in Seq(Sids) /\ Len(new) = Len(list) + 1
        /\ \A i \in 1 .. n : new[i] = front[i]
        /\ \A j \in 1 .. Len(list) - n + 1 : new[n + j] = behind[j]
    BY <1>1, <2>1, <2>4, Joined
  <2>6. ASSUME NEW i \in n + 1 .. Len(list) + 1
        PROVE  new[i] = list[i - 1]
    <3>1. PICK j \in 1 .. Len(list) - n + 1 : i = n + j
      <4>1. i - n \in 1 .. Len(list) - n + 1 /\ i = n + (i - n)
        BY <1>1
      <4> QED
        BY <4>1
    <3>2. i - 1 = n + j - 1
      BY <3>1
    <3> QED
      BY <2>1, <2>5, <3>1, <3>2
  <2>7. ASSUME NEW i \in 1 .. Len(list) + 1
        PROVE  new[i] = IF i < n THEN list[i] ELSE IF i = n THEN s ELSE list[i - 1]
    <3>1. CASE i < n
      <4>1. i \in 1 .. n /\ i \in 1 .. n - 1
        BY <1>1, <3>1
      <4> QED
        BY <2>4, <2>5, <3>1, <4>1
    <3>2. CASE i = n
      <4>1. n \in 1 .. n
        OBVIOUS
      <4> QED
        BY <2>4, <2>5, <3>2, <4>1
    <3>3. CASE i > n
      <4>1. i \in n + 1 .. Len(list) + 1
        BY <1>1, <3>3
      <4> QED
        BY <2>6, <3>3, <4>1
    <3> QED
      BY <1>1, <3>1, <3>2, <3>3
  <2> QED
    BY <2>5, <2>7
<1> HIDE DEF new
<1>3. DOMAIN new = 1 .. Len(list) + 1
  BY <1>2
<1>4. \A i \in 1 .. Len(list) : \E j \in 1 .. Len(list) + 1 : new[j] = list[i]
  <2> TAKE i \in 1 .. Len(list)
  <2>1. CASE i < n
    BY <2>1, <1>1, <1>2
  <2>2. CASE ~(i < n)
    <3>1. i + 1 \in 1 .. Len(list) + 1 /\ new[i + 1] = list[i]
      BY <2>2, <1>1, <1>2
    <3> QED
      BY <3>1
  <2> QED
    BY <2>1, <2>2
<1>5. new[n] = s
  BY <1>1, <1>2
<1>6. \A t : t \in M \cup {s} <=> \E j \in DOMAIN new : new[j] = t
  <2>1. ASSUME NEW t \in M \cup {s}
        PROVE  \E j \in DOMAIN new : new[j] = t
    BY <1>1, <1>3, <1>4, <1>5 DEF ListOf
  <2>2. ASSUME NEW j \in DOMAIN new
        PROVE  new[j] \in M \cup {s}
    BY <1>1, <1>2, <1>3
  <2> QED
    BY <2>1, <2>2
<1>7. \A i, j \in DOMAIN new : new[i] = new[j] => i = j
  <2> SUFFICES ASSUME NEW i \in 1 .. Len(list) + 1, NEW j \in 1 .. Len(list) + 1,
                      new[i] = new[j]
               PROVE  i = j
    BY <1>3
  <2>1. \A k, l \in 1 .. Len(list) : list[k] = list[l] => k = l
    BY <1>1 DEF ListOf
  <2>2. \A k \in 1 .. Len(list) + 1 :
           k # n => /\ (IF k < n THEN k ELSE k - 1) \in 1 .. Len(list)
                    /\ new[k] = list[IF k < n THEN k ELSE k - 1]
    BY <1>1, <1>2
  <2>3. i = n \/ j = n => i = j
    BY <2>2, <1>1, <1>5
  <2> QED
    BY <2>1, <2>2, <2>3, <1>1
<1> QED
  BY <1>2, <1>6, <1>7 DEF ListOf, new

LEMMA AtItsPlace ==
    ASSUME NEW M, NEW list, ListOf(list, M), NEW s \in M
    PROVE  Place(list, s) \in 1 .. Len(list) /\ list[Place(list, s)] = s
<1>1. \E i \in DOMAIN list : list[i] = s
  BY DEF ListOf
<1>2. DOMAIN list = 1 .. Len(list)
  BY DEF ListOf
<1> QED
  BY <1>1, <1>2 DEF Place

LEMMA Removed ==
    ASSUME NEW M, NEW list, ListOf(list, M), NEW s \in M
    PROVE  /\ ListOf(Without(list, s), M \ {s})
           /\ Len(Without(list, s)) = Len(list) - 1
<1> DEFINE new == Without(list, s)
           n == Place(list, s)
<1>1. list \in Seq(Sids) /\ Len(list) \in Nat /\ DOMAIN list = 1 .. Len(list)
      /\ n \in 1 .. Len(list) /\ list[n] = s
  BY LenProperties, AtItsPlace DEF ListOf
<1>2. \A k, l \in 1 .. Len(list) : list[k] = list[l] => k = l
  BY <1>1 DEF ListOf
<1> HIDE DEF n
<1>3. new = SubSeq(list, 1, n - 1) \o SubSeq(list, n + 1, Len(list))
  BY DEF Without, RemoveAt, n
<1>4. /\ new \in Seq(Sids) /\ Len(new) = Len(list) - 1
      /\ \A i \in 1 .. Len(list) - 1 :
            new[i] = IF i < n THEN list[i] ELSE list[i + 1]
  <2> DEFINE ahead == SubSeq(list, 1, n - 1)
             behind == SubSeq(list, n + 1, Len(list))
  <2>1. /\ ahead \in Seq(Sids) /\ Len(ahead) = n - 1
        /\ \A i \in 1 .. n - 1 : ahead[i] = list[i]
        /\ behind \in Seq(Sids) /\ Len(behind) = Len(list) - n
        /\ \A i \in 1 .. Len(list) - n : behind[i] = list[n + 1 + i - 1]
    <3>1. /\ ahead \in Seq(Sids) /\ Len(ahead) = n - 1
          /\ \A i \in 1 .. n - 1 : ahead[i] = list[i]
      BY <1>1
    <3>2. /\ behind \in Seq(Sids) /\ Len(behind) = Len(list) - (n + 1) + 1
          /\ \A i \in 1 .. Len(list) - (n + 1) + 1 : behind[i] = list[n + 1 + i - 1]
      <4>1. n + 1 \in 1 .. Len(list) + 1 /\ Len(list) \in n + 1 - 1 .. Len(list)
        BY <1>1
      <4> QED
        <5>1. list \in Seq(Sids)
          BY <1>1
        <5> QED
          BY <5>1, <4>1, Cut DEF behind
    <3>3. Len(list) - (n + 1) + 1 = Len(list) - n
      BY <1>1
    <3> QED
      BY <3>1, <3>2, <3>3
  <2>2. new = ahead \o behind
    BY <1>3
  <2> HIDE DEF new, ahead, behind
  <2>3. /\ new \in Seq(Sids) /\ Len(new) = Len(list) - 1
        /\ \A i \in 1 .. n - 1 : new[i] = ahead[i]
        /\ \A j \in 1 .. Len(list) - n : new[n - 1 + j] = behind[j]
    <3>1. /\ new \in Seq(Sids) /\ Len(new) = Len(ahead) + Len(behind)
          /\ \A i \in 1 .. Len(ahead) : new[i] = ahead[i]
          /\ \A i \in 1 .. Len(behind) : new[Len(ahead) + i] = behind[i]
      <4>1. ahead \in Seq(Sids) /\ behind \in Seq(Sids)
        BY <2>1
      <4>2. /\ ahead \o behind \in Seq(Sids) /\ Len(ahead \o behind) = Len(ahead) + Len(behind)
            /\ \A i \in 1 .. Len(ahead) : (ahead \o behind)[i] = ahead[i]
            /\ \A i \in 1 .. Len(behind) : (ahead \o behind)[Len(ahead) + i] = behind[i]
        BY ONLY <4>1, Joined
      <4> QED
        BY <2>2, <4>2
    <3>2. n - 1 + (Len(list) - n) = Len(list) - 1
      BY <1>1
    <3> QED
      BY <2>1, <3>1, <3>2
  <2>4. ASSUME NEW i \in n .. Len(list) - 1
        PROVE  new[i] = list[i + 1]
    <3>1. PICK j \in 1 .. Len(list) - n : i = n - 1 + j
      <4>1. i - n + 1 \in 1 .. Len(list) - n /\ i = n - 1 + (i - n + 1)
        BY <1>1
      <4> QED
        BY <4>1
    <3>2. i + 1 = n + 1 + j - 1
      BY <1>1, <3>1
    <3> QED
      BY <2>1, <2>3, <3>1, <3>2
  <2> QED
    BY <1>1, <2>1, <2>3, <2>4
<1> HIDE DEF new
<1>5. DOMAIN new = 1 .. Len(list) - 1
  BY <1>4
<1>6. \A i, j \in DOMAIN new : new[i] = new[j] => i = j
  BY <1>1, <1>2, <1>4, <1>5
<1>7. \A t : t \in M \ {s} <=> \E j \in DOMAIN new : new[j] = t
  <2>1. ASSUME NEW t \in M \ {s}
        PROVE  \E j \in DOMAIN new : new[j] = t
    <3>1. PICK i \in 1 .. Len(list) : list[i] = t
      BY <1>1 DEF ListOf
    <3>2. i # n
      BY <3>1, <1>1
    <3>3. CASE i < n
      BY <3>3, <3>1, <1>1, <1>4, <1>5
    <3>4. CASE i > n
      <4>1. i - 1 \in 1 .. Len(list) - 1 /\ new[i - 1] = list[i]
        BY <3>4, <1>1, <1>4
      <4> QED
        BY <4>1, <3>1, <1>5
    <3> QED
      BY <3>2, <3>3, <3>4, <1>1
  <2>2. ASSUME NEW j \in DOMAIN new
        PROVE  new[j] \in M \ {s}
    <3>1. PICK i \in 1 .. Len(list) : i # n /\ new[j] = list[i]
      <4>1. CASE j < n
        BY <4>1, <1>1, <1>4, <1>5
      <4>2. CASE ~(j < n)
        <5>1. j + 1 \in 1 .. Len(list) /\ j + 1 # n /\ new[j] = list[j + 1]
          BY <4>2, <1>1, <1>4, <1>5
        <5> QED
          BY <5>1
      <4> QED
        BY <4>1, <4>2
    <3>2. list[i] \in M
      BY <1>1 DEF ListOf
    <3>3. list[i] # s
      BY <3>1, <1>1, <1>2
    <3> QED
      BY <3>1, <3>2, <3>3
  <2> QED
    BY <2>1, <2>2
<1> QED
  BY <1>4, <1>6, <1>7 DEF ListOf, new

(***************************************************************************)
(* The operations on the lists, whatever the coordinates are: an entity is *)
(* put in once, and stays in when it moves.                                *)
(***************************************************************************)
LEMMA InsertKeeps ==
    ASSUME NEW M, NEW list, ListOf(list, M), NEW s \in Sids \ M, NEW c
    PROVE  ListOf(insert_entity(list, s, c), M \cup {s})
<1> DEFINE farther == {i \in DOMAIN list : c[list[i]] > c[s]}
<1>1. list \in Seq(Sids) /\ Len(list) \in Nat /\ DOMAIN list = 1 .. Len(list)
  BY LenProperties DEF ListOf
<1> DEFINE place == CHOOSE i \in farther : \A j \in farther : i <= j
<1>2. farther # {} => place \in 1 .. Len(list) + 1
  <2>1. farther \subseteq 1 .. Len(list) /\ farther \subseteq Nat
    BY <1>1
  <2> HIDE DEF farther
  <2>2. farther # {} => \E i \in farther : \A j \in farther : i <= j
    BY <2>1, NatMin
  <2>3. farther # {} => place \in farther
    BY <2>2
  <2> HIDE DEF place
  <2>4. farther # {} => place \in 1 .. Len(list)
    BY <2>1, <2>3
  <2> QED
    BY <1>1, <2>4
<1>3. CASE farther = {}
  <2>1. insert_entity(list, s, c) = Append(list, s)
    BY <1>3 DEF insert_entity
  <2>2. Append(list, s) = InsertAt(list, Len(list) + 1, s)
    BY <1>1 DEF InsertAt
  <2>3. Len(list) + 1 \in 1 .. Len(list) + 1
    BY <1>1
  <2> QED
    BY <2>1, <2>2, <2>3, Inserted
<1>4. CASE farther # {}
  <2>1. insert_entity(list, s, c) = InsertAt(list, place, s)
    BY <1>4 DEF insert_entity
  <2> HIDE DEF farther, place
  <2> QED
    BY <1>2, <1>4, <2>1, Inserted
<1> QED
  BY <1>3, <1>4

LEMMA UpdateKeeps ==
    ASSUME NEW M, NEW list, ListOf(list, M), NEW s \in M, NEW c, NEW direct \in BOOLEAN
    PROVE  ListOf(update_list(list, s, c, direct), M)
<1> DEFINE at == Place(list, s)
           rest == Without(list, s)
           nearer == {i \in 1 .. at - 1 : c[rest[i]] < c[s]}
           farther == {i \in at .. Len(rest) : c[rest[i]] > c[s]}
           ahead == CHOOSE i \in nearer : \A j \in nearer : i >= j
           behind == CHOOSE i \in farther : \A j \in farther : i <= j
<1>1. /\ list \in Seq(Sids) /\ Len(list) \in Nat /\ at \in 1 .. Len(list)
      /\ ListOf(rest, M \ {s}) /\ Len(rest) = Len(list) - 1 /\ rest \in Seq(Sids)
  <2>1. list \in Seq(Sids) /\ Len(list) \in Nat
    BY LenProperties DEF ListOf
  <2>2. ListOf(rest, M \ {s}) /\ Len(rest) = Len(list) - 1
    BY Removed
  <2> HIDE DEF rest
  <2>3. rest \in Seq(Sids)
    BY <2>2 DEF ListOf
  <2> QED
    BY <2>1, <2>2, <2>3, AtItsPlace
<1>2. s \in Sids \ (M \ {s}) /\ M = (M \ {s}) \cup {s}
  <2>1. list[at] \in Sids
    BY <1>1
  <2> QED
    BY <2>1, AtItsPlace
<1>3. \A n \in 1 .. Len(rest) + 1 : ListOf(InsertAt(rest, n, s), M)
  BY <1>1, <1>2, Inserted
<1>4. Append(rest, s) = InsertAt(rest, Len(rest) + 1, s)
  BY <1>1 DEF InsertAt
<1>5. 1 \in 1 .. Len(rest) + 1 /\ Len(rest) + 1 \in 1 .. Len(rest) + 1
  BY <1>1
<1>6. nearer # {} => 1 + ahead \in 1 .. Len(rest) + 1
  <2>1. nearer \subseteq 0 .. Len(list) /\ nearer \subseteq 1 .. at - 1
    BY <1>1
  <2> HIDE DEF nearer, at, rest
  <2>2. nearer # {} => \E i \in nearer : \A j \in nearer : i >= j
    BY <1>1, <2>1, NatMax
  <2>3. nearer # {} => ahead \in nearer
    BY <2>2
  <2> HIDE DEF ahead
  <2>4. nearer # {} => ahead \in 1 .. at - 1
    BY <2>1, <2>3
  <2>5. at - 1 <= Len(rest) /\ Len(rest) \in Int /\ at \in Int
    BY <1>1
  <2> QED
    BY <2>4, <2>5
<1>7. farther # {} => behind \in 1 .. Len(rest) + 1
  <2>1. farther \subseteq Nat /\ farther \subseteq at .. Len(rest)
    BY <1>1
  <2> HIDE DEF farther, at, rest
  <2>2. farther # {} => \E i \in farther : \A j \in farther : i <= j
    BY <2>1, NatMin
  <2>3. farther # {} => behind \in farther
    BY <2>2
  <2> HIDE DEF behind
  <2>4. farther # {} => behind \in at .. Len(rest)
    BY <2>1, <2>3
  <2>5. at \in Nat /\ at >= 1 /\ Len(rest) \in Int
    BY <1>1
  <2> QED
    BY <2>4, <2>5
<1>8. update_list(list, s, c, direct) =
         IF direct
         THEN IF at = 1 THEN list
              ELSE IF nearer = {} THEN InsertAt(rest, 1, s) ELSE InsertAt(rest, 1 + ahead, s)
         ELSE IF at = Len(list) THEN list
              ELSE IF farther = {} THEN Append(rest, s) ELSE InsertAt(rest, behind, s)
  BY DEF update_list
<1> HIDE DEF at, rest, nearer, farther, ahead, behind
<1> QED
  BY <1>3, <1>4, <1>5, <1>6, <1>7, <1>8

LEMMA ReachedOthers ==
    ASSUME NEW M, NEW list, ListOf(list, M), NEW s \in M, NEW c
    PROVE  Reached(list, s, c) \subseteq M \ {s}
<1> DEFINE at == Place(list, s)
<1>1. Len(list) \in Nat /\ DOMAIN list = 1 .. Len(list) /\ at \in 1 .. Len(list) /\ list[at] = s
  BY LenProperties, AtItsPlace DEF ListOf
<1>2. \A i \in 1 .. Len(list) : i # at => list[i] \in M \ {s}
  BY <1>1 DEF ListOf
<1> HIDE DEF at
<1> QED
  BY <1>1, <1>2 DEF Reached, at

-----------------------------------------------------------------------------
(***************************************************************************)
(* The maps after s has a new one, and what its step tells the clients.    *)
(***************************************************************************)
Mutual(map, mgr) ==
    \A s \in Sids : \A t \in map[s] :
        s \in map[t] /\ mgr[t] = mgr[s] /\ mgr[s] # NoScene /\ t # s

LEMMA MapsMutual ==
    ASSUME aoiTyped, NEW s \in Sids, NEW new, NEW mgr,
           Mutual(aoi_map, manager),
           new \subseteq {t \in Sids : mgr[t] = mgr[s]} \ {s},
           new # {} => mgr[s] # NoScene,
           \A t \in Sids : t # s => mgr[t] = manager[t]
    PROVE  MapsAfter(s, new) \in [Sids -> SUBSET Sids] /\ Mutual(MapsAfter(s, new), mgr)
<1> DEFINE after == MapsAfter(s, new)
<1>1. after \in [Sids -> SUBSET Sids]
  BY DEF MapsAfter, aoiTyped
<1>2. /\ after[s] = new
      /\ \A t \in Sids \ {s} :
            /\ \A u \in Sids \ {s} : u \in after[t] <=> u \in aoi_map[t]
            /\ s \in after[t] <=> t \in new
  <2>1. \A t \in Sids \ {s} : s \in aoi_map[t] <=> t \in aoi_map[s]
    BY DEF Mutual
  <2> QED
    BY <2>1 DEF MapsAfter, Enters, Leaves, aoiTyped
<1> HIDE DEF after
<1>3. ASSUME NEW t \in Sids, NEW u \in after[t]
      PROVE  t \in after[u] /\ mgr[u] = mgr[t] /\ mgr[t] # NoScene /\ u # t
  <2>1. u \in Sids
    BY <1>1
  <2>2. CASE t = s
    BY <2>1, <2>2, <1>2
  <2>3. CASE t # s /\ u = s
    BY <2>3, <1>2
  <2>4. CASE t # s /\ u # s
    BY <2>1, <2>4, <1>2 DEF Mutual
  <2> QED
    BY <2>2, <2>3, <2>4
<1> QED
  BY <1>1, <1>3 DEF Mutual, after

LEMMA NeighboursAre ==
    ASSUME aoiTyped, entity_map = {s \in Sids : manager[s] # NoScene}
    PROVE  NeighboursMutual <=> ~strangers /\ shown = aoi_map /\ Mutual(aoi_map, manager)
<1>1. shown = aoi_map <=> \A s \in Sids : shown[s] = aoi_map[s]
  BY DEF aoiTyped
<1>2. \A s \in Sids : \A t \in aoi_map[s] : t \in Sids
  BY DEF aoiTyped
<1> QED
  BY <1>1, <1>2 DEF NeighboursMutual, Mutual

LEMMA TheSameAfter ==
    ASSUME aoiTyped', entity_map' = {s \in Sids : manager'[s] # NoScene}
    PROVE  NeighboursMutual' <=> ~strangers' /\ shown' = aoi_map' /\ Mutual(aoi_map', manager')
<1>1. shown' = aoi_map' <=> \A s \in Sids : shown'[s] = aoi_map'[s]
  BY DEF aoiTyped
<1>2. \A s \in Sids : \A t \in aoi_map'[s] : t \in Sids
  BY DEF aoiTyped
<1> QED
  BY <1>1, <1>2 DEF NeighboursMutual, Mutual

LEMMA ToldIsMap ==
    ASSUME aoiTyped, NEW s \in Sids, NEW new, shown = aoi_map
    PROVE  Told(s, Enters(aoi_map[s], new), Leaves(aoi_map[s], new), TRUE) = MapsAfter(s, new)
<1>1. (aoi_map[s] \cup Enters(aoi_map[s], new)) \ Leaves(aoi_map[s], new) = new
  BY DEF Enters, Leaves
<1> QED
  BY <1>1 DEF Told, MapsAfter

-----------------------------------------------------------------------------
LEMMA EnterKeeps ==
    ASSUME aoiIInv, NEW s \in Sids, NEW m \in Scenes, NEW x, NEW y, enter_scene(s, m, x, y)
    PROVE  aoiIInv'
<1> USE AoiAssumption
<1>1. aoiTyped /\ EntitiesKnown /\ ListsKept
      /\ ~strangers /\ shown = aoi_map /\ Mutual(aoi_map, manager)
  BY NeighboursAre DEF aoiIInv, EntitiesKnown
<1>2. scene_id[s] = NoScene /\ manager[s] = NoScene /\ s \notin entity_map
      /\ scene_id' = [scene_id EXCEPT ![s] = m]
      /\ UNCHANGED <<managers, strangers, moves>>
  BY <1>1 DEF enter_scene, EntitiesKnown
<1>3. aoi_map[s] = {}
  BY <1>1, <1>2 DEF Mutual
<1>4. CASE m \notin managers
  <2>1. UNCHANGED <<x_list, y_list, entity_map, manager, aoi_map, shown>>
    BY <1>4 DEF enter_scene
  <2>2. aoiTyped' /\ EntitiesKnown' /\ ListsKept'
    BY <1>1, <1>2, <2>1 DEF aoiTyped, EntitiesKnown, ListsKept, In
  <2> QED
    BY <1>1, <1>2, <2>1, <2>2 DEF aoiIInv, NeighboursMutual
<1>5. CASE m \in managers
  <2> DEFINE xs == insert_entity(x_list[m], s, X(pos'))
             ys == insert_entity(y_list[m], s, Y(pos'))
             new == Reached(xs, s, X(pos')) \cap Reached(ys, s, Y(pos'))
  <2>1. /\ x_list' = [x_list EXCEPT ![m] = xs] /\ y_list' = [y_list EXCEPT ![m] = ys]
        /\ manager' = [manager EXCEPT ![s] = m]
        /\ aoi_map' = MapsAfter(s, new)
        /\ entity_map' = entity_map \cup {s}
        /\ shown' = Told(s, new, {}, TRUE)
    BY <1>5 DEF enter_scene
  <2>2. ListOf(xs, In(m) \cup {s}) /\ ListOf(ys, In(m) \cup {s})
    <3>1. s \in Sids \ In(m) /\ ListOf(x_list[m], In(m)) /\ ListOf(y_list[m], In(m))
      BY <1>1, <1>2 DEF In, ListsKept
    <3> QED
      BY <3>1, InsertKeeps
  <2>3. new \subseteq In(m)
    BY <2>2, ReachedOthers
  <2> HIDE DEF xs, ys, new
  <2>4. MapsAfter(s, new) \in [Sids -> SUBSET Sids] /\ Mutual(aoi_map', manager')
    <3>1. new \subseteq {t \in Sids : manager'[t] = manager'[s]} \ {s}
      BY <1>1, <1>2, <2>1, <2>3 DEF In, aoiTyped
    <3>2. manager'[s] # NoScene /\ \A t \in Sids : t # s => manager'[t] = manager[t]
      BY <1>1, <2>1 DEF aoiTyped
    <3> QED
      BY <1>1, <2>1, <3>1, <3>2, MapsMutual
  <2>5. shown' = aoi_map'
    <3>1. Enters(aoi_map[s], new) = new /\ Leaves(aoi_map[s], new) = {}
      BY <1>3 DEF Enters, Leaves
    <3> QED
      BY <1>1, <2>1, <3>1, ToldIsMap
  <2>6. aoiTyped'
    BY <1>1, <1>2, <2>1, <2>4, <2>5 DEF aoiTyped
  <2>7. EntitiesKnown'
    BY <1>1, <1>2, <2>1 DEF EntitiesKnown, aoiTyped
  <2>8. ListsKept'
    <3>1. \A n \in Scenes : In(n)' = IF n = m THEN In(m) \cup {s} ELSE In(n)
      BY <1>1, <1>2, <2>1 DEF In, aoiTyped
    <3>2. \A n \in Scenes : /\ x_list'[n] = IF n = m THEN xs ELSE x_list[n]
                            /\ y_list'[n] = IF n = m THEN ys ELSE y_list[n]
      BY <1>1, <2>1 DEF aoiTyped
    <3> QED
      BY <1>1, <2>2, <3>1, <3>2 DEF ListsKept
  <2> QED
    BY <1>1, <1>2, <2>4, <2>1, <2>5, <2>6, <2>7, <2>8, TheSameAfter DEF aoiIInv, EntitiesKnown
<1> QED
  BY <1>4, <1>5

LEMMA MoveKeeps ==
    ASSUME aoiIInv, NEW s \in Sids, NEW x, NEW y, NEW corner \in BOOLEAN,
           move_process(s, x, y, corner)
    PROVE  aoiIInv'
<1> USE AoiAssumption
<1>1. aoiTyped /\ EntitiesKnown /\ ListsKept
      /\ ~strangers /\ shown = aoi_map /\ Mutual(aoi_map, manager)
  BY NeighboursAre DEF aoiIInv, EntitiesKnown
<1>2. UNCHANGED <<managers, entity_map, manager, scene_id>>
  BY DEF move_process
<1>3. EntitiesKnown'
  BY <1>1, <1>2 DEF EntitiesKnown
<1>4. CASE manager[s] = NoScene
  <2>1. UNCHANGED <<x_list, y_list, aoi_map, shown, strangers>>
    BY <1>4 DEF move_process
  <2>2. aoiTyped' /\ ListsKept'
    BY <1>1, <1>2, <2>1 DEF aoiTyped, ListsKept, In
  <2> QED
    BY <1>1, <1>2, <1>3, <2>1, <2>2 DEF aoiIInv, NeighboursMutual
<1>5. CASE manager[s] # NoScene
  <2> DEFINE m == manager[s]
             xd == x > pos[s].x
             yd == y > pos[s].y
             xs == update_list(x_list[m], s, X(pos'), xd)
             ys == update_list(y_list[m], s, Y(pos'), yd)
             new == Reached(xs, s, X(pos')) \cap Reached(ys, s, Y(pos'))
             came == Enters(aoi_map[s], new)
  <2>1. /\ x_list' = [x_list EXCEPT ![m] = xs] /\ y_list' = [y_list EXCEPT ![m] = ys]
        /\ aoi_map' = MapsAfter(s, new)
        /\ shown' = Told(s, came, Leaves(aoi_map[s], new), TRUE)
        /\ strangers' = StepTold(s, IF corner THEN new ELSE came, shown')
    BY <1>5 DEF move_process
  <2>2. m \in Scenes /\ s \in In(m) /\ xd \in BOOLEAN /\ yd \in BOOLEAN
    BY <1>1, <1>5 DEF aoiTyped, In
  <2> HIDE DEF xd, yd
  <2>3. ListOf(xs, In(m)) /\ ListOf(ys, In(m))
    <3>1. ListOf(x_list[m], In(m)) /\ ListOf(y_list[m], In(m))
      BY <1>1, <2>2 DEF ListsKept
    <3> QED
      BY <2>2, <3>1, UpdateKeeps
  <2>4. new \subseteq In(m) \ {s}
    BY <2>2, <2>3, ReachedOthers
  <2> HIDE DEF xs, ys, new
  <2>5. MapsAfter(s, new) \in [Sids -> SUBSET Sids] /\ Mutual(aoi_map', manager')
    <3>1. new \subseteq {t \in Sids : manager[t] = manager[s]} \ {s}
      BY <2>4 DEF In
    <3> QED
      BY <1>1, <1>2, <1>5, <2>1, <3>1, MapsMutual
  <2>6. shown' = aoi_map'
    BY <1>1, <2>1, ToldIsMap
  <2>7. ~strangers'
    <3>1. \A t \in new : s \in aoi_map'[t]
      <4>1. aoi_map'[s] = new
        BY <1>1, <2>1 DEF MapsAfter
      <4> QED
        BY <2>5, <4>1 DEF Mutual
    <3>2. came \subseteq new
      BY DEF Enters
    <3> QED
      BY <1>1, <2>1, <2>6, <3>1, <3>2 DEF StepTold
  <2>8. aoiTyped'
    BY <1>1, <1>2, <2>1, <2>5, <2>6 DEF aoiTyped
  <2>9. ListsKept'
    <3>1. \A n \in Scenes : In(n)' = In(n)
      BY <1>2 DEF In
    <3>2. \A n \in Scenes : /\ x_list'[n] = IF n = m THEN xs ELSE x_list[n]
                            /\ y_list'[n] = IF n = m THEN ys ELSE y_list[n]
      BY <1>1, <2>1 DEF aoiTyped
    <3> QED
      BY <1>1, <2>3, <3>1, <3>2 DEF ListsKept
  <2> QED
    BY <1>3, <2>5, <2>6, <2>7, <2>8, <2>9, TheSameAfter DEF aoiIInv, EntitiesKnown
<1> QED
  BY <1>4, <1>5

LEMMA LeaveKeeps ==
    ASSUME aoiIInv, NEW s \in Sids, leave_scene(s)
    PROVE  aoiIInv'
<1> USE AoiAssumption
<1>1. aoiTyped /\ EntitiesKnown /\ ListsKept
      /\ ~strangers /\ shown = aoi_map /\ Mutual(aoi_map, manager)
  BY NeighboursAre DEF aoiIInv, EntitiesKnown
<1>2. /\ scene_id' = [scene_id EXCEPT ![s] = NoScene]
      /\ shown' = [Told(s, {}, aoi_map[s], FALSE) EXCEPT ![s] = {}]
      /\ manager' = [manager EXCEPT ![s] = NoScene]
      /\ aoi_map' = MapsAfter(s, {})
      /\ entity_map' = entity_map \ {s}
      /\ strangers' = strangers
  BY DEF leave_scene
<1>3. aoi_map' \in [Sids -> SUBSET Sids] /\ Mutual(aoi_map', manager')
  <2>1. \A t \in Sids : t # s => manager'[t] = manager[t]
    BY <1>1, <1>2 DEF aoiTyped
  <2> QED
    BY <1>1, <1>2, <2>1, MapsMutual
<1>4. shown' = aoi_map'
  <2>1. Enters(aoi_map[s], {}) = {} /\ Leaves(aoi_map[s], {}) = aoi_map[s]
    BY DEF Enters, Leaves
  <2>2. s \notin aoi_map[s]
    BY <1>1 DEF Mutual
  <2> QED
    BY <1>1, <1>2, <2>1, <2>2 DEF Told, MapsAfter, aoiTyped
<1>5. EntitiesKnown' /\ DOMAIN scene_id' = Sids /\ manager' \in [Sids -> Scenes \cup {NoScene}]
  BY <1>1, <1>2 DEF EntitiesKnown, aoiTyped
<1>6. ListsKept' /\ DOMAIN x_list' = Scenes /\ DOMAIN y_list' = Scenes
  <2>1. CASE manager[s] = NoScene
    <3>1. UNCHANGED <<x_list, y_list>> /\ \A n \in Scenes : In(n)' = In(n)
      BY <1>1, <1>2, <2>1 DEF leave_scene, In, aoiTyped
    <3> QED
      BY <1>1, <3>1 DEF ListsKept, aoiTyped
  <2>2. CASE manager[s] # NoScene
    <3> DEFINE m == manager[s]
               xs == Without(x_list[m], s)
               ys == Without(y_list[m], s)
    <3>1. x_list' = [x_list EXCEPT ![m] = xs] /\ y_list' = [y_list EXCEPT ![m] = ys]
      BY <2>2 DEF leave_scene
    <3>2. m \in Scenes /\ s \in In(m)
      BY <1>1, <2>2 DEF aoiTyped, In
    <3>3. ListOf(xs, In(m) \ {s}) /\ ListOf(ys, In(m) \ {s})
      BY <1>1, <3>2, Removed DEF ListsKept
    <3> HIDE DEF xs, ys
    <3>4. \A n \in Scenes : In(n)' = IF n = m THEN In(m) \ {s} ELSE In(n)
      BY <1>1, <1>2, <3>2 DEF In, aoiTyped
    <3>5. \A n \in Scenes : /\ x_list'[n] = IF n = m THEN xs ELSE x_list[n]
                            /\ y_list'[n] = IF n = m THEN ys ELSE y_list[n]
      BY <1>1, <3>1 DEF aoiTyped
    <3> QED
      BY <1>1, <3>1, <3>3, <3>4, <3>5 DEF ListsKept, aoiTyped
  <2> QED
    BY <2>1, <2>2
<1>7. aoiTyped'
  BY <1>3, <1>4, <1>5, <1>6 DEF aoiTyped
<1> QED
  BY <1>1, <1>2, <1>3, <1>4, <1>5, <1>6, <1>7, TheSameAfter DEF aoiIInv, EntitiesKnown

LEMMA OthersKeep ==
    ASSUME aoiIInv,
           \/ \E m \in Scenes : create_aoi_manager(m)
           \/ \E s \in Sids : start_move(s)
           \/ UNCHANGED aoiVars
    PROVE  aoiIInv'
<1>1. /\ UNCHANGED <<x_list, y_list, entity_map, manager, aoi_map, scene_id, shown>>
      /\ ~strangers'
  <2>1. ASSUME NEW s \in Sids, start_move(s)
        PROVE  ~strangers'
    <3>1. strangers' = (strangers \/ \E t \in aoi_map[s] : s \notin shown[t])
      BY <2>1 DEF start_move, StepTold
    <3>2. \A t \in aoi_map[s] : t \in Sids /\ shown[t] = aoi_map[t] /\ s \in aoi_map[t]
      BY DEF aoiIInv, NeighboursMutual, aoiTyped
    <3> QED
      BY <3>1, <3>2 DEF aoiIInv, NeighboursMutual
  <2> QED
    BY <2>1 DEF create_aoi_manager, start_move, aoiVars, aoiIInv, NeighboursMutual
<1>2. aoiTyped' /\ EntitiesKnown' /\ ListsKept'
  BY <1>1 DEF aoiIInv, aoiTyped, EntitiesKnown, ListsKept, In
<1> QED
  BY <1>1, <1>2 DEF aoiIInv, NeighboursMutual

-----------------------------------------------------------------------------
(***************************************************************************)
(* Those who are near each other know each other, in the plugin's maps and *)
(* on the clients, however the lists are out of order: for any number of   *)
(* players and scenes, any coordinates and any radius                      *)
(* (Aoi_Manager::update_aoi_map, Aoi_Entity::update_aoi_map, entity.js).   *)
(***************************************************************************)
THEOREM NeighboursAlwaysMutual == aoiSpec => []NeighboursMutual
<1> USE AoiAssumption
<1>1. aoiInit => aoiIInv
  <2> SUFFICES ASSUME aoiInit PROVE aoiIInv
    OBVIOUS
  <2>1. aoiTyped /\ EntitiesKnown /\ NeighboursMutual
    BY DEF aoiInit, aoiTyped, EntitiesKnown, NeighboursMutual
  <2>2. ListsKept
    <3>1. \A m \in Scenes : In(m) = {} /\ x_list[m] = << >> /\ y_list[m] = << >>
      BY DEF aoiInit, In
    <3>2. ListOf(<< >>, {})
      BY DEF ListOf
    <3> QED
      BY <3>1, <3>2 DEF ListsKept
  <2> QED
    BY <2>1, <2>2 DEF aoiIInv
<1>2. aoiIInv /\ [aoiNext]_aoiVars => aoiIInv'
  BY EnterKeeps, MoveKeeps, LeaveKeeps, OthersKeep DEF aoiNext
<1>3. aoiIInv => NeighboursMutual
  BY DEF aoiIInv
<1> QED
  BY <1>1, <1>2, <1>3, PTL DEF aoiSpec

-----------------------------------------------------------------------------
-----------------------------------------------------------------------------
(***************************************************************************)
(* The data server: answers.                                               *)
(***************************************************************************)
\* Serving a request answers to where it came from, if the server serves it,
\* and changes neither the connectors nor who asked.
LEMMA ServeAnswers ==
    ASSUME NEW p, NEW m, NEW link, Serve(p, m, link)
    PROVE  /\ p # Server => answer' = answer
           /\ p = Server => answer' = answer \/ (answer'.to = m.cid /\ answer'.sid = m.sid)
<1> DEFINE Good == /\ p # Server => answer' = answer
                   /\ p = Server => answer' = answer \/ (answer'.to = m.cid /\ answer'.sid = m.sid)
<1>1. ASSUME NEW op, NEW code, NEW value, SendAnswer(p, m, op, code, value)
      PROVE  Good
  BY <1>1 DEF SendAnswer
<1>2. ASSUME NEW code, RetCode(p, m, code)
      PROVE  Good
  BY <1>1, <1>2 DEF RetCode
<1>3. ASSUME Quiet
      PROVE  Good
  BY <1>3 DEF Quiet
<1>4. ASSUME NEW r, SendRows(p, m, r)
      PROVE  Good
  BY <1>1, <1>2, <1>4 DEF SendRows
<1> SUFFICES Good
  OBVIOUS
<1> HIDE DEF Good
<1>5. CASE load_db_data(p, m, link)
  <2>1. PICK r : SendRows(p, m, r)
    BY <1>5 DEF load_db_data
  <2> QED
    BY <1>4, <2>1
<1>6. CASE save_db_data(p, m, link)
  BY <1>2, <1>3, <1>6 DEF save_db_data
<1>7. CASE delete_db_data(p, m, link)
  BY <1>2, <1>3, <1>7 DEF delete_db_data
<1>8. CASE select_db_data(p, m, link)
  BY <1>4, <1>8 DEF select_db_data
<1>9. CASE generate_id(p, m)
  BY <1>1, <1>9 DEF generate_id
<1>10. CASE load_runtime_data(p, m)
  BY <1>1, <1>2, <1>10 DEF load_runtime_data
<1>11. CASE save_runtime_data(p, m)
  BY <1>3, <1>11 DEF save_runtime_data
<1>12. CASE delete_runtime_data(p, m)
  BY <1>2, <1>3, <1>12 DEF delete_runtime_data
<1> QED
  BY <1>5, <1>6, <1>7, <1>8, <1>9, <1>10, <1>11, <1>12 DEF Serve

askIInv ==
    /\ AnswersStayInSession
    /\ \A s \in DOMAIN session_map : <<s, session_map[s]>> \in askers
    /\ connector_list \in Seq(Range(Connectors))

LEMMA RequestKeepsAsker == askIInv /\ ServerRequest => askIInv'
<1> SUFFICES ASSUME askIInv, ServerRequest
             PROVE  askIInv'
  OBVIOUS
<1>1. connector_list' = connector_list
  BY DEF ServerRequest
<1>2. PICK m \in Requests :
         /\ askers' = askers \cup {<<m.sid, m.cid>>}
         /\ \/ /\ session_map' = IF m.sid \in DOMAIN session_map THEN session_map
                                 ELSE PutRow(session_map, m.sid, m.cid)
               /\ UNCHANGED answer
            \/ /\ \E link \in LinkStates : Serve(Server, m, link)
               /\ UNCHANGED session_map
  BY DEF ServerRequest
<1>3. askers \subseteq askers' /\ <<m.sid, m.cid>> \in askers'
  BY <1>2
<1>5. CASE /\ session_map' = IF m.sid \in DOMAIN session_map THEN session_map
                             ELSE PutRow(session_map, m.sid, m.cid)
           /\ UNCHANGED answer
  <2>1. \A s \in DOMAIN session_map' : <<s, session_map'[s]>> \in askers'
    <3>1. CASE m.sid \in DOMAIN session_map
      BY <1>3, <1>5, <3>1 DEF askIInv
    <3>2. CASE m.sid \notin DOMAIN session_map
      <4>1. session_map' = PutRow(session_map, m.sid, m.cid)
        BY <1>5, <3>2
      <4>2. /\ DOMAIN session_map' = {m.sid} \cup DOMAIN session_map
            /\ \A s \in DOMAIN session_map' :
                  session_map'[s] = IF s = m.sid THEN m.cid ELSE session_map[s]
        BY <4>1 DEF PutRow
      <4> QED
        BY <1>3, <4>2 DEF askIInv
    <3> QED
      BY <3>1, <3>2
  <2> QED
    BY <1>1, <1>3, <1>5, <2>1 DEF askIInv, AnswersStayInSession
<1>6. CASE /\ \E link \in LinkStates : Serve(Server, m, link)
           /\ UNCHANGED session_map
  <2>1. answer' = answer \/ (answer'.to = m.cid /\ answer'.sid = m.sid)
    BY <1>6, ServeAnswers
  <2>2. AnswersStayInSession'
    BY <1>3, <2>1 DEF askIInv, AnswersStayInSession
  <2> QED
    BY <1>1, <1>3, <1>6, <2>2 DEF askIInv
<1> QED
  BY <1>2, <1>5, <1>6

LEMMA ConnectorsKeepAsker ==
    askIInv /\ (NodeInfo \/ ConnectorServes \/ PassBack \/ Tick \/ Restart \/ UNCHANGED dataVars)
        => askIInv'
<1> SUFFICES ASSUME askIInv,
                    NodeInfo \/ ConnectorServes \/ PassBack \/ Tick \/ Restart \/ UNCHANGED dataVars
             PROVE  askIInv'
  OBVIOUS
<1>1. CASE NodeInfo
  <2>1. PICK c \in Range(Connectors) : connector_list' = Append(connector_list, c)
    BY <1>1 DEF NodeInfo
  <2>2. connector_list' \in Seq(Range(Connectors))
    BY <2>1, AppendProperties DEF askIInv
  <2>3. answer' = answer /\ session_map' = session_map /\ askers' = askers
    BY <1>1 DEF NodeInfo
  <2> QED
    BY <2>2, <2>3 DEF askIInv, AnswersStayInSession
<1>2. CASE ConnectorServes
  <2>1. PICK c \in Range(connector_list) :
           answer' = answer \/ \E link \in LinkStates : Serve(c, Head(inbox[c]), link)
    BY <1>2 DEF ConnectorServes
  <2>2. c # Server
    <3>1. PICK i \in DOMAIN connector_list : c = connector_list[i]
      BY <2>1 DEF Range
    <3>2. c \in Range(Connectors)
      BY <3>1 DEF askIInv
    <3> QED
      BY <3>2, DataServerAssumption
  <2>3. answer' = answer
    BY <2>1, <2>2, ServeAnswers
  <2>4. session_map' = session_map /\ connector_list' = connector_list /\ askers' = askers
    BY <1>2 DEF ConnectorServes, fork_vars
  <2> QED
    BY <2>3, <2>4 DEF askIInv, AnswersStayInSession
<1>3. CASE PassBack
  <2>1. PICK a : answer' = IF a.sid \in DOMAIN session_map
                           THEN [a EXCEPT !.to = session_map[a.sid]] ELSE answer
    BY <1>3 DEF PassBack
  <2>2. session_map' = session_map /\ connector_list' = connector_list /\ askers' = askers
    BY <1>3 DEF PassBack, fork_vars
  <2> QED
    BY <2>1, <2>2 DEF askIInv, AnswersStayInSession
<1>4. CASE Tick \/ Restart \/ UNCHANGED dataVars
  <2>1. answer' = answer /\ session_map' = session_map /\ connector_list' = connector_list /\ askers' = askers
    BY <1>4 DEF Tick, Restart, dataVars, fork_vars
  <2> QED
    BY <2>1 DEF askIInv, AnswersStayInSession
<1> QED
  BY <1>1, <1>2, <1>3, <1>4

(***************************************************************************)
(* Every answer goes to a server that has asked for its session, whoever   *)
(* has served the request and whichever servers ask for which sessions     *)
(* (DB_Manager::process_list).                                             *)
(***************************************************************************)
THEOREM AnswersAlwaysStayInSession == dataSpec => []AnswersStayInSession
<1>1. dataInit => askIInv
  BY DEF dataInit, askIInv, AnswersStayInSession, NoAnswer
<1>2. askIInv /\ [dataNext]_dataVars => askIInv'
  BY RequestKeepsAsker, ConnectorsKeepAsker DEF dataNext
<1>3. askIInv => AnswersStayInSession
  BY DEF askIInv
<1> QED
  BY <1>1, <1>2, <1>3, PTL DEF dataSpec

-----------------------------------------------------------------------------
(***************************************************************************)
(* The data cache: what its operations leave in it.  A load loses no row.  *)
(***************************************************************************)
View(tables, c, t, k) == IF k \in DOMAIN c[t] THEN c[t][k].value ELSE tables[t][k]

SameRow(c, d, t, k) ==
    k \in DOMAIN c[t] => k \in DOMAIN d[t] /\ d[t][k].value = c[t][k].value

\* No row is lost, and none read differs.
NoneLost(tables, c, d) ==
    /\ DOMAIN d = DOMAIN c
    /\ \A t \in DOMAIN c, k \in Keys :
          SameRow(c, d, t, k) /\ View(tables, d, t, k) = View(tables, c, t, k)

IsResult(r) == \E d, c, n, w : r = Result(d, c, n, w)

LEMMA NoneLostTwice ==
    ASSUME NEW tables, NEW c, NEW d, NEW e, NoneLost(tables, c, d), NoneLost(tables, d, e)
    PROVE  NoneLost(tables, c, e)
BY DEF NoneLost, SameRow

\* Copying rows out of the cache moves where they have been read to, and no more.
LEMMA CopyLosesNone ==
    ASSUME NEW tables, NEW c, NEW t \in DOMAIN c, NEW keys,
           NEW r \in CachedCopy(tables, c, t, keys)
    PROVE  /\ IsResult(r) /\ NoneLost(tables, c, r.cache)
           /\ r.code < 0 \/ (r.code = 0 /\ r.rows = [k \in keys |-> c[t][k].value])
<1> DEFINE Advanced(s) == [c EXCEPT ![t] =
               [k \in DOMAIN @ |-> IF k \in s THEN ReadOut(@[k].value) ELSE @[k]]]
<1>1. PICK s, n, w : /\ r = Result(tables, Advanced(s), n, w)
                     /\ n = -1 \/ (n = 0 /\ w = [k \in keys |-> c[t][k].value])
  BY DEF CachedCopy
<1>2. r.cache = Advanced(s) /\ r.code = n /\ r.rows = w
  BY <1>1 DEF Result
<1>3. NoneLost(tables, c, Advanced(s))
  <2>1. /\ DOMAIN Advanced(s) = DOMAIN c
        /\ \A u \in DOMAIN c : u # t => Advanced(s)[u] = c[u]
        /\ Advanced(s)[t] = [k \in DOMAIN c[t] |-> IF k \in s THEN ReadOut(c[t][k].value) ELSE c[t][k]]
    OBVIOUS
  <2>2. /\ DOMAIN Advanced(s)[t] = DOMAIN c[t]
        /\ \A k \in DOMAIN c[t] : Advanced(s)[t][k].value = c[t][k].value
    BY <2>1 DEF ReadOut
  <2> HIDE DEF Advanced
  <2> QED
    BY <2>1, <2>2 DEF NoneLost, SameRow, View
<1> HIDE DEF Advanced
<1> QED
  BY <1>1, <1>2, <1>3 DEF IsResult

\* Loading of one table answers, if it does, with what the process reads.
LEMMA LoadTableLosesNone ==
    ASSUME NEW tables, NEW c, NEW t \in DOMAIN c, NEW key \in Keys \cup {0}, NEW link,
           NEW r \in LoadTable(tables, c, t, key, link)
    PROVE  /\ IsResult(r) /\ NoneLost(tables, c, r.cache)
           /\ r.code < 0 \/ (/\ r.code = 0
                             /\ \A k \in DOMAIN r.rows : k \in Keys /\ r.rows[k] = View(tables, c, t, k)
                             /\ key # 0 => key \in DOMAIN r.rows)
<1> DEFINE wanted == IF key = 0 THEN Keys ELSE {key}
           from == FromDb(tables, c, t, wanted, link)
<1>1. NoneLost(tables, c, c)
  BY DEF NoneLost, SameRow
<1>2. NoneLost(tables, c, from) /\ DOMAIN from = DOMAIN c
  <2>1. PICK new : from = [c EXCEPT ![t] = Insert(@, new)] /\ \A k \in DOMAIN new : new[k].value = tables[t][k]
    <3> DEFINE found == {k \in wanted : link = "up" /\ tables[t][k] # None}
               n == [k \in found |-> Unread(tables[t][k])]
    <3>1. from = [c EXCEPT ![t] = Insert(@, n)]
      BY DEF FromDb
    <3>2. \A k \in DOMAIN n : n[k].value = tables[t][k]
      BY DEF Unread
    <3> QED
      BY <3>1, <3>2
  <2> HIDE DEF from
  <2>2. /\ DOMAIN from = DOMAIN c
        /\ \A u \in DOMAIN c : u # t => from[u] = c[u]
        /\ from[t] = Insert(c[t], new)
    BY <2>1
  <2>3. /\ \A k \in DOMAIN c[t] : k \in DOMAIN from[t] /\ from[t][k] = c[t][k]
        /\ \A k \in DOMAIN from[t] : k \notin DOMAIN c[t] => from[t][k].value = tables[t][k]
    BY <2>1, <2>2 DEF Insert
  <2> QED
    BY <2>2, <2>3 DEF NoneLost, SameRow, View
<1> HIDE DEF from
<1>3. PICK now : /\ now = c \/ now = from
                 /\ \/ r = Result(tables, c, -1, NoRows)
                    \/ r = Result(tables, now, -2, NoRows)
                    \/ \E keys : /\ keys = wanted \cap DOMAIN now[t] /\ keys # {}
                                 /\ r \in CachedCopy(tables, now, t, keys)
  BY DEF LoadTable, from
<1>4. NoneLost(tables, c, now) /\ t \in DOMAIN now
  BY <1>1, <1>2, <1>3
<1>5. CASE r = Result(tables, c, -1, NoRows)
  <2>1. r.cache = c /\ r.code = -1
    BY <1>5 DEF Result
  <2>2. IsResult(r)
    BY <1>5 DEF IsResult
  <2> QED
    BY <1>1, <2>1, <2>2
<1>6. CASE r = Result(tables, now, -2, NoRows)
  <2>1. r.cache = now /\ r.code = -2
    BY <1>6 DEF Result
  <2>2. IsResult(r)
    BY <1>6 DEF IsResult
  <2> QED
    BY <1>4, <2>1, <2>2
<1>7. CASE \E keys : /\ keys = wanted \cap DOMAIN now[t] /\ keys # {}
                     /\ r \in CachedCopy(tables, now, t, keys)
  <2>1. PICK keys : /\ keys = wanted \cap DOMAIN now[t] /\ keys # {}
                    /\ r \in CachedCopy(tables, now, t, keys)
    BY <1>7
  <2>2. /\ IsResult(r) /\ NoneLost(tables, now, r.cache)
        /\ r.code < 0 \/ (r.code = 0 /\ r.rows = [k \in keys |-> now[t][k].value])
    BY <1>4, <2>1, CopyLosesNone
  <2>3. NoneLost(tables, c, r.cache)
    BY <1>4, <2>2, NoneLostTwice
  <2>4. ASSUME NEW k \in keys
        PROVE  k \in Keys /\ now[t][k].value = View(tables, c, t, k)
    <3>1. k \in Keys /\ k \in DOMAIN now[t]
      BY <2>1, <2>4, DataAssumption
    <3>2. View(tables, now, t, k) = View(tables, c, t, k)
      BY <1>4, <3>1 DEF NoneLost
    <3>3. View(tables, now, t, k) = now[t][k].value
      BY <3>1 DEF View
    <3> QED
      BY <3>1, <3>2, <3>3
  <2>5. key # 0 => key \in keys
    BY <2>1
  <2> QED
    BY <2>2, <2>3, <2>4, <2>5
<1> QED
  BY <1>3, <1>5, <1>6, <1>7

-----------------------------------------------------------------------------
(***************************************************************************)
(* A collection is loaded by a function of how many of its tables have     *)
(* been: the function exists, and none of its results has lost a row.      *)
(***************************************************************************)
LoadNext(results, tables, t, key, link) ==
    UNION {IF r.code < 0 THEN {r}
           ELSE {[q EXCEPT !.rows = IF q.code < 0 THEN << >> ELSE Append(r.rows, q.rows[key])] :
                    q \in LoadTable(tables, r.cache, t, key, link)} : r \in results}

LoadedBy(f, tables, c, key, link, n) ==
    f = [i \in 0 .. n |-> IF i = 0 THEN {Result(tables, c, 0, << >>)}
                          ELSE LoadNext(f[i - 1], tables, CachedTables[i], key, link)]

LEMMA LoadedByExists ==
    ASSUME NEW tables, NEW c, NEW key, NEW link, NEW n \in Nat
    PROVE  \E f : LoadedBy(f, tables, c, key, link, n)
<1> DEFINE start == {Result(tables, c, 0, << >>)}
           Next(x, i) == LoadNext(x, tables, CachedTables[i], key, link)
           I == {m \in Nat : \E f : LoadedBy(f, tables, c, key, link, m)}
<1>1. 0 \in I
  <2>1. PICK f : f = [i \in 0 .. 0 |-> start]
    OBVIOUS
  <2>2. \A i \in 0 .. 0 : i = 0
    OBVIOUS
  <2>3. f = [i \in 0 .. 0 |-> IF i = 0 THEN start ELSE Next(f[i - 1], i)]
    BY <2>1, <2>2
  <2> QED
    BY <2>3 DEF LoadedBy
<1>2. ASSUME NEW m \in Nat, m \in I
      PROVE  m + 1 \in I
  <2>1. PICK f : f = [i \in 0 .. m |-> IF i = 0 THEN start ELSE Next(f[i - 1], i)]
    BY <1>2 DEF LoadedBy
  <2> HIDE DEF start, Next
  <2>2. PICK g : g = [i \in 0 .. m + 1 |-> IF i = m + 1 THEN Next(f[m], i) ELSE f[i]]
    OBVIOUS
  <2>3. ASSUME NEW i \in 0 .. m + 1
        PROVE  g[i] = IF i = 0 THEN start ELSE Next(g[i - 1], i)
    <3>1. CASE i = 0
      <4>1. 0 \in 0 .. m /\ 0 # m + 1
        OBVIOUS
      <4> QED
        BY <2>1, <2>2, <3>1, <4>1
    <3>2. CASE i # 0 /\ i # m + 1
      <4>1. i \in 0 .. m /\ i - 1 \in 0 .. m + 1 /\ i - 1 # m + 1
        BY <3>2
      <4>2. g[i] = f[i] /\ g[i - 1] = f[i - 1]
        BY <2>2, <3>2, <4>1
      <4>3. f[i] = Next(f[i - 1], i)
        BY <2>1, <3>2, <4>1
      <4> QED
        BY <3>2, <4>2, <4>3
    <3>3. CASE i = m + 1
      <4>1. i - 1 = m /\ m \in 0 .. m + 1 /\ m # m + 1 /\ i # 0
        BY <3>3
      <4>2. g[i] = Next(f[m], i) /\ g[i - 1] = f[m]
        BY <2>2, <3>3, <4>1
      <4> QED
        BY <4>1, <4>2
    <3> QED
      BY <3>1, <3>2, <3>3
  <2>4. g = [i \in 0 .. m + 1 |-> IF i = 0 THEN start ELSE Next(g[i - 1], i)]
    BY <2>2, <2>3
  <2> USE DEF start, Next
  <2>5. LoadedBy(g, tables, c, key, link, m + 1)
    BY <2>4 DEF LoadedBy
  <2> QED
    BY <2>5
<1> HIDE DEF I
<1>3. Nat \subseteq I
  BY <1>1, <1>2, Induction
<1> QED
  BY <1>3 DEF I

LEMMA LoadCollectionIs ==
    ASSUME NEW tables, NEW c, NEW key, NEW link,
           \E f : LoadedBy(f, tables, c, key, link, Len(CachedTables))
    PROVE  \E f : /\ LoadedBy(f, tables, c, key, link, Len(CachedTables))
                  /\ LoadCollection(tables, c, key, link) = f[Len(CachedTables)]
<1> DEFINE g == CHOOSE f : LoadedBy(f, tables, c, key, link, Len(CachedTables))
<1>1. LoadedBy(g, tables, c, key, link, Len(CachedTables))
  OBVIOUS
<1>2. LoadCollection(tables, c, key, link) = g[Len(CachedTables)]
  BY DEF LoadCollection, LoadedBy, LoadNext
<1> QED
  BY <1>1, <1>2

\* So does loading a collection: a row of each of its tables.
LEMMA LoadCollectionLosesNone ==
    ASSUME NEW tables, NEW c, DOMAIN c = TableSet, NEW key \in Keys, NEW link,
           NEW r \in LoadCollection(tables, c, key, link)
    PROVE  /\ NoneLost(tables, c, r.cache)
           /\ r.code < 0 \/ (/\ r.code = 0
                             /\ \A i \in DOMAIN CachedTables :
                                   r.rows[i] = View(tables, c, CachedTables[i], key))
<1>1. Len(CachedTables) \in Nat
  BY DataAssumption, LenProperties
<1>2. PICK n \in Nat : n = Len(CachedTables)
  BY <1>1
<1>3. DOMAIN CachedTables = 1 .. n /\ \A i \in 1 .. n : CachedTables[i] \in TableSet
  BY <1>2, DataAssumption, LenProperties DEF TableSet, Range
<1>4. PICK f : LoadedBy(f, tables, c, key, link, n) /\ LoadCollection(tables, c, key, link) = f[n]
  BY <1>2, LoadedByExists, LoadCollectionIs
<1>5. \A i \in 0 .. n : f[i] = IF i = 0 THEN {Result(tables, c, 0, << >>)}
                               ELSE LoadNext(f[i - 1], tables, CachedTables[i], key, link)
  BY <1>4 DEF LoadedBy
<1> DEFINE Seen == {View(tables, c, t, key) : t \in TableSet}
           Kept(q, m) == /\ IsResult(q) /\ NoneLost(tables, c, q.cache)
                         /\ q.code < 0 \/ (/\ q.code = 0 /\ q.rows \in Seq(Seen) /\ Len(q.rows) = m
                                           /\ \A i \in 1 .. m : q.rows[i] = View(tables, c, CachedTables[i], key))
           I == {m \in Nat : m <= n => \A q \in f[m] : Kept(q, m)}
<1>6. 0 \in I
  <2>1. f[0] = {Result(tables, c, 0, << >>)}
    BY <1>5
  <2>2. Result(tables, c, 0, << >>).cache = c /\ NoneLost(tables, c, c)
    BY DEF Result, NoneLost, SameRow
  <2>3. Result(tables, c, 0, << >>).rows = << >> /\ Result(tables, c, 0, << >>).code = 0
    BY DEF Result
  <2>4. << >> \in Seq(Seen) /\ Len(<< >>) = 0 /\ 1 .. 0 = {}
    OBVIOUS
  <2>5. IsResult(Result(tables, c, 0, << >>))
    BY DEF IsResult
  <2> HIDE DEF Seen
  <2>6. Kept(Result(tables, c, 0, << >>), 0)
    BY <2>2, <2>3, <2>4, <2>5
  <2> HIDE DEF Kept
  <2> QED
    BY <2>1, <2>6
<1>7. ASSUME NEW m \in Nat, m \in I
      PROVE  m + 1 \in I
  <2> HIDE DEF Kept
  <2> SUFFICES ASSUME m + 1 <= n, NEW q \in f[m + 1]
               PROVE  Kept(q, m + 1)
    OBVIOUS
  <2>1. \A s \in f[m] : Kept(s, m)
    BY <1>7
  <2> USE DEF Kept
  <2>2. f[m + 1] = LoadNext(f[m], tables, CachedTables[m + 1], key, link)
    <3>1. m + 1 \in 0 .. n /\ m + 1 # 0 /\ (m + 1) - 1 = m
      OBVIOUS
    <3> QED
      BY <1>5, <3>1
  <2>3. PICK s \in f[m] :
           \/ s.code < 0 /\ q = s
           \/ /\ ~(s.code < 0)
              /\ \E o \in LoadTable(tables, s.cache, CachedTables[m + 1], key, link) :
                 q = [o EXCEPT !.rows = IF o.code < 0 THEN << >> ELSE Append(s.rows, o.rows[key])]
    BY <2>2 DEF LoadNext
  <2>4. CASE s.code < 0 /\ q = s
    BY <2>1, <2>4
  <2>5. ASSUME ~(s.code < 0), NEW o \in LoadTable(tables, s.cache, CachedTables[m + 1], key, link),
               q = [o EXCEPT !.rows = IF o.code < 0 THEN << >> ELSE Append(s.rows, o.rows[key])]
        PROVE  Kept(q, m + 1)
    <3>1. PICK t \in TableSet : t = CachedTables[m + 1]
      <4>1. m + 1 \in 1 .. n
        OBVIOUS
      <4> QED
        BY <1>3, <4>1
    <3>2. NoneLost(tables, c, s.cache) /\ t \in DOMAIN s.cache
      BY <2>1, <3>1 DEF NoneLost
    <3>3. /\ IsResult(o) /\ NoneLost(tables, s.cache, o.cache)
          /\ o.code < 0 \/ (o.code = 0 /\ key \in DOMAIN o.rows /\ o.rows[key] = View(tables, s.cache, t, key))
      <4>1. key \in Keys \cup {0} /\ key # 0 /\ o \in LoadTable(tables, s.cache, t, key, link)
        BY <2>5, <3>1, DataAssumption
      <4>2. /\ IsResult(o) /\ NoneLost(tables, s.cache, o.cache)
            /\ o.code < 0 \/ (/\ o.code = 0
                              /\ \A k \in DOMAIN o.rows : k \in Keys /\ o.rows[k] = View(tables, s.cache, t, k)
                              /\ key # 0 => key \in DOMAIN o.rows)
        BY <3>2, <4>1, LoadTableLosesNone
      <4> QED
        BY <4>1, <4>2
    <3>4. /\ q.cache = o.cache /\ q.code = o.code /\ IsResult(q)
          /\ o.code = 0 => q.rows = Append(s.rows, o.rows[key])
      <4>1. PICK w : w = (IF o.code < 0 THEN << >> ELSE Append(s.rows, o.rows[key]))
        OBVIOUS
      <4>2. q = [o EXCEPT !.rows = w]
        BY <2>5, <4>1
      <4>3. PICK d, e, x, y : o = [db |-> d, cache |-> e, code |-> x, rows |-> y]
        BY <3>3 DEF IsResult, Result
      <4>4. q = [db |-> d, cache |-> e, code |-> x, rows |-> w]
        BY <4>2, <4>3
      <4>5. q.cache = o.cache /\ q.code = o.code /\ q.rows = w /\ IsResult(q)
        BY <4>3, <4>4 DEF IsResult, Result
      <4>6. o.code = 0 => w = Append(s.rows, o.rows[key])
        BY <4>1
      <4> QED
        BY <4>5, <4>6
    <3>5. NoneLost(tables, c, q.cache)
      BY <3>2, <3>3, <3>4, NoneLostTwice
    <3>6. ASSUME o.code = 0
          PROVE  /\ q.rows \in Seq(Seen) /\ Len(q.rows) = m + 1
                 /\ \A i \in 1 .. m + 1 : q.rows[i] = View(tables, c, CachedTables[i], key)
      <4>1. /\ s.rows \in Seq(Seen) /\ Len(s.rows) = m
            /\ \A i \in 1 .. m : s.rows[i] = View(tables, c, CachedTables[i], key)
        BY <2>1, <2>5
      <4>2. PICK w \in Seen : w = o.rows[key] /\ w = View(tables, c, t, key)
        BY <3>2, <3>3, <3>6 DEF NoneLost
      <4> HIDE DEF Seen
      <4>3. q.rows = Append(s.rows, w)
        BY <3>4, <3>6, <4>2
      <4>4. /\ q.rows \in Seq(Seen) /\ Len(q.rows) = m + 1 /\ q.rows[m + 1] = w
            /\ \A i \in 1 .. m : q.rows[i] = s.rows[i]
        BY <4>1, <4>3, AppendProperties
      <4> QED
        BY <3>1, <4>1, <4>2, <4>4
    <3> QED
      BY <3>3, <3>4, <3>5, <3>6
  <2> QED
    BY <2>3, <2>4, <2>5
<1> HIDE DEF I
<1>8. Nat \subseteq I
  BY <1>6, <1>7, Induction
<1>9. n \in I
  BY <1>8
<1> HIDE DEF Kept
<1>10. Kept(r, n)
  BY <1>4, <1>9 DEF I
<1> QED
  BY <1>3, <1>10 DEF Kept

-----------------------------------------------------------------------------
(***************************************************************************)
(* A save, when it succeeds, leaves the value in the database or in the    *)
(* cache, and every other row where it was.                                *)
(***************************************************************************)
SavedAt(tables, c, ts, key, v) ==
    \A t \in ts : View(tables, c, t, key) = v

OthersSame(tables, c, tables2, c2, ts, key) ==
    \A t \in TableSet, k \in Keys :
        (t \notin ts \/ k # key) =>
            /\ tables2[t][k] = tables[t][k] /\ SameRow(c, c2, t, k)
            /\ View(tables2, c2, t, k) = View(tables, c, t, k)

Sized(tables, c) ==
    /\ DOMAIN tables = TableSet /\ \A t \in TableSet : DOMAIN tables[t] = Keys
    /\ DOMAIN c = TableSet

LEMMA SaveRowSaves ==
    ASSUME NEW tables, NEW c, Sized(tables, c), NEW type \in SaveTypes,
           NEW t \in TableSet, NEW key \in Keys, NEW v, NEW link \in {"up", "broken"},
           NEW r, r = SaveRow(tables, c, type, t, key, v, link)
    PROVE  /\ r.code \in {0, Crash}
           /\ Sized(r.db, r.cache)
           /\ OthersSame(tables, c, r.db, r.cache, {t}, key)
           /\ r.code = 0 => SavedAt(r.db, r.cache, {t}, key, v)
<1> DEFINE stored == IF link = "up" THEN [tables EXCEPT ![t][key] = v] ELSE tables
           kept == [c EXCEPT ![t] = PutRow(@, key, Unread(v))]
           cleared == [c EXCEPT ![t] = Erase(@, key)]
           code == CASE link = "up" -> 0 [] link = "broken" -> Crash [] link = "none" -> -1
<1>1. code = IF link = "up" THEN 0 ELSE Crash
  OBVIOUS
<1>2. /\ DOMAIN kept = TableSet
      /\ kept[t] = PutRow(c[t], key, Unread(v))
      /\ \A u \in TableSet : u # t => kept[u] = c[u]
  BY DEF Sized
<1>3. /\ DOMAIN cleared = TableSet
      /\ cleared[t] = Erase(c[t], key)
      /\ \A u \in TableSet : u # t => cleared[u] = c[u]
  BY DEF Sized
<1>4. /\ DOMAIN stored = TableSet /\ \A u \in TableSet : DOMAIN stored[u] = Keys
      /\ \A u \in TableSet, k \in Keys : (u # t \/ k # key) => stored[u][k] = tables[u][k]
      /\ link = "up" => stored[t][key] = v
  BY DEF Sized
<1>5. /\ key \in DOMAIN kept[t] /\ kept[t][key].value = v
      /\ \A k \in DOMAIN c[t] : k # key => k \in DOMAIN kept[t] /\ kept[t][k] = c[t][k]
      /\ DOMAIN kept[t] \subseteq DOMAIN c[t] \cup {key}
  BY <1>2 DEF PutRow, Unread
<1>6. /\ \A k \in DOMAIN c[t] : k # key => k \in DOMAIN cleared[t] /\ cleared[t][k] = c[t][k]
      /\ DOMAIN cleared[t] = DOMAIN c[t] \ {key}
  BY <1>3 DEF Erase, Restrict
<1>7. /\ OthersSame(tables, c, tables, kept, {t}, key)
      /\ OthersSame(tables, c, stored, kept, {t}, key)
      /\ OthersSame(tables, c, stored, cleared, {t}, key)
  <2>1. \A u \in TableSet, k \in Keys : (u \notin {t} \/ k # key) =>
            SameRow(c, kept, u, k) /\ SameRow(c, cleared, u, k)
    BY <1>2, <1>3, <1>5, <1>6 DEF SameRow
  <2>2. \A u \in TableSet, k \in Keys : (u \notin {t} \/ k # key) =>
            /\ k \in DOMAIN kept[u] <=> k \in DOMAIN c[u]
            /\ k \in DOMAIN cleared[u] <=> k \in DOMAIN c[u]
    BY <1>2, <1>3, <1>5, <1>6
  <2> HIDE DEF kept, cleared, stored
  <2>3. ASSUME NEW u \in TableSet, NEW k \in Keys, u \notin {t} \/ k # key,
               NEW d \in {kept, cleared}, NEW q \in {tables, stored}
        PROVE  View(q, d, u, k) = View(tables, c, u, k)
    BY <1>4, <2>1, <2>2, <2>3 DEF View, SameRow
  <2> QED
    BY <1>4, <2>1, <2>3 DEF OthersSame
<1> HIDE DEF stored, kept, cleared
<1>8. /\ type = "SAVE_CACHE" => r = Result(tables, kept, 0, NoRows)
      /\ type = "SAVE_DB_AND_CACHE" => r = Result(stored, kept, code, NoRows)
      /\ type = "SAVE_DB_CLEAR_CACHE" => r = Result(stored, cleared, code, NoRows)
  BY DEF SaveRow, stored, kept, cleared
<1>9. CASE type = "SAVE_CACHE"
  <2>1. r.db = tables /\ r.cache = kept /\ r.code = 0
    BY <1>8, <1>9 DEF Result
  <2> QED
    BY <1>2, <1>5, <1>7, <2>1 DEF Sized, SavedAt, View
<1>10. CASE type = "SAVE_DB_AND_CACHE"
  <2>1. r.db = stored /\ r.cache = kept /\ r.code = code
    BY <1>8, <1>10 DEF Result
  <2> QED
    BY <1>1, <1>2, <1>4, <1>5, <1>7, <2>1 DEF Sized, SavedAt, View
<1>11. CASE type = "SAVE_DB_CLEAR_CACHE"
  <2>1. r.db = stored /\ r.cache = cleared /\ r.code = code
    BY <1>8, <1>11 DEF Result
  <2> QED
    BY <1>1, <1>3, <1>4, <1>6, <1>7, <2>1 DEF Sized, SavedAt, View, Crash
<1> QED
  BY <1>9, <1>10, <1>11 DEF SaveTypes

SaveNext(r, type, t, key, v, link) ==
    IF r.code < 0 THEN r ELSE SaveRow(r.db, r.cache, type, t, key, v, link)

SavedBy(f, tables, c, type, key, v, link, n) ==
    f = [i \in 0 .. n |-> IF i = 0 THEN Result(tables, c, 0, NoRows)
                          ELSE SaveNext(f[i - 1], type, CachedTables[i], key, v, link)]

LEMMA SavedByExists ==
    ASSUME NEW tables, NEW c, NEW type, NEW key, NEW v, NEW link, NEW n \in Nat
    PROVE  \E f : SavedBy(f, tables, c, type, key, v, link, n)
<1> DEFINE start == Result(tables, c, 0, NoRows)
           Next(x, i) == SaveNext(x, type, CachedTables[i], key, v, link)
           I == {m \in Nat : \E f : SavedBy(f, tables, c, type, key, v, link, m)}
<1>1. 0 \in I
  <2>1. PICK f : f = [i \in 0 .. 0 |-> start]
    OBVIOUS
  <2>2. \A i \in 0 .. 0 : i = 0
    OBVIOUS
  <2>3. f = [i \in 0 .. 0 |-> IF i = 0 THEN start ELSE Next(f[i - 1], i)]
    BY <2>1, <2>2
  <2> QED
    BY <2>3 DEF SavedBy
<1>2. ASSUME NEW m \in Nat, m \in I
      PROVE  m + 1 \in I
  <2>1. PICK f : f = [i \in 0 .. m |-> IF i = 0 THEN start ELSE Next(f[i - 1], i)]
    BY <1>2 DEF SavedBy
  <2> HIDE DEF start, Next
  <2>2. PICK g : g = [i \in 0 .. m + 1 |-> IF i = m + 1 THEN Next(f[m], i) ELSE f[i]]
    OBVIOUS
  <2>3. ASSUME NEW i \in 0 .. m + 1
        PROVE  g[i] = IF i = 0 THEN start ELSE Next(g[i - 1], i)
    <3>1. CASE i = 0
      <4>1. 0 \in 0 .. m /\ 0 # m + 1
        OBVIOUS
      <4> QED
        BY <2>1, <2>2, <3>1, <4>1
    <3>2. CASE i # 0 /\ i # m + 1
      <4>1. i \in 0 .. m /\ i - 1 \in 0 .. m + 1 /\ i - 1 # m + 1
        BY <3>2
      <4>2. g[i] = f[i] /\ g[i - 1] = f[i - 1]
        BY <2>2, <3>2, <4>1
      <4>3. f[i] = Next(f[i - 1], i)
        BY <2>1, <3>2, <4>1
      <4> QED
        BY <3>2, <4>2, <4>3
    <3>3. CASE i = m + 1
      <4>1. i - 1 = m /\ m \in 0 .. m + 1 /\ m # m + 1 /\ i # 0
        BY <3>3
      <4>2. g[i] = Next(f[m], i) /\ g[i - 1] = f[m]
        BY <2>2, <3>3, <4>1
      <4> QED
        BY <4>1, <4>2
    <3> QED
      BY <3>1, <3>2, <3>3
  <2>4. g = [i \in 0 .. m + 1 |-> IF i = 0 THEN start ELSE Next(g[i - 1], i)]
    BY <2>2, <2>3
  <2> USE DEF start, Next
  <2>5. SavedBy(g, tables, c, type, key, v, link, m + 1)
    BY <2>4 DEF SavedBy
  <2> QED
    BY <2>5
<1> HIDE DEF I
<1>3. Nat \subseteq I
  BY <1>1, <1>2, Induction
<1> QED
  BY <1>3 DEF I

LEMMA SaveCollectionIs ==
    ASSUME NEW tables, NEW c, NEW type, NEW key, NEW v, NEW link,
           \E f : SavedBy(f, tables, c, type, key, v, link, Len(CachedTables))
    PROVE  \E f : /\ SavedBy(f, tables, c, type, key, v, link, Len(CachedTables))
                  /\ SaveCollection(tables, c, type, key, v, link) = f[Len(CachedTables)]
<1> DEFINE g == CHOOSE f : SavedBy(f, tables, c, type, key, v, link, Len(CachedTables))
<1>1. SavedBy(g, tables, c, type, key, v, link, Len(CachedTables))
  OBVIOUS
<1>2. SaveCollection(tables, c, type, key, v, link) = g[Len(CachedTables)]
  BY DEF SaveCollection, SavedBy, SaveNext
<1> QED
  BY <1>1, <1>2

\* What has been saved stays saved when the same value is saved to one table more.
LEMMA SavedTwice ==
    ASSUME NEW tables, NEW c, NEW tables2, NEW c2, NEW tables3, NEW c3,
           NEW ts \in SUBSET TableSet, NEW t \in TableSet, NEW key \in Keys, NEW v,
           OthersSame(tables, c, tables2, c2, ts, key),
           SavedAt(tables2, c2, ts, key, v),
           OthersSame(tables2, c2, tables3, c3, {t}, key),
           SavedAt(tables3, c3, {t}, key, v)
    PROVE  /\ OthersSame(tables, c, tables3, c3, ts \cup {t}, key)
           /\ SavedAt(tables3, c3, ts \cup {t}, key, v)
<1>1. OthersSame(tables, c, tables3, c3, ts \cup {t}, key)
  BY DEF OthersSame, SameRow
<1>2. SavedAt(tables3, c3, ts \cup {t}, key, v)
  BY DEF OthersSame, SavedAt
<1> QED
  BY <1>1, <1>2

\* A collection is saved in every table, or the process is gone.
LEMMA SaveCollectionSaves ==
    ASSUME NEW tables, NEW c, Sized(tables, c), NEW type \in SaveTypes,
           NEW key \in Keys, NEW v, NEW link \in {"up", "broken"},
           NEW r, r = SaveCollection(tables, c, type, key, v, link)
    PROVE  /\ r.code \in {0, Crash}
           /\ Sized(r.db, r.cache)
           /\ r.code = 0 => /\ OthersSame(tables, c, r.db, r.cache, TableSet, key)
                            /\ SavedAt(r.db, r.cache, TableSet, key, v)
<1>1. PICK n \in Nat : n = Len(CachedTables)
  BY DataAssumption, LenProperties
<1> DEFINE Done(m) == {CachedTables[i] : i \in 1 .. m}
<1>2. Done(n) = TableSet /\ \A i \in 1 .. n : CachedTables[i] \in TableSet
  <2>1. DOMAIN CachedTables = 1 .. n
    BY <1>1, DataAssumption, LenProperties
  <2> QED
    BY <2>1 DEF TableSet, Range
<1>3. PICK f : /\ SavedBy(f, tables, c, type, key, v, link, n)
               /\ r = f[n]
  BY <1>1, SavedByExists, SaveCollectionIs
<1>4. \A i \in 0 .. n : f[i] = IF i = 0 THEN Result(tables, c, 0, NoRows)
                               ELSE SaveNext(f[i - 1], type, CachedTables[i], key, v, link)
  BY <1>3 DEF SavedBy
<1> DEFINE Good(q, m) == /\ q.code \in {0, Crash}
                         /\ Sized(q.db, q.cache)
                         /\ q.code = 0 => /\ OthersSame(tables, c, q.db, q.cache, Done(m), key)
                                          /\ SavedAt(q.db, q.cache, Done(m), key, v)
           I == {m \in Nat : m <= n => Good(f[m], m)}
<1>5. 0 \in I
  <2>1. f[0] = Result(tables, c, 0, NoRows)
    BY <1>4
  <2>2. f[0].db = tables /\ f[0].cache = c /\ f[0].code = 0
    BY <2>1 DEF Result
  <2>3. OthersSame(tables, c, tables, c, Done(0), key)
    BY DEF OthersSame, SameRow
  <2>4. Done(0) = {}
    OBVIOUS
  <2>5. SavedAt(tables, c, Done(0), key, v)
    BY <2>4 DEF SavedAt
  <2> QED
    BY <2>2, <2>3, <2>5
<1>6. ASSUME NEW m \in Nat, m \in I
      PROVE  m + 1 \in I
  <2> SUFFICES ASSUME m + 1 <= n
               PROVE  Good(f[m + 1], m + 1)
    OBVIOUS
  <2>1. Good(f[m], m)
    BY <1>6
  <2>2. f[m + 1] = SaveNext(f[m], type, CachedTables[m + 1], key, v, link)
    <3>1. m + 1 \in 0 .. n /\ m + 1 # 0 /\ (m + 1) - 1 = m
      OBVIOUS
    <3> QED
      BY <1>4, <3>1
  <2>3. PICK t \in TableSet : t = CachedTables[m + 1]
    <3>1. m + 1 \in 1 .. n
      OBVIOUS
    <3> QED
      BY <1>2, <3>1
  <2>4. Done(m + 1) = Done(m) \cup {t} /\ Done(m) \in SUBSET TableSet
    <3>1. 1 .. (m + 1) = (1 .. m) \cup {m + 1} /\ 1 .. m \subseteq 1 .. n
      OBVIOUS
    <3> QED
      BY <1>2, <2>3, <3>1
  <2> HIDE DEF Done
  <2>5. CASE f[m].code = Crash
    <3>1. f[m + 1] = f[m]
      BY <2>2, <2>5 DEF SaveNext, Crash
    <3> QED
      BY <2>1, <2>5, <3>1 DEF Crash
  <2>6. CASE f[m].code = 0
    <3>1. f[m + 1] = SaveRow(f[m].db, f[m].cache, type, t, key, v, link)
      BY <2>2, <2>3, <2>6 DEF SaveNext
    <3> DEFINE q == f[m + 1]
    <3>2. /\ q.code \in {0, Crash}
          /\ Sized(q.db, q.cache)
          /\ OthersSame(f[m].db, f[m].cache, q.db, q.cache, {t}, key)
          /\ q.code = 0 => SavedAt(q.db, q.cache, {t}, key, v)
      <4>1. q = SaveRow(f[m].db, f[m].cache, type, t, key, v, link)
        BY <3>1
      <4>2. Sized(f[m].db, f[m].cache)
        BY <2>1
      <4> HIDE DEF q
      <4> QED
        BY <4>1, <4>2, SaveRowSaves
    <3>3. ASSUME q.code = 0
          PROVE  /\ OthersSame(tables, c, q.db, q.cache, Done(m + 1), key)
                 /\ SavedAt(q.db, q.cache, Done(m + 1), key, v)
      BY <2>1, <2>4, <2>6, <3>2, <3>3, SavedTwice
    <3> QED
      BY <3>2, <3>3
  <2> QED
    BY <2>1, <2>5, <2>6
<1> HIDE DEF I, Good
<1>7. Nat \subseteq I
  BY <1>5, <1>6, Induction
<1>8. Good(r, n)
  BY <1>3, <1>7 DEF I
<1> QED
  BY <1>2, <1>8 DEF Good

-----------------------------------------------------------------------------
(***************************************************************************)
(* Serving a request keeps what was saved.                                 *)
(***************************************************************************)
Found(tables, caches, noted, t, k) ==
    \/ tables[t][k] \in noted[t][k]
    \/ \E p \in Processes : k \in DOMAIN caches[p][t] /\ caches[p][t][k].value \in noted[t][k]

AllFound(tables, caches, noted) == \A t \in TableSet, k \in Keys : Found(tables, caches, noted, t, k)

\* What a process reads is what was saved last.
AllFresh(tables, c, noted) == \A t \in TableSet, k \in Keys : View(tables, c, t, k) \in noted[t][k]

\* Requests as they are passed on: the connector answers to the server.
Passed == {[m EXCEPT !.cid = 0] : m \in Requests}

keptIInv ==
    /\ DOMAIN cache = Processes
    /\ \A p \in Processes : Sized(db, cache[p])
    /\ DOMAIN latest = TableSet /\ \A t \in TableSet : DOMAIN latest[t] = Keys
    /\ gone \subseteq Processes
    /\ inbox \in [Range(Connectors) -> Seq(Passed)]
    /\ connector_list \in Seq(Range(Connectors))
    /\ gone = {} => AllFound(db, cache, latest)
    /\ connector_list = << >> => gone \subseteq {Server}
    /\ connector_list = << >> /\ gone = {} => AllFresh(db, cache[Server], latest)

RowsKept == UNCHANGED <<db, cache, latest, gone>>

\* What the proof needs of a request.
Fit(m) ==
    /\ m.op \in {"load", "load_table", "save", "delete"} => m.table \in TableSet
    /\ m.op \in {"load", "load_all", "save", "save_all", "delete"} => m.key \in Keys
    /\ m.op = "load_table" => m.key = 0
    /\ m.op \in {"save", "save_all"} => m.type \in SaveTypes

\* Every request comes with a table, a key and a type its operation takes.
LEMMA RequestsFit ==
    ASSUME NEW r \in Requests
    PROVE  Fit(r) /\ Fit([r EXCEPT !.cid = 0])
<1>1. PICK op \in Operations :
         r \in [op : {op}, sid : SessionIds, cid : Servers, type : IF op \in {"save", "save_all"} THEN SaveTypes ELSE {"none"},
                table : IF op \in {"load", "load_table", "save", "delete", "select"} THEN TableSet ELSE {"none"},
                key : IF op \in {"load_table", "generate"} THEN {0} ELSE Keys,
                value : IF op \in {"save", "save_all", "save_runtime"} THEN Values ELSE {None}]
  BY DEF Requests
<1>2. /\ r.op = op
      /\ op \in {"load", "load_table", "save", "delete"} => r.table \in TableSet
      /\ op \in {"load", "load_all", "save", "save_all", "delete"} => r.key \in Keys
      /\ op = "load_table" => r.key = 0
      /\ op \in {"save", "save_all"} => r.type \in SaveTypes
  BY <1>1
<1>3. PICK m : m = [r EXCEPT !.cid = 0]
  OBVIOUS
<1>4. m.op = r.op /\ m.table = r.table /\ m.key = r.key /\ m.type = r.type
  BY <1>1, <1>3
<1> QED
  BY <1>2, <1>3, <1>4 DEF Fit

\* One process changes one row, or none: the others are found where they were.
LEMMA FoundStays ==
    ASSUME NEW p \in Processes, NEW tables, NEW c, NEW caches, NEW noted,
           NEW t \in TableSet, NEW k \in Keys,
           \A q \in Processes : caches[q] = IF q = p THEN c ELSE cache[q],
           tables[t][k] = db[t][k], SameRow(cache[p], c, t, k),
           noted[t][k] = latest[t][k],
           Found(db, cache, latest, t, k)
    PROVE  Found(tables, caches, noted, t, k)
<1>1. CASE db[t][k] \in latest[t][k]
  BY <1>1 DEF Found
<1>2. CASE \E q \in Processes : k \in DOMAIN cache[q][t] /\ cache[q][t][k].value \in latest[t][k]
  <2>1. PICK q \in Processes : k \in DOMAIN cache[q][t] /\ cache[q][t][k].value \in latest[t][k]
    BY <1>2
  <2>2. caches[q] = IF q = p THEN c ELSE cache[q]
    OBVIOUS
  <2>3. k \in DOMAIN caches[q][t] /\ caches[q][t][k].value = cache[q][t][k].value
    BY <2>1, <2>2 DEF SameRow
  <2> QED
    BY <2>1, <2>3 DEF Found
<1> QED
  BY <1>1, <1>2 DEF Found

\* What p leaves when it has served a request.
RowsGood(p) ==
    /\ DOMAIN cache' = Processes /\ \A q \in Processes : Sized(db', cache'[q])
    /\ DOMAIN latest' = TableSet /\ \A t \in TableSet : DOMAIN latest'[t] = Keys
    /\ gone' \subseteq gone \cup {p}
    /\ gone' = {} => AllFound(db', cache', latest')
    /\ (p = Server /\ gone' = {} /\ AllFresh(db, cache[p], latest)) => AllFresh(db', cache'[p], latest')

\* A load changes nothing that is read, there or elsewhere.
LEMMA LoadKeeps ==
    ASSUME keptIInv, NEW p \in Processes \ gone, NEW m, Fit(m),
           m.op \in {"load", "load_table", "load_all"}, NEW link,
           load_db_data(p, m, link)
    PROVE  RowsGood(p)
<1>1. PICK r \in (IF m.op = "load_all" THEN LoadCollection(db, cache[p], m.key, link)
                                       ELSE LoadTable(db, cache[p], m.table, m.key, link)) :
         cache' = [cache EXCEPT ![p] = r.cache]
  BY DEF load_db_data
<1>2. db' = db /\ latest' = latest /\ gone' = gone
  BY DEF load_db_data
<1>3. DOMAIN cache[p] = TableSet
  BY DEF keptIInv, Sized
<1>4. NoneLost(db, cache[p], r.cache)
  <2>1. CASE m.op = "load_all"
    BY <1>1, <1>3, <2>1, LoadCollectionLosesNone DEF Fit
  <2>2. CASE m.op # "load_all"
    <3>1. m.table \in DOMAIN cache[p] /\ m.key \in Keys \cup {0}
      BY <1>3, <2>2 DEF Fit
    <3>2. r \in LoadTable(db, cache[p], m.table, m.key, link)
      BY <1>1, <2>2
    <3> QED
      BY <3>1, <3>2, LoadTableLosesNone
  <2> QED
    BY <2>1, <2>2
<1>5. DOMAIN cache' = Processes /\ \A q \in Processes : cache'[q] = IF q = p THEN r.cache ELSE cache[q]
  BY <1>1 DEF keptIInv
<1>6. \A q \in Processes : Sized(db', cache'[q])
  BY <1>2, <1>4, <1>5 DEF keptIInv, Sized, NoneLost
<1>7. ASSUME gone = {}, NEW t \in TableSet, NEW k \in Keys
      PROVE  Found(db', cache', latest', t, k)
  <2>1. Found(db, cache, latest, t, k)
    BY <1>7 DEF keptIInv, AllFound
  <2>2. DOMAIN cache = Processes /\ p \in Processes
    BY DEF keptIInv
  <2>3. SameRow(cache[p], r.cache, t, k)
    BY <1>3, <1>4 DEF NoneLost
  <2>4. Found(db, cache', latest, t, k)
    BY <1>5, <2>1, <2>2, <2>3, FoundStays
  <2> QED
    BY <1>2, <2>4
<1>8. ASSUME AllFresh(db, cache[p], latest)
      PROVE  AllFresh(db', cache'[p], latest')
  BY <1>2, <1>3, <1>4, <1>5, <1>8 DEF AllFresh, NoneLost
<1>9. DOMAIN latest' = TableSet /\ \A t \in TableSet : DOMAIN latest'[t] = Keys
  BY <1>2 DEF keptIInv
<1> QED
  BY <1>2, <1>5, <1>6, <1>7, <1>8, <1>9 DEF AllFound, RowsGood

\* A save leaves its value to be found, and every other row as it was.
LEMMA SaveKeeps ==
    ASSUME keptIInv, NEW p \in Processes \ gone, NEW m, Fit(m),
           m.op \in {"save", "save_all"}, NEW link \in {"up", "broken"},
           save_db_data(p, m, link)
    PROVE  RowsGood(p)
<1> DEFINE ts == IF m.op = "save_all" THEN TableSet ELSE {m.table}
<1>1. PICK r : /\ r = IF m.op = "save_all"
                      THEN SaveCollection(db, cache[p], m.type, m.key, m.value, link)
                      ELSE SaveRow(db, cache[p], m.type, m.table, m.key, m.value, link)
               /\ db' = r.db /\ cache' = [cache EXCEPT ![p] = r.cache]
               /\ latest' = Noted(m, r.code)
               /\ gone' = IF r.code = Crash THEN gone \cup {p} ELSE gone
  BY DEF save_db_data
<1>2. Sized(db, cache[p]) /\ m.key \in Keys /\ m.type \in SaveTypes /\ ts \in SUBSET TableSet
  BY DEF keptIInv, Fit
<1>3. /\ r.code \in {0, Crash}
      /\ Sized(r.db, r.cache)
      /\ r.code = 0 => /\ OthersSame(db, cache[p], r.db, r.cache, ts, m.key)
                       /\ SavedAt(r.db, r.cache, ts, m.key, m.value)
  <2>1. CASE m.op = "save_all"
    BY <1>1, <1>2, <2>1, SaveCollectionSaves
  <2>2. CASE m.op # "save_all"
    <3>1. m.table \in TableSet
      BY <2>2 DEF Fit
    <3>2. r = SaveRow(db, cache[p], m.type, m.table, m.key, m.value, link)
      BY <1>1, <2>2
    <3>3. ts = {m.table}
      BY <2>2
    <3> HIDE DEF ts
    <3>4. /\ r.code \in {0, Crash}
          /\ Sized(r.db, r.cache)
          /\ OthersSame(db, cache[p], r.db, r.cache, {m.table}, m.key)
          /\ r.code = 0 => SavedAt(r.db, r.cache, {m.table}, m.key, m.value)
      BY <1>2, <3>1, <3>2, SaveRowSaves
    <3> QED
      BY <3>3, <3>4
  <2> QED
    BY <2>1, <2>2
<1>4. DOMAIN cache' = Processes /\ \A q \in Processes : cache'[q] = IF q = p THEN r.cache ELSE cache[q]
  BY <1>1 DEF keptIInv
<1>5. \A q \in Processes : Sized(db', cache'[q])
  BY <1>1, <1>3, <1>4 DEF keptIInv, Sized
<1>6. /\ DOMAIN latest' = TableSet /\ \A t \in TableSet : DOMAIN latest'[t] = Keys
      /\ \A t \in TableSet, k \in Keys : (t \notin ts \/ k # m.key) => latest'[t][k] = latest[t][k]
      /\ \A t \in ts : m.value \in latest'[t][m.key]
  BY <1>1, <1>2 DEF Noted, keptIInv
<1>7. gone' \subseteq gone \cup {p}
  BY <1>1
<1> HIDE DEF ts
<1>8. ASSUME gone' = {}, NEW t \in TableSet, NEW k \in Keys
      PROVE  Found(db', cache', latest', t, k)
  <2>1. gone = {} /\ r.code = 0
    BY <1>1, <1>3, <1>8
  <2>2. CASE t \in ts /\ k = m.key
    <3>1. db'[t][k] = m.value \/ (k \in DOMAIN cache'[p][t] /\ cache'[p][t][k].value = m.value)
      BY <1>1, <1>3, <1>4, <2>1, <2>2 DEF SavedAt, View
    <3>2. m.value \in latest'[t][k]
      BY <1>6, <2>2
    <3> QED
      BY <3>1, <3>2 DEF Found
  <2>3. CASE t \notin ts \/ k # m.key
    <3>1. Found(db, cache, latest, t, k)
      BY <2>1 DEF keptIInv, AllFound
    <3>2. r.db[t][k] = db[t][k] /\ SameRow(cache[p], r.cache, t, k)
      BY <1>3, <2>1, <2>3 DEF OthersSame
    <3>3. PICK noted, caches, tables : noted = latest' /\ caches = cache' /\ tables = db'
      OBVIOUS
    <3>4. noted[t][k] = latest[t][k]
      BY <1>6, <2>3, <3>3
    <3>5. p \in Processes /\ \A q \in Processes : caches[q] = IF q = p THEN r.cache ELSE cache[q]
      BY <1>4, <3>3
    <3>6. Found(r.db, caches, noted, t, k)
      BY <3>1, <3>2, <3>4, <3>5, FoundStays
    <3> QED
      BY <1>1, <3>3, <3>6
  <2> QED
    BY <2>2, <2>3
<1>9. ASSUME gone' = {}, AllFresh(db, cache[p], latest), NEW t \in TableSet, NEW k \in Keys
      PROVE  View(db', cache'[p], t, k) \in latest'[t][k]
  <2>1. r.code = 0 /\ cache'[p] = r.cache /\ db' = r.db
    BY <1>1, <1>3, <1>4, <1>9
  <2>2. CASE t \in ts /\ k = m.key
    BY <1>3, <1>6, <2>1, <2>2 DEF SavedAt
  <2>3. CASE t \notin ts \/ k # m.key
    <3>1. View(r.db, r.cache, t, k) = View(db, cache[p], t, k)
      BY <1>3, <2>1, <2>3 DEF OthersSame
    <3> QED
      BY <1>6, <1>9, <2>1, <2>3, <3>1 DEF AllFresh
  <2> QED
    BY <2>2, <2>3
<1> QED
  BY <1>4, <1>5, <1>6, <1>7, <1>8, <1>9 DEF RowsGood, AllFound, AllFresh

\* A delete leaves no row, in the database or in the cache that served it.
LEMMA DeleteKeeps ==
    ASSUME keptIInv, NEW p \in Processes \ gone, NEW m, Fit(m), m.op = "delete", NEW link,
           delete_db_data(p, m, link)
    PROVE  RowsGood(p)
<1>1. PICK r : /\ r = DeleteRow(db, cache[p], m.table, m.key, link)
               /\ db' = r.db /\ cache' = [cache EXCEPT ![p] = r.cache]
               /\ latest' = IF r.code < 0 THEN latest ELSE [latest EXCEPT ![m.table][m.key] = {None}]
               /\ gone' = gone
  BY DEF delete_db_data
<1>2. Sized(db, cache[p]) /\ m.key \in Keys /\ m.table \in TableSet
  BY DEF keptIInv, Fit
<1>3. DOMAIN cache' = Processes /\ \A q \in Processes : cache'[q] = IF q = p THEN r.cache ELSE cache[q]
  BY <1>1 DEF keptIInv
<1>4. CASE link # "up"
  <2>1. r.db = db /\ r.cache = cache[p] /\ r.code = -1
    BY <1>1, <1>4 DEF DeleteRow, Result
  <2>2. db' = db /\ latest' = latest
    BY <1>1, <2>1
  <2>3. \A q \in Processes : cache'[q] = cache[q]
    BY <1>3, <2>1
  <2>4. gone = {} => AllFound(db', cache', latest')
    BY <2>2, <2>3 DEF keptIInv, AllFound, Found
  <2>5. AllFresh(db, cache[p], latest) => AllFresh(db', cache'[p], latest')
    BY <2>2, <2>3
  <2> QED
    BY <1>1, <1>3, <2>2, <2>3, <2>4, <2>5 DEF keptIInv, RowsGood
<1>5. CASE link = "up"
  <2>1. /\ r.db = [db EXCEPT ![m.table][m.key] = None]
        /\ r.cache = [cache[p] EXCEPT ![m.table] = Erase(@, m.key)] /\ r.code = 0
    BY <1>1, <1>5 DEF DeleteRow, Result
  <2>2. /\ DOMAIN db' = TableSet /\ \A t \in TableSet : DOMAIN db'[t] = Keys
        /\ db'[m.table][m.key] = None
        /\ \A t \in TableSet, k \in Keys : (t # m.table \/ k # m.key) => db'[t][k] = db[t][k]
    BY <1>1, <1>2, <2>1 DEF Sized
  <2>3. /\ DOMAIN r.cache = TableSet
        /\ r.cache[m.table] = Erase(cache[p][m.table], m.key)
        /\ \A t \in TableSet : t # m.table => r.cache[t] = cache[p][t]
    BY <1>2, <2>1 DEF Sized
  <2>4. \A q \in Processes : Sized(db', cache'[q])
    BY <1>3, <2>2, <2>3 DEF keptIInv, Sized
  <2>5. latest' = [latest EXCEPT ![m.table][m.key] = {None}]
    BY <1>1, <2>1
  <2>6. /\ DOMAIN latest' = TableSet /\ \A t \in TableSet : DOMAIN latest'[t] = Keys
        /\ \A t \in TableSet, k \in Keys : (t # m.table \/ k # m.key) => latest'[t][k] = latest[t][k]
        /\ latest'[m.table][m.key] = {None}
    BY <1>2, <2>5 DEF keptIInv
  <2>7. OthersSame(db, cache[p], db', r.cache, {m.table}, m.key)
    <3>1. \A t \in TableSet, k \in Keys : (t # m.table \/ k # m.key) =>
             /\ k \in DOMAIN r.cache[t] <=> k \in DOMAIN cache[p][t]
             /\ k \in DOMAIN cache[p][t] => r.cache[t][k] = cache[p][t][k]
      BY <2>3 DEF Erase, Restrict
    <3> QED
      BY <2>2, <3>1 DEF OthersSame, SameRow, View
  <2>8. ASSUME gone' = {}, NEW t \in TableSet, NEW k \in Keys
        PROVE  Found(db', cache', latest', t, k)
    <3>1. CASE t = m.table /\ k = m.key
      BY <2>2, <2>6, <3>1 DEF Found
    <3>2. CASE t \notin {m.table} \/ k # m.key
      <4>1. Found(db, cache, latest, t, k)
        BY <1>1, <2>8 DEF keptIInv, AllFound
      <4>2. PICK noted, caches, tables : noted = latest' /\ caches = cache' /\ tables = db'
        OBVIOUS
      <4>3. noted[t][k] = latest[t][k]
        BY <2>6, <3>2, <4>2
      <4>4. p \in Processes /\ \A q \in Processes : caches[q] = IF q = p THEN r.cache ELSE cache[q]
        BY <1>3, <4>2
      <4>5. tables[t][k] = db[t][k] /\ SameRow(cache[p], r.cache, t, k)
        BY <2>7, <3>2, <4>2 DEF OthersSame
      <4>6. Found(tables, caches, noted, t, k)
        BY <4>1, <4>3, <4>4, <4>5, FoundStays
      <4> QED
        BY <4>2, <4>6
    <3> QED
      BY <3>1, <3>2
  <2>9. ASSUME AllFresh(db, cache[p], latest), NEW t \in TableSet, NEW k \in Keys
        PROVE  View(db', cache'[p], t, k) \in latest'[t][k]
    <3>1. cache'[p] = r.cache
      BY <1>3
    <3>2. CASE t = m.table /\ k = m.key
      BY <2>2, <2>3, <2>6, <3>1, <3>2 DEF View, Erase, Restrict
    <3>3. CASE t # m.table \/ k # m.key
      <4>1. View(db', r.cache, t, k) = View(db, cache[p], t, k)
        BY <2>7, <3>3 DEF OthersSame
      <4> QED
        BY <2>6, <2>9, <3>1, <3>3, <4>1 DEF AllFresh
    <3> QED
      BY <3>2, <3>3
  <2> QED
    BY <1>1, <1>3, <2>4, <2>6, <2>8, <2>9 DEF RowsGood, AllFound, AllFresh, keptIInv
<1> QED
  BY <1>4, <1>5

LEMMA ServeKeeps ==
    ASSUME "none" \notin LinkStates, keptIInv, NEW p \in Processes \ gone, NEW m, Fit(m),
           NEW link \in LinkStates, Serve(p, m, link)
    PROVE  RowsGood(p)
<1>1. link \in {"up", "broken"}
  BY DataServerAssumption DEF Links
<1>2. CASE m.op \in {"load", "load_table", "load_all"} /\ load_db_data(p, m, link)
  BY <1>2, LoadKeeps
<1>3. CASE m.op \in {"save", "save_all"} /\ save_db_data(p, m, link)
  BY <1>1, <1>3, SaveKeeps
<1>4. CASE m.op = "delete" /\ delete_db_data(p, m, link)
  BY <1>4, DeleteKeeps
<1>5. CASE RowsKept
  BY <1>5 DEF RowsKept, RowsGood, keptIInv
<1>6. CASE select_db_data(p, m, link)
  BY <1>5, <1>6 DEF select_db_data, rows_vars, RowsKept
<1>7. CASE generate_id(p, m)
  BY <1>5, <1>7 DEF generate_id, RowsKept
<1>8. CASE load_runtime_data(p, m) \/ save_runtime_data(p, m) \/ delete_runtime_data(p, m)
  BY <1>5, <1>8 DEF load_runtime_data, save_runtime_data, delete_runtime_data, RowsKept
<1> QED
  BY <1>2, <1>3, <1>4, <1>6, <1>7, <1>8 DEF Serve

-----------------------------------------------------------------------------
(***************************************************************************)
(* The steps of the data server and its connectors.                        *)
(***************************************************************************)
LEMMA ServerIsProcess == Server \in Processes /\ Range(Connectors) \subseteq Processes
BY DEF Processes

LEMMA ConnectorsAre ==
    ASSUME connector_list \in Seq(Range(Connectors)), NEW c \in Range(connector_list)
    PROVE  c \in Range(Connectors)
BY DEF Range

LEMMA RequestKeeps ==
    ASSUME "none" \notin LinkStates, keptIInv, ServerRequest
    PROVE  keptIInv'
<1>1. connector_list' = connector_list /\ Server \in Processes \ gone
  BY ServerIsProcess DEF ServerRequest
<1>2. PICK m \in Requests :
         \/ /\ \E c \in Range(connector_list) : inbox' = [inbox EXCEPT ![c] = Append(@, [m EXCEPT !.cid = 0])]
            /\ UNCHANGED rows_vars
         \/ /\ \E link \in LinkStates : Serve(Server, m, link)
            /\ UNCHANGED inbox
  BY DEF ServerRequest
<1>3. PICK r : r = [m EXCEPT !.cid = 0]
  OBVIOUS
<1>4. Fit(m) /\ r \in Passed
  BY <1>3, RequestsFit DEF Passed
<1>5. CASE /\ \E c \in Range(connector_list) : inbox' = [inbox EXCEPT ![c] = Append(@, [m EXCEPT !.cid = 0])]
           /\ UNCHANGED rows_vars
  <2>1. PICK c \in Range(connector_list) : inbox' = [inbox EXCEPT ![c] = Append(@, r)]
    BY <1>3, <1>5
  <2>2. c \in Range(Connectors)
    BY <2>1, ConnectorsAre DEF keptIInv
  <2>3. Append(inbox[c], r) \in Seq(Passed)
    BY <1>4, <2>2, AppendProperties DEF keptIInv
  <2>4. inbox' \in [Range(Connectors) -> Seq(Passed)]
    BY <2>1, <2>2, <2>3 DEF keptIInv
  <2> QED
    BY <1>1, <1>5, <2>4 DEF keptIInv, rows_vars
<1>6. CASE /\ \E link \in LinkStates : Serve(Server, m, link)
           /\ UNCHANGED inbox
  <2>1. RowsGood(Server)
    BY <1>1, <1>4, <1>6, ServeKeeps
  <2> QED
    BY <1>1, <1>6, <2>1, ServerIsProcess DEF RowsGood, keptIInv
<1> QED
  BY <1>2, <1>5, <1>6

LEMMA ConnectorServesKeeps ==
    ASSUME "none" \notin LinkStates, keptIInv, ConnectorServes
    PROVE  keptIInv'
<1>1. connector_list' = connector_list
  BY DEF ConnectorServes, fork_vars
<1>2. PICK c \in Range(connector_list) \ gone :
         /\ inbox[c] # << >>
         /\ inbox' = [inbox EXCEPT ![c] = Tail(@)]
         /\ UNCHANGED rows_vars \/ \E link \in LinkStates : Serve(c, Head(inbox[c]), link)
  BY DEF ConnectorServes
<1>3. c \in Range(Connectors) /\ c \in Processes \ gone
  BY <1>2, ConnectorsAre, ServerIsProcess DEF keptIInv
<1>4. Head(inbox[c]) \in Passed /\ Tail(inbox[c]) \in Seq(Passed)
  BY <1>2, <1>3, HeadTailProperties DEF keptIInv
<1>5. inbox' \in [Range(Connectors) -> Seq(Passed)]
  BY <1>2, <1>3, <1>4 DEF keptIInv
<1>6. Fit(Head(inbox[c]))
  BY <1>4, RequestsFit DEF Passed
<1>7. connector_list # << >>
  BY <1>2 DEF Range
<1>8. CASE UNCHANGED rows_vars
  BY <1>1, <1>5, <1>8 DEF keptIInv, rows_vars
<1>9. CASE \E link \in LinkStates : Serve(c, Head(inbox[c]), link)
  <2>1. RowsGood(c)
    BY <1>3, <1>6, <1>9, ServeKeeps
  <2> QED
    BY <1>1, <1>3, <1>5, <1>7, <2>1 DEF RowsGood, keptIInv
<1> QED
  BY <1>2, <1>8, <1>9

\* After a restart the database says what a load may find.
LEMMA RestartKeeps ==
    ASSUME keptIInv, Restart
    PROVE  keptIInv'
<1>1. /\ gone' = {} /\ db' = db
      /\ cache' = [cache EXCEPT ![Server] = EmptyCache]
      /\ latest' = [t \in TableSet |-> [k \in Keys |-> {db[t][k]}]]
      /\ UNCHANGED <<connector_list, inbox>>
  BY DEF Restart
<1>2. DOMAIN cache' = Processes /\ \A q \in Processes : Sized(db', cache'[q])
  BY <1>1 DEF keptIInv, Sized, EmptyCache
<1>3. \A t \in TableSet, k \in Keys : db'[t][k] \in latest'[t][k]
  BY <1>1
<1>4. DOMAIN latest' = TableSet /\ \A t \in TableSet : DOMAIN latest'[t] = Keys
  BY <1>1
<1>5. AllFound(db', cache', latest')
  BY <1>3 DEF AllFound, Found
<1>6. AllFresh(db', cache'[Server], latest')
  <2>1. cache'[Server] = EmptyCache
    BY <1>1, ServerIsProcess DEF keptIInv
  <2>2. \A t \in TableSet, k \in Keys : View(db', EmptyCache, t, k) = db'[t][k]
    BY DEF View, EmptyCache, NoRows
  <2> QED
    BY <1>3, <2>1, <2>2 DEF AllFresh
<1> QED
  BY <1>1, <1>2, <1>4, <1>5, <1>6 DEF keptIInv

LEMMA RestKeeps ==
    ASSUME keptIInv, NodeInfo \/ PassBack \/ Tick \/ UNCHANGED dataVars
    PROVE  keptIInv'
<1>1. /\ UNCHANGED <<db, cache, latest, gone, inbox>>
      /\ connector_list' = << >> => connector_list = << >>
  BY AppendProperties DEF NodeInfo, PassBack, Tick, dataVars, rows_vars, fork_vars, keptIInv
<1>2. connector_list' \in Seq(Range(Connectors))
  <2>1. CASE NodeInfo
    <3>1. PICK c \in Range(Connectors) : connector_list' = Append(connector_list, c)
      BY <2>1 DEF NodeInfo
    <3> QED
      BY <3>1, AppendProperties DEF keptIInv
  <2>2. CASE PassBack \/ Tick \/ UNCHANGED dataVars
    BY <2>2 DEF PassBack, Tick, dataVars, fork_vars, keptIInv
  <2> QED
    BY <2>1, <2>2
<1> QED
  BY <1>1, <1>2 DEF keptIInv

LEMMA DataStarts == dataInit => keptIInv
<1> SUFFICES ASSUME dataInit
             PROVE  keptIInv
  OBVIOUS
<1>1. DOMAIN cache = Processes /\ \A p \in Processes : Sized(db, cache[p])
  BY DEF dataInit, EmptyTables, EmptyCache, Sized
<1>2. /\ DOMAIN latest = TableSet /\ \A t \in TableSet : DOMAIN latest[t] = Keys
      /\ \A t \in TableSet, k \in Keys : db[t][k] \in latest[t][k]
  BY DEF dataInit, EmptyTables
<1>3. inbox \in [Range(Connectors) -> Seq(Passed)] /\ connector_list \in Seq(Range(Connectors))
  BY EmptySeq DEF dataInit
<1>4. gone = {}
  BY DEF dataInit
<1>5. AllFresh(db, cache[Server], latest)
  <2>1. \A t \in TableSet, k \in Keys : View(db, EmptyCache, t, k) = db[t][k]
    BY DEF View, EmptyCache, NoRows
  <2> QED
    <3>1. cache[Server] = EmptyCache
      BY ServerIsProcess DEF dataInit
    <3> QED
      BY <1>2, <2>1, <3>1 DEF AllFresh
<1> QED
  BY <1>1, <1>2, <1>3, <1>4, <1>5 DEF keptIInv, AllFound, Found

LEMMA DataSteps ==
    ASSUME "none" \notin LinkStates, keptIInv, [dataNext]_dataVars
    PROVE  keptIInv'
BY RequestKeeps, ConnectorServesKeeps, RestartKeeps, RestKeeps DEF dataNext

(***************************************************************************)
(* What the server saved is in the database or in a cache as long as no    *)
(* process is gone (Data_Manager::save_db_data), when every process has a  *)
(* connection, if perhaps a broken one: DB_Manager::init makes one for     *)
(* every database of the configuration, and a process that cannot connect  *)
(* ends (LOG_FATAL).                                                       *)
(***************************************************************************)
THEOREM SavedIsAlwaysKept ==
    ASSUME "none" \notin LinkStates
    PROVE  dataSpec => []SavedIsKept
<1>1. dataInit => keptIInv
  BY DataStarts
<1>2. keptIInv /\ [dataNext]_dataVars => keptIInv'
  BY DataSteps
<1>3. keptIInv => SavedIsKept
  BY DEF keptIInv, AllFound, Found, SavedIsKept
<1> QED
  BY <1>1, <1>2, <1>3, PTL DEF dataSpec

-----------------------------------------------------------------------------
(***************************************************************************)
(* A load answers with what the process reads.                             *)
(***************************************************************************)
Fresh(a) ==
    /\ a.op \in {"load", "load_table"} =>
          \E t \in TableSet : \A k \in DOMAIN a.value : a.value[k] \in latest[t][k]
    /\ a.op = "load_all" =>
          \E k \in Keys : \A n \in DOMAIN CachedTables : a.value[n] \in latest[CachedTables[n]][k]

\* When the server reads what was saved last, its loads answer with it.
LEMMA ServerLoadsFresh ==
    ASSUME keptIInv, AllFresh(db, cache[Server], latest), NEW m, Fit(m), NEW link,
           m.op \in {"load", "load_table", "load_all"}, load_db_data(Server, m, link)
    PROVE  Fresh(answer')
<1>1. PICK r \in (IF m.op = "load_all" THEN LoadCollection(db, cache[Server], m.key, link)
                                       ELSE LoadTable(db, cache[Server], m.table, m.key, link)) :
         SendRows(Server, m, r)
  BY DEF load_db_data
<1>2. DOMAIN cache[Server] = TableSet
  BY ServerIsProcess DEF keptIInv, Sized
<1>3. CASE r.code < 0
  <2>1. answer'.op = "ret_code"
    BY <1>1, <1>3 DEF SendRows, RetCode, SendAnswer
  <2> QED
    BY <2>1 DEF Fresh
<1>4. CASE ~(r.code < 0)
  <2>1. answer'.op = m.op /\ answer'.value = r.rows
    BY <1>1, <1>4 DEF SendRows, SendAnswer
  <2>2. CASE m.op = "load_all"
    <3>1. /\ r \in LoadCollection(db, cache[Server], m.key, link) /\ m.key \in Keys
      BY <1>1, <2>2 DEF Fit
    <3>2. \A i \in DOMAIN CachedTables : r.rows[i] = View(db, cache[Server], CachedTables[i], m.key)
      BY <1>2, <1>4, <3>1, LoadCollectionLosesNone
    <3>3. \A i \in DOMAIN CachedTables : CachedTables[i] \in TableSet
      BY DEF TableSet, Range
    <3>4. \A i \in DOMAIN CachedTables : r.rows[i] \in latest[CachedTables[i]][m.key]
      BY <3>1, <3>2, <3>3 DEF AllFresh
    <3> QED
      BY <2>1, <2>2, <3>1, <3>4 DEF Fresh
  <2>3. CASE m.op # "load_all"
    <3>1. /\ r \in LoadTable(db, cache[Server], m.table, m.key, link)
          /\ m.table \in TableSet /\ m.key \in Keys \cup {0}
      BY <1>1, <2>3 DEF Fit
    <3>2. \A k \in DOMAIN r.rows : k \in Keys /\ r.rows[k] = View(db, cache[Server], m.table, k)
      BY <1>2, <1>4, <3>1, LoadTableLosesNone
    <3>3. \A k \in DOMAIN r.rows : r.rows[k] \in latest[m.table][k]
      BY <3>1, <3>2 DEF AllFresh
    <3> QED
      BY <2>1, <2>3, <3>1, <3>3 DEF Fresh
  <2> QED
    BY <2>2, <2>3
<1> QED
  BY <1>3, <1>4

LEMMA ServerAnswersFresh ==
    ASSUME keptIInv, AllFresh(db, cache[Server], latest), NEW m, Fit(m), NEW link,
           Serve(Server, m, link)
    PROVE  answer' = answer \/ Fresh(answer')
<1>1. ASSUME NEW code, RetCode(Server, m, code)
      PROVE  Fresh(answer')
  BY <1>1 DEF RetCode, SendAnswer, Fresh
<1>2. ASSUME Quiet
      PROVE  answer' = answer
  BY <1>2 DEF Quiet
<1>3. ASSUME NEW op, NEW code, NEW value, SendAnswer(Server, m, op, code, value),
             op \notin {"load", "load_table", "load_all"}
      PROVE  Fresh(answer')
  BY <1>3 DEF SendAnswer, Fresh
<1>4. CASE m.op \in {"load", "load_table", "load_all"} /\ load_db_data(Server, m, link)
  BY <1>4, ServerLoadsFresh
<1>5. CASE save_db_data(Server, m, link)
  BY <1>1, <1>2, <1>5 DEF save_db_data
<1>6. CASE delete_db_data(Server, m, link)
  BY <1>1, <1>2, <1>6 DEF delete_db_data
<1>7. CASE m.op = "select" /\ select_db_data(Server, m, link)
  BY <1>1, <1>3, <1>7 DEF select_db_data, SendRows
<1>8. CASE generate_id(Server, m)
  BY <1>3, <1>8 DEF generate_id
<1>9. CASE m.op = "load_runtime" /\ load_runtime_data(Server, m)
  BY <1>1, <1>3, <1>9 DEF load_runtime_data
<1>10. CASE save_runtime_data(Server, m)
  BY <1>2, <1>10 DEF save_runtime_data
<1>11. CASE delete_runtime_data(Server, m)
  BY <1>1, <1>2, <1>11 DEF delete_runtime_data
<1> QED
  BY <1>4, <1>5, <1>6, <1>7, <1>8, <1>9, <1>10, <1>11 DEF Serve

(***************************************************************************)
(* What a server without connectors loads is what was saved last           *)
(* (Data_Manager::load_db_data), a row, a table or a collection, when it   *)
(* has a connection, if perhaps a broken one.                              *)
(***************************************************************************)
THEOREM LoadsAlwaysFresh ==
    ASSUME "none" \notin LinkStates
    PROVE  dataSpec => LoadsAreFresh
<1>1. dataInit => keptIInv
  BY DataStarts
<1>2. keptIInv /\ [dataNext]_dataVars => keptIInv'
  BY DataSteps
<1>3. ASSUME keptIInv, [dataNext]_dataVars, connector_list = << >>, answer' # answer
      PROVE  Fresh(answer')
  <2>1. CASE ServerRequest
    <3>1. PICK m \in Requests :
             UNCHANGED answer \/ \E link \in LinkStates : Serve(Server, m, link)
      BY <2>1 DEF ServerRequest
    <3>3. Fit(m)
      BY RequestsFit
    <3>4. gone = {}
      BY <1>3, <2>1 DEF keptIInv, ServerRequest
    <3>5. AllFresh(db, cache[Server], latest)
      BY <1>3, <3>4 DEF keptIInv
    <3> QED
      BY <1>3, <3>1, <3>3, <3>5, ServerAnswersFresh
  <2>2. CASE ConnectorServes \/ PassBack
    <3>1. Range(connector_list) = {}
      BY <1>3 DEF Range
    <3> QED
      BY <2>2, <3>1 DEF ConnectorServes, PassBack
  <2>3. CASE NodeInfo \/ Tick \/ Restart \/ UNCHANGED dataVars
    BY <1>3, <2>3 DEF NodeInfo, Tick, Restart, dataVars
  <2> QED
    BY <1>3, <2>1, <2>2, <2>3 DEF dataNext
<1>4. keptIInv /\ [dataNext]_dataVars =>
        [connector_list = << >> /\ answer' # answer => Fresh(answer')]_dataVars
  BY <1>3
<1> QED
  BY <1>1, <1>2, <1>4, PTL DEF dataSpec, LoadsAreFresh, Fresh
=============================================================================
