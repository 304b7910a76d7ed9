------------------------- MODULE LoginProtocolProofs -------------------------
(***************************************************************************)
(* What a login promises, for any number of accounts, connections,         *)
(* requests and tokens: a token earns one session, the center's session    *)
(* ids are those the gate has, the gate's plugin agrees with its script,   *)
(* the game server knows the gate's sessions, a player has its login data, *)
(* and a logout waits for its save.                                        *)
(*                                                                         *)
(* The player's login data is inductive by itself.  The other five rest on *)
(* one invariant: a connection asks for its session once and is answered   *)
(* once, and a session id is granted once, ended once and saved once.      *)
(***************************************************************************)
EXTENDS LoginProtocol, FiniteSetTheorems, SequenceTheorems, TLAPS

-----------------------------------------------------------------------------
(***************************************************************************)
(* The messages of every link, what a client sends, and what the filter    *)
(* hands to the plugin.                                                    *)
(***************************************************************************)
ToCenter ==
    [id : {"VERIFY_TOKEN"}, sid : Cid, cid : Cid, account : Account, token : Nat]
      \cup [id : {"REMOVE_SESSION"}, sid : Sid]

FromCenter ==
    [id : {"VERIFY_TOKEN"}, sid : Sid, cid : Cid, account : Account]
      \cup [id : {"NODE_CODE"}, sid : Cid]

OfSession == [id : {"ADD_SESSION", "LOGOUT", "ENTER_GAME", "ROLE_INFO"}, sid : Sid]

ToData == [id : {"LOAD_DB_DATA", "SAVE_DB_DATA"}, sid : Sid]

FromData ==
    [id : {"SAVE_DB_DATA"}, sid : Sid]
      \cup [id : {"DB_RET_CODE"}, sid : Sid, opt : {"LOAD_DB_DATA", "SAVE_DB_DATA"}]

Request ==
    [id : {"CONNECT_GATE"}, token : Nat]
      \cup [id : {"HEARTBEAT", "ENTER_GAME", "ROLE_INFO"}]

Forward ==
    [id : {"ENTER_GAME", "ROLE_INFO"}, from : {"client"}, cid : Cid]
      \cup [id : {"ENTER_GAME", "ROLE_INFO"}, from : {"server"}, sid : Sid]

MsgOn == [l \in Link |->
            CASE l = "gate_center" -> ToCenter
              [] l = "center_gate" -> FromCenter
              [] l \in {"gate_game", "game_gate"} -> OfSession
              [] l = "game_data" -> ToData
              [] l = "data_game" -> FromData]

NetTyped(n) == DOMAIN n = Link /\ \A l \in Link : n[l] \in Seq(MsgOn[l])

Typed ==
    /\ NetTyped(net)
    /\ client \in [Cid -> ClientState] /\ inbox \in [Cid -> Seq(Request)]
    /\ plugin_list \in Seq(Forward)
    /\ cid_session \in [Cid -> {0} \cup Sid]
    /\ cid_session_cpp \in [Cid -> {0} \cup Sid]
    /\ sid_session \in [Sid -> {NoCid} \cup Cid]
    /\ sid_session_cpp \in [Sid -> {NoCid} \cup Cid]

-----------------------------------------------------------------------------
(***************************************************************************)
(* A queue holds a message of a set K, and holds one at most.              *)
(***************************************************************************)
Holds(q, K) == \E i \in DOMAIN q : q[i] \in K

AtMostOne(q, K) == \A i, j \in DOMAIN q : q[i] \in K /\ q[j] \in K => i = j

(***************************************************************************)
(* A connection's request for its session and the center's answer.         *)
(***************************************************************************)
AskOf(c) == {m \in ToCenter : m.id = "VERIFY_TOKEN" /\ m.cid = c}

AnswerTo(c) == {m \in FromCenter : IF m.id = "VERIFY_TOKEN" THEN m.cid = c ELSE m.sid = c}

Verifying(c) == Holds(net["gate_center"], AskOf(c))

Answered(c) == Holds(net["center_gate"], AnswerTo(c))

ToAsk(c) == client[c] = "new" \/ NextIs(c, "CONNECT_GATE")

(***************************************************************************)
(* A client asks with its first message only, and the gate takes the       *)
(* request to the center before the center answers and the answer before   *)
(* the connection has a session: so it has one once.                       *)
(***************************************************************************)
AsksOnce(c) ==
    /\ client[c] = "new" => inbox[c] = <<>>
    /\ \A i \in DOMAIN inbox[c] : i > 1 => inbox[c][i].id # "CONNECT_GATE"
    /\ AtMostOne(net["gate_center"], AskOf(c))
    /\ AtMostOne(net["center_gate"], AnswerTo(c))
    /\ ToAsk(c) => ~Verifying(c)
    /\ ToAsk(c) \/ Verifying(c) => ~Answered(c)
    /\ ToAsk(c) \/ Verifying(c) \/ Answered(c) => cid_session[c] = 0

AsksKept == \A c \in Cid : AsksOnce(c)

(***************************************************************************)
(* The messages that tell how far a session is: granted by the center,     *)
(* removed by the gate, logging out, being saved, and saved; and that the  *)
(* game server is to add it, or wants it ended.                            *)
(***************************************************************************)
GrantOf(s) == {m \in FromCenter : m.id = "VERIFY_TOKEN" /\ m.sid = s}

RemovalOf(s) == {m \in ToCenter : m.id = "REMOVE_SESSION" /\ m.sid = s}

OfKind(id, s) == {m \in OfSession : m.id = id /\ m.sid = s}

SaveOf(s) == {m \in ToData : m.id = "SAVE_DB_DATA" /\ m.sid = s}

SavedOf(s) ==
    {m \in FromData : m.id = "DB_RET_CODE" /\ m.opt = "SAVE_DB_DATA" /\ m.sid = s}

Granted(s) == Holds(net["center_gate"], GrantOf(s))

Removed(s) == Holds(net["gate_center"], RemovalOf(s))

LoggingOut(s) == Holds(net["gate_game"], OfKind("LOGOUT", s))

Saving(s) == Holds(net["game_data"], SaveOf(s))

Saved(s) == Holds(net["data_game"], SavedOf(s))

Adding(s) == s = adding \/ Holds(net["gate_game"], OfKind("ADD_SESSION", s))

Ending(s) == Holds(net["game_gate"], OfKind("LOGOUT", s))

Ended(s) == Removed(s) \/ LoggingOut(s) \/ Saving(s) \/ Saved(s)

(***************************************************************************)
(* A session id is granted, lives in the gate and ends in this order, and  *)
(* never begins anew: sid_idx has passed it.                               *)
(***************************************************************************)
LivesOnce(s) ==
    /\ AtMostOne(net["center_gate"], GrantOf(s))
    /\ AtMostOne(net["gate_center"], RemovalOf(s))
    /\ AtMostOne(net["gate_game"], OfKind("LOGOUT", s))
    /\ AtMostOne(net["game_data"], SaveOf(s))
    /\ AtMostOne(net["data_game"], SavedOf(s))
    /\ Granted(s) \/ sid_session[s] # NoCid \/ Ended(s) => s <= sid_idx
    /\ Granted(s) => sid_session[s] = NoCid
    /\ Ended(s) => ~Granted(s) /\ sid_session[s] = NoCid
    /\ LoggingOut(s) => ~Saving(s) /\ ~Saved(s)
    /\ Saving(s) => ~Saved(s)

(***************************************************************************)
(* The goals, one session at a time.                                       *)
(***************************************************************************)
AccountedFor(s) ==
    s \in sid_set <=> sid_session[s] # NoCid \/ Granted(s) \/ Removed(s)

AwaitsSave(s) == s \in sid_logout <=> Saving(s) \/ Saved(s)

KnownToGame(s) ==
    sid_session[s] # NoCid => s \in sid_login \/ Adding(s) \/ Ending(s)

SidKept(s) == LivesOnce(s) /\ AccountedFor(s) /\ AwaitsSave(s) /\ KnownToGame(s)

SidsKept ==
    /\ sid_set \subseteq Sid /\ sid_logout \subseteq Sid
    /\ \A s \in Sid : SidKept(s)

(***************************************************************************)
(* The two maps of the script are inverse to each other, as are those of   *)
(* the plugin, and the plugin's are part of the script's, but for a        *)
(* connection that the script is still to take from the plugin.            *)
(***************************************************************************)
Mirrored(session, connection) ==
    /\ \A c \in Cid : session[c] # 0 => connection[session[c]] = c
    /\ \A s \in Sid : connection[s] # NoCid => session[connection[s]] = s

MapsAgree ==
    /\ Mirrored(cid_session, sid_session)
    /\ Mirrored(cid_session_cpp, sid_session_cpp)
    /\ \A c \in Cid : cid_session_cpp[c] # 0 =>
          cid_session[c] = cid_session_cpp[c] \/ c = removing

V8Typed == adding \in {0} \cup Sid /\ removing \in {NoCid} \cup Cid

(***************************************************************************)
(* A token that an account holds has been issued, has earned nothing yet   *)
(* and is no other account's; a session id was handed out for each token   *)
(* that has earned one.                                                    *)
(***************************************************************************)
Earned == {t \in Token : grants[t] # 0}

HeldTokensUnused ==
    /\ account_token \in [Account -> {0} \cup Token]
    /\ issued \in Nat /\ grants \in [Token -> Nat]
    /\ \A a \in Account : account_token[a] # 0 =>
          account_token[a] <= issued /\ grants[account_token[a]] = 0
    /\ \A a, b \in Account :
          account_token[a] # 0 /\ account_token[a] = account_token[b] => a = b
    /\ \A t \in Token : t > issued => grants[t] = 0

Tokens == HeldTokensUnused /\ TokenEarnsOneSession /\ sid_idx = Cardinality(Earned)

IInv ==
    Typed /\ V8Typed /\ Tokens /\ MapsAgree /\ AsksKept /\ SidsKept

-----------------------------------------------------------------------------
(***************************************************************************)
(* A queue with one message more at its end, and without its first.        *)
(***************************************************************************)
LEMMA OneMore ==
    ASSUME NEW S, NEW q \in Seq(S), NEW m, NEW K
    PROVE  /\ Holds(Append(q, m), K) <=> Holds(q, K) \/ m \in K
           /\ AtMostOne(q, K) /\ (m \in K => ~Holds(q, K))
                => AtMostOne(Append(q, m), K)
<1>1. /\ Len(q) \in Nat /\ DOMAIN q = 1 .. Len(q)
      /\ DOMAIN Append(q, m) = 1 .. Len(q) + 1
      /\ \A i \in 1 .. Len(q) : Append(q, m)[i] = q[i]
      /\ Append(q, m)[Len(q) + 1] = m
  BY LenProperties, AppendProperties
<1>2. \A i \in DOMAIN Append(q, m) : i \in DOMAIN q \/ i = Len(q) + 1
  BY <1>1
<1>3. DOMAIN q \subseteq DOMAIN Append(q, m) /\ Len(q) + 1 \in DOMAIN Append(q, m)
  BY <1>1
<1>4. Holds(Append(q, m), K) <=> Holds(q, K) \/ m \in K
  BY <1>1, <1>2, <1>3 DEF Holds
<1>5. ASSUME AtMostOne(q, K), m \in K => ~Holds(q, K)
      PROVE  AtMostOne(Append(q, m), K)
  BY <1>1, <1>2, <1>5 DEF Holds, AtMostOne
<1> QED
  BY <1>4, <1>5

LEMMA OneLess ==
    ASSUME NEW S, NEW q \in Seq(S), q # <<>>, NEW K
    PROVE  /\ Holds(q, K) <=> Head(q) \in K \/ Holds(Tail(q), K)
           /\ AtMostOne(q, K) => /\ AtMostOne(Tail(q), K)
                                 /\ Head(q) \in K => ~Holds(Tail(q), K)
<1>1. /\ Len(q) \in Nat \ {0} /\ DOMAIN q = 1 .. Len(q) /\ Head(q) = q[1]
      /\ DOMAIN Tail(q) = 1 .. Len(q) - 1
      /\ \A i \in 1 .. Len(q) - 1 : Tail(q)[i] = q[i + 1]
  BY LenProperties, HeadTailProperties, EmptySeq
<1>2. \A i \in DOMAIN q : i = 1 \/ (i - 1 \in DOMAIN Tail(q) /\ q[i] = Tail(q)[i - 1])
  BY <1>1
<1>3. \A i \in DOMAIN Tail(q) : i + 1 \in DOMAIN q /\ Tail(q)[i] = q[i + 1] /\ i + 1 # 1
  BY <1>1
<1>4. Holds(q, K) <=> Head(q) \in K \/ Holds(Tail(q), K)
  BY <1>1, <1>2, <1>3 DEF Holds
<1>5. ASSUME AtMostOne(q, K)
      PROVE  AtMostOne(Tail(q), K)
  <2>1. \A i, j \in DOMAIN Tail(q) : i \in Nat /\ j \in Nat /\ (i + 1 = j + 1 => i = j)
    BY <1>1
  <2> QED
    BY <1>3, <1>5, <2>1 DEF AtMostOne
<1>6. ASSUME AtMostOne(q, K), Head(q) \in K
      PROVE  ~Holds(Tail(q), K)
  BY <1>1, <1>3, <1>6 DEF AtMostOne, Holds
<1> QED
  BY <1>4, <1>5, <1>6

(***************************************************************************)
(* The same of a link to which a message is sent, or from which one is     *)
(* taken; the other links are as they were.                                *)
(***************************************************************************)
LEMMA Sent ==
    ASSUME NEW n, NetTyped(n), NEW k \in Link, NEW m \in MsgOn[k]
    PROVE  /\ NetTyped(Send(n, k, m))
           /\ \A l \in Link \ {k} : Send(n, k, m)[l] = n[l]
           /\ \A K : Holds(Send(n, k, m)[k], K) <=> Holds(n[k], K) \/ m \in K
           /\ \A K : AtMostOne(n[k], K) /\ (m \in K => ~Holds(n[k], K))
                        => AtMostOne(Send(n, k, m)[k], K)
<1>1. /\ DOMAIN Send(n, k, m) = Link
      /\ Send(n, k, m)[k] = Append(n[k], m)
      /\ \A l \in Link \ {k} : Send(n, k, m)[l] = n[l]
  BY DEF NetTyped, Send
<1>2. n[k] \in Seq(MsgOn[k])
  BY DEF NetTyped
<1>3. Append(n[k], m) \in Seq(MsgOn[k])
  BY <1>2, AppendProperties
<1>4. NetTyped(Send(n, k, m))
  BY <1>1, <1>3 DEF NetTyped
<1>5. ASSUME NEW K
      PROVE  /\ Holds(Send(n, k, m)[k], K) <=> Holds(n[k], K) \/ m \in K
             /\ AtMostOne(n[k], K) /\ (m \in K => ~Holds(n[k], K))
                  => AtMostOne(Send(n, k, m)[k], K)
  BY <1>1, <1>2, OneMore
<1> QED
  BY <1>1, <1>4, <1>5

LEMMA Took ==
    ASSUME NetTyped(net), NEW k \in Link, net[k] # <<>>
    PROVE  /\ NetTyped(Taken(k)) /\ Head(net[k]) \in MsgOn[k]
           /\ \A l \in Link \ {k} : Taken(k)[l] = net[l]
           /\ \A K : Holds(net[k], K) <=> Head(net[k]) \in K \/ Holds(Taken(k)[k], K)
           /\ \A K : AtMostOne(net[k], K) =>
                        /\ AtMostOne(Taken(k)[k], K)
                        /\ Head(net[k]) \in K => ~Holds(Taken(k)[k], K)
<1>1. /\ DOMAIN Taken(k) = Link
      /\ Taken(k)[k] = Tail(net[k])
      /\ \A l \in Link \ {k} : Taken(k)[l] = net[l]
  BY DEF NetTyped, Taken
<1>2. net[k] \in Seq(MsgOn[k])
  BY DEF NetTyped
<1>3. Tail(net[k]) \in Seq(MsgOn[k]) /\ Head(net[k]) \in MsgOn[k]
  BY <1>2, HeadTailProperties
<1>4. NetTyped(Taken(k))
  BY <1>1, <1>3 DEF NetTyped
<1>5. ASSUME NEW K
      PROVE  /\ Holds(net[k], K) <=> Head(net[k]) \in K \/ Holds(Taken(k)[k], K)
             /\ AtMostOne(net[k], K) => /\ AtMostOne(Taken(k)[k], K)
                                        /\ Head(net[k]) \in K => ~Holds(Taken(k)[k], K)
  BY <1>1, <1>2, OneLess
<1> QED
  BY <1>1, <1>3, <1>4, <1>5

LEMMA Links ==
    /\ Link = {"gate_center", "center_gate", "gate_game", "game_gate", "game_data",
               "data_game"}
    /\ MsgOn["gate_center"] = ToCenter /\ MsgOn["center_gate"] = FromCenter
    /\ MsgOn["gate_game"] = OfSession /\ MsgOn["game_gate"] = OfSession
    /\ MsgOn["game_data"] = ToData /\ MsgOn["data_game"] = FromData
BY DEF Link, MsgOn

(***************************************************************************)
(* The message at the head of the link to the center names a connection,   *)
(* an account and a token, or a session.                                   *)
(***************************************************************************)
LEMMA AskArrives ==
    ASSUME NetTyped(net), Arrives("gate_center", "VERIFY_TOKEN"),
           NEW msg, msg = Head(net["gate_center"])
    PROVE  /\ net["gate_center"] # <<>> /\ msg \in ToCenter /\ msg.id = "VERIFY_TOKEN"
           /\ msg.cid \in Cid /\ msg.account \in Account /\ msg.token \in Nat
<1>1. net["gate_center"] # <<>> /\ msg.id = "VERIFY_TOKEN"
  BY DEF Arrives
<1>2. msg \in ToCenter
  BY <1>1, Links, Took
<1> QED
  BY <1>1, <1>2 DEF ToCenter

(***************************************************************************)
(* Every session id handed out stands for a token that has earned it, and  *)
(* the token now shown has not: so there is a session id left.             *)
(***************************************************************************)
LEMMA NextSid ==
    ASSUME NetTyped(net), Tokens, VerifyToken, NEW msg, msg = Head(net["gate_center"])
    PROVE  /\ sid_idx \in Nat /\ sid_idx + 1 \in Sid
           /\ msg.token \in Token /\ grants[msg.token] = 0 /\ msg.token <= issued
           /\ Cardinality(Earned \cup {msg.token}) = sid_idx + 1
<1> DEFINE t == msg.token
<1>1. msg.account \in Account /\ t \in Nat
  BY AskArrives DEF VerifyToken
<1>2. account_token[msg.account] = t /\ t # 0
  BY DEF VerifyToken
<1>3. t \in Token /\ grants[t] = 0 /\ t <= issued
  BY <1>1, <1>2 DEF Tokens, HeldTokensUnused
<1> HIDE DEF t
<1>4. IsFiniteSet(Token) /\ Cardinality(Token) = MaxSid
  BY FS_Interval, LinksAssumption DEF Token
<1>5. Earned \subseteq Token /\ Earned \cup {t} \subseteq Token /\ t \notin Earned
  BY <1>3 DEF Earned
<1>6. IsFiniteSet(Earned) /\ Cardinality(Earned) \in Nat
  BY <1>4, <1>5, FS_Subset, FS_CardinalityType
<1>7. Cardinality(Earned \cup {t}) = Cardinality(Earned) + 1
  BY <1>5, <1>6, FS_AddElement
<1>8. Cardinality(Earned \cup {t}) <= MaxSid
  BY <1>4, <1>5, FS_Subset
<1> QED
  BY <1>3, <1>6, <1>7, <1>8, LinksAssumption DEF Tokens, Sid, t

-----------------------------------------------------------------------------
(***************************************************************************)
(* Every step keeps the types.                                             *)
(***************************************************************************)
LEMMA ClientsTyped ==
    ASSUME Typed, Tokens, NEW c \in Cid, Connect(c) \/ ClientStep(c)
    PROVE  Typed'
<1>1. /\ net' = net /\ plugin_list' = plugin_list
      /\ UNCHANGED <<script_vars, plugin_vars>>
  BY DEF Connect, ClientStep, ClientConnect, ClientSend, ClientDrop
<1>2. client' \in [Cid -> ClientState]
  BY DEF Typed, Connect, ClientStep, ClientConnect, ClientSend, ClientDrop, ClientState
<1>3. inbox' \in [Cid -> Seq(Request)]
  <2>1. ASSUME NEW token \in 0 .. issued, ClientConnect(c, token)
        PROVE  inbox' \in [Cid -> Seq(Request)]
    <3>1. token \in Nat
      BY <2>1 DEF Tokens, HeldTokensUnused
    <3>2. <<[id |-> "CONNECT_GATE", token |-> token]>> \in Seq(Request)
      BY <3>1 DEF Request
    <3> QED
      BY <2>1, <3>2 DEF ClientConnect, Typed
  <2>2. ASSUME NEW id \in {"HEARTBEAT", "ENTER_GAME", "ROLE_INFO"}, ClientSend(c, id)
        PROVE  inbox' \in [Cid -> Seq(Request)]
    <3>1. inbox[c] \in Seq(Request) /\ [id |-> id] \in Request
      BY DEF Typed, Request
    <3>2. Append(inbox[c], [id |-> id]) \in Seq(Request)
      BY <3>1, AppendProperties
    <3> QED
      BY <2>2, <3>2 DEF ClientSend, Typed
  <2>3. ASSUME ClientDrop(c)
        PROVE  inbox' \in [Cid -> Seq(Request)]
    BY <2>3 DEF ClientDrop, Typed
  <2> QED
    BY <2>1, <2>2, <2>3 DEF Connect, ClientStep
<1> QED
  BY <1>1, <1>2, <1>3 DEF Typed, script_vars, plugin_vars

LEMMA CenterTyped ==
    ASSUME Typed, Tokens, CenterStep
    PROVE  Typed'
<1>1. NetTyped(net)
  BY DEF Typed
<1>2. NetTyped(net')
  <2>1. CASE VerifyToken
    <3>1. PICK msg : msg = Head(net["gate_center"])
      OBVIOUS
    <3> DEFINE m == [id |-> "VERIFY_TOKEN", sid |-> sid_idx + 1,
                     cid |-> msg.cid, account |-> msg.account]
    <3>2. m \in FromCenter
      BY <1>1, <2>1, <3>1, AskArrives, NextSid DEF VerifyToken, FromCenter
    <3>3. net' = Send(Taken("gate_center"), "center_gate", m)
      BY <2>1, <3>1 DEF VerifyToken
    <3>4. net["gate_center"] # <<>>
      BY <2>1 DEF VerifyToken, Arrives
    <3> QED
      BY <1>1, <3>2, <3>3, <3>4, Links, Took, Sent
  <2>2. CASE RejectToken
    <3>1. PICK msg : msg = Head(net["gate_center"])
      OBVIOUS
    <3> DEFINE m == [id |-> "NODE_CODE", sid |-> msg.cid]
    <3>2. m \in FromCenter
      BY <1>1, <2>2, <3>1, AskArrives DEF RejectToken, FromCenter
    <3>3. net' = Send(Taken("gate_center"), "center_gate", m)
      BY <2>2, <3>1 DEF RejectToken
    <3>4. net["gate_center"] # <<>>
      BY <2>2 DEF RejectToken, Arrives
    <3> QED
      BY <1>1, <3>2, <3>3, <3>4, Links, Took, Sent
  <2>3. CASE CenterRemoveSession
    BY <1>1, <2>3, Links, Took DEF CenterRemoveSession, Arrives
  <2>4. CASE (\E a \in Account : SelectGate(a)) \/ CenterTokenHandler
    BY <1>1, <2>4 DEF SelectGate, CenterTokenHandler
  <2> QED
    BY <2>1, <2>2, <2>3, <2>4 DEF CenterStep
<1> QED
  BY <1>2 DEF Typed, CenterStep, gate_vars, client_vars, script_vars, plugin_vars

LEMMA GameTyped ==
    ASSUME Typed, GameStep
    PROVE  Typed'
<1> SUFFICES NetTyped(net')
  BY DEF Typed, GameStep, gate_vars, client_vars, script_vars, plugin_vars
<1>1. NetTyped(net)
  BY DEF Typed
<1>2. ASSUME net["gate_game"] # <<>>,
             NEW id \in {"ADD_SESSION", "LOGOUT", "ENTER_GAME", "ROLE_INFO"},
             \/ net' = Taken("gate_game")
             \/ net' = Send(Taken("gate_game"), "game_gate", Reply("gate_game", id))
      PROVE  NetTyped(net')
  <2>1. Head(net["gate_game"]) \in OfSession
    BY <1>1, <1>2, Links, Took
  <2>2. Reply("gate_game", id) \in OfSession
    BY <2>1 DEF Reply, OfSession
  <2>3. NetTyped(Taken("gate_game"))
    BY <1>1, <1>2, Links, Took
  <2>4. NetTyped(Send(Taken("gate_game"), "game_gate", Reply("gate_game", id)))
    BY <2>2, <2>3, Links, Sent
  <2> QED
    BY <1>2, <2>3, <2>4
<1>3. ASSUME EndSession("gate_game"), net["gate_game"] # <<>>
      PROVE  NetTyped(net')
  BY <1>2, <1>3 DEF EndSession
<1>4. CASE GameAddSession
  BY <1>2, <1>4 DEF GameAddSession, Arrives
<1>5. CASE EnterGame
  <2>1. CASE EndSession("gate_game")
    BY <1>3, <1>5, <2>1 DEF EnterGame, Arrives
  <2>2. CASE net' = Send(Taken("gate_game"), "game_data",
                         Reply("gate_game", "LOAD_DB_DATA"))
    <3>1. net["gate_game"] # <<>> /\ Head(net["gate_game"]) \in OfSession
      BY <1>1, <1>5, Links, Took DEF EnterGame, Arrives
    <3>2. Reply("gate_game", "LOAD_DB_DATA") \in ToData
      BY <3>1 DEF Reply, OfSession, ToData
    <3> QED
      BY <1>1, <2>2, <3>1, <3>2, Links, Took, Sent
  <2> QED
    BY <1>5, <2>1, <2>2 DEF EnterGame
<1>6. CASE ClientRequest
  BY <1>2, <1>3, <1>6 DEF ClientRequest, Arrives
<1>7. CASE PlayerData
  <2>1. net["data_game"] # <<>> /\ Head(net["data_game"]) \in FromData
    BY <1>1, <1>7, Links, Took DEF PlayerData, Arrives
  <2>2. Reply("data_game", "ENTER_GAME") \in OfSession
    BY <2>1 DEF Reply, OfSession, FromData
  <2> QED
    BY <1>1, <1>7, <2>1, <2>2, Links, Took, Sent DEF PlayerData
<1>8. CASE GameLogout
  <2>1. net["gate_game"] # <<>> /\ Head(net["gate_game"]) \in OfSession
    BY <1>1, <1>8, Links, Took DEF GameLogout, Arrives
  <2>2. Reply("gate_game", "SAVE_DB_DATA") \in ToData
    BY <2>1 DEF Reply, OfSession, ToData
  <2> QED
    BY <1>1, <1>8, <2>1, <2>2, Links, Took, Sent DEF GameLogout
<1>9. CASE DbRetCode
  BY <1>1, <1>9, Links, Took DEF DbRetCode, Arrives
<1>10. CASE DataServer
  <2>1. net["game_data"] # <<>> /\ Head(net["game_data"]) \in ToData
    BY <1>1, <1>10, Links, Took DEF DataServer
  <2>2. PICK answer \in FromData : net' = Send(Taken("game_data"), "data_game", answer)
    BY <1>10, <2>1 DEF DataServer, ToData, FromData
  <2> QED
    BY <1>1, <2>1, <2>2, Links, Took, Sent
<1> QED
  BY <1>4, <1>5, <1>6, <1>7, <1>8, <1>9, <1>10 DEF GameStep

LEMMA CloseClientTyped ==
    ASSUME Typed, NEW c \in Cid, CloseClient(c)
    PROVE  /\ client' \in [Cid -> ClientState]
           /\ \A d \in Cid : client'[d] = "new" <=> client[d] = "new"
BY DEF Typed, CloseClient, ClientState

LEMMA RemoveFromPluginTyped ==
    ASSUME Typed, NEW c \in Cid, RemoveFromPlugin(c)
    PROVE  /\ cid_session_cpp' \in [Cid -> {0} \cup Sid]
           /\ sid_session_cpp' \in [Sid -> {NoCid} \cup Cid]
BY DEF Typed, RemoveFromPlugin

LEMMA RemoveSessionTyped ==
    ASSUME Typed, NEW s \in Sid, sid_session[s] # NoCid,
           NEW n, NetTyped(n), RemoveSession(s, n)
    PROVE  /\ NetTyped(net')
           /\ cid_session' \in [Cid -> {0} \cup Sid]
           /\ sid_session' \in [Sid -> {NoCid} \cup Cid]
<1>1. [id |-> "LOGOUT", sid |-> s] \in OfSession /\ [id |-> "REMOVE_SESSION", sid |-> s] \in ToCenter
  BY DEF OfSession, ToCenter
<1>2. NetTyped(Send(n, "gate_game", [id |-> "LOGOUT", sid |-> s]))
  BY <1>1, Links, Sent
<1>3. NetTyped(net')
  BY <1>1, <1>2, Links, Sent DEF RemoveSession
<1> QED
  BY <1>3 DEF RemoveSession, Typed

(***************************************************************************)
(* A session in the script's maps has a connection, and the other way.     *)
(***************************************************************************)
LEMMA SessionOf ==
    ASSUME Typed, MapsAgree, NEW c \in Cid, cid_session[c] # 0
    PROVE  /\ cid_session[c] \in Sid /\ sid_session[cid_session[c]] = c
           /\ sid_session[cid_session[c]] # NoCid
BY GateAssumption DEF Typed, MapsAgree, Mirrored

LEMMA GateTyped ==
    ASSUME Typed, V8Typed, MapsAgree, GateStep
    PROVE  Typed'
<1>1. NetTyped(net)
  BY DEF Typed
<1>2. ASSUME NEW c \in Cid, TakeFrom(c), inbox[c] # <<>>
      PROVE  inbox' \in [Cid -> Seq(Request)] /\ Head(inbox[c]) \in Request
  <2>1. inbox[c] \in Seq(Request)
    BY DEF Typed
  <2>2. Tail(inbox[c]) \in Seq(Request) /\ Head(inbox[c]) \in Request
    BY <1>2, <2>1, HeadTailProperties
  <2> QED
    BY <1>2, <2>2 DEF Typed, TakeFrom
<1>3. ASSUME NEW c \in Cid, GateDropCid(c)
      PROVE  Typed'
  <2>1. client' \in [Cid -> ClientState]
    BY <1>3 DEF GateDropCid, Typed, ClientState
  <2>2. CASE cid_session[c] # 0
    BY <1>1, <1>3, <2>1, <2>2, SessionOf, RemoveSessionTyped
       DEF GateDropCid, Typed, plugin_vars
  <2>3. CASE cid_session[c] = 0
    BY <1>1, <1>3, <2>1, <2>3 DEF GateDropCid, Typed, script_vars, plugin_vars
  <2> QED
    BY <2>2, <2>3
<1>4. ASSUME NEW c \in Cid, ConnectGate(c)
      PROVE  Typed'
  <2>1. inbox' \in [Cid -> Seq(Request)] /\ Head(inbox[c]) \in Request
    BY <1>2, <1>4 DEF ConnectGate, NextIs
  <2>2. CASE CloseSession(c) /\ net' = net
    BY <1>4, <2>1, <2>2, CloseClientTyped, RemoveFromPluginTyped
       DEF ConnectGate, CloseSession, Typed, script_vars
  <2>3. CASE /\ net' = Send(net, "gate_center",
                            [id |-> "VERIFY_TOKEN", sid |-> c, cid |-> c,
                             account |-> AccountOf[c], token |-> Head(inbox[c]).token])
             /\ UNCHANGED <<client, plugin_vars>>
    <3> DEFINE m == [id |-> "VERIFY_TOKEN", sid |-> c, cid |-> c,
                     account |-> AccountOf[c], token |-> Head(inbox[c]).token]
    <3>1. Head(inbox[c]).id = "CONNECT_GATE"
      BY <1>4 DEF ConnectGate, NextIs
    <3>2. m \in ToCenter
      BY <2>1, <3>1, GateAssumption DEF ToCenter, Request
    <3>3. NetTyped(net')
      BY <1>1, <2>3, <3>2, Links, Sent
    <3> QED
      BY <1>4, <2>1, <2>3, <3>3 DEF ConnectGate, Typed, script_vars, plugin_vars
  <2> QED
    BY <1>4, <2>2, <2>3 DEF ConnectGate
<1>5. ASSUME NEW c \in Cid, Heartbeat(c)
      PROVE  Typed'
  <2>1. inbox' \in [Cid -> Seq(Request)]
    BY <1>2, <1>5 DEF Heartbeat, NextIs
  <2> QED
    BY <1>5, <2>1, CloseClientTyped, RemoveFromPluginTyped
       DEF Heartbeat, CloseSession, Typed, script_vars, plugin_vars
<1>6. ASSUME NEW c \in Cid, FilterClientMsg(c)
      PROVE  Typed'
  <2>1. inbox' \in [Cid -> Seq(Request)]
    BY <1>2, <1>6 DEF FilterClientMsg
  <2>2. [id |-> Head(inbox[c]).id, from |-> "client", cid |-> c] \in Forward
    BY <1>6 DEF FilterClientMsg, Forward
  <2>3. plugin_list' \in Seq(Forward)
    BY <1>6, <2>2, AppendProperties DEF FilterClientMsg, Typed
  <2> QED
    BY <1>6, <2>1, <2>3 DEF FilterClientMsg, Typed, script_vars, plugin_vars
<1>7. CASE FilterServerMsg
  <2>1. net["game_gate"] # <<>> /\ Head(net["game_gate"]) \in OfSession
    BY <1>1, <1>7, Links, Took DEF FilterServerMsg, Arrives
  <2>2. [id |-> Head(net["game_gate"]).id, from |-> "server",
         sid |-> Head(net["game_gate"]).sid] \in Forward
    BY <1>7, <2>1 DEF FilterServerMsg, Arrives, Forward, OfSession
  <2>3. plugin_list' \in Seq(Forward)
    BY <1>7, <2>2, AppendProperties DEF FilterServerMsg, Typed
  <2>4. NetTyped(net')
    BY <1>1, <1>7, <2>1, Links, Took DEF FilterServerMsg
  <2> QED
    BY <1>7, <2>3, <2>4 DEF FilterServerMsg, Typed, client_vars, script_vars, plugin_vars
<1>8. CASE TokenVerified
  <2>1. PICK msg : msg = Head(net["center_gate"])
    OBVIOUS
  <2>2. net["center_gate"] # <<>> /\ msg \in FromCenter /\ msg.id = "VERIFY_TOKEN"
    BY <1>1, <1>8, <2>1, Links, Took DEF TokenVerified, Arrives
  <2>3. msg.sid \in Sid /\ msg.cid \in Cid
    BY <2>2 DEF FromCenter
  <2>4. NetTyped(net')
    BY <1>1, <1>8, <2>1, <2>2, Links, Took DEF TokenVerified
  <2>5. /\ cid_session' \in [Cid -> {0} \cup Sid]
        /\ cid_session_cpp' \in [Cid -> {0} \cup Sid]
        /\ sid_session' \in [Sid -> {NoCid} \cup Cid]
        /\ sid_session_cpp' \in [Sid -> {NoCid} \cup Cid]
    BY <1>8, <2>1, <2>3 DEF TokenVerified, Typed
  <2> QED
    BY <1>8, <2>4, <2>5 DEF TokenVerified, Typed, client_vars
<1>9. CASE TokenRejected
  <2>1. PICK msg : msg = Head(net["center_gate"])
    OBVIOUS
  <2>2. net["center_gate"] # <<>> /\ msg \in FromCenter /\ msg.id = "NODE_CODE"
    BY <1>1, <1>9, <2>1, Links, Took DEF TokenRejected, Arrives
  <2>3. msg.sid \in Cid
    BY <2>2 DEF FromCenter
  <2>4. NetTyped(net')
    BY <1>1, <1>9, <2>2, Links, Took DEF TokenRejected
  <2> QED
    BY <1>9, <2>1, <2>3, <2>4, CloseClientTyped, RemoveFromPluginTyped
       DEF TokenRejected, CloseSession, Typed, script_vars
<1>10. CASE SessionAdded
  <2>1. NetTyped(net')
    BY <1>1, <1>10, Links, Took DEF SessionAdded, Arrives
  <2> QED
    BY <1>10, <2>1 DEF SessionAdded, Typed, script_vars, plugin_vars
<1>11. CASE GateLogout
  <2>1. PICK s : s = Head(net["game_gate"]).sid
    OBVIOUS
  <2>2. net["game_gate"] # <<>> /\ Head(net["game_gate"]) \in OfSession
    BY <1>1, <1>11, Links, Took DEF GateLogout, Arrives
  <2>3. s \in Sid /\ NetTyped(Taken("game_gate"))
    BY <1>1, <2>1, <2>2, Links, Took DEF OfSession
  <2>4. CASE sid_session[s] = NoCid
    BY <1>11, <2>1, <2>3, <2>4 DEF GateLogout, Typed, script_vars, plugin_vars
  <2>5. CASE sid_session[s] # NoCid
    <3>1. sid_session[s] \in Cid
      BY <2>3, <2>5 DEF Typed
    <3>2. RemoveSession(s, Taken("game_gate")) /\ CloseSession(sid_session[s])
      BY <1>11, <2>1, <2>5 DEF GateLogout
    <3> QED
      BY <1>11, <2>3, <2>5, <3>1, <3>2, CloseClientTyped, RemoveFromPluginTyped,
         RemoveSessionTyped DEF GateLogout, CloseSession, Typed
  <2> QED
    BY <2>4, <2>5
<1>12. CASE TransmitMsg
  <2>1. PICK msg : msg = Head(plugin_list)
    OBVIOUS
  <2>2. plugin_list' \in Seq(Forward) /\ msg \in Forward
    BY <1>12, <2>1, HeadTailProperties DEF TransmitMsg, Typed
  <2>3. CASE msg.from = "client" /\ cid_session_cpp[msg.cid] = 0
    <3>1. CloseClient(msg.cid) /\ net' = net /\ msg.cid \in Cid
      BY <1>12, <2>1, <2>2, <2>3 DEF TransmitMsg, Forward
    <3> QED
      BY <1>12, <2>2, <3>1, CloseClientTyped DEF TransmitMsg, Typed, script_vars, plugin_vars
  <2>4. CASE msg.from = "client" /\ cid_session_cpp[msg.cid] # 0
    <3>1. [id |-> msg.id, sid |-> cid_session_cpp[msg.cid]] \in OfSession
      BY <2>2, <2>4 DEF Forward, OfSession, Typed
    <3>2. net' = Send(net, "gate_game", [id |-> msg.id, sid |-> cid_session_cpp[msg.cid]])
            /\ client' = client
      BY <1>12, <2>1, <2>4 DEF TransmitMsg
    <3>3. NetTyped(net')
      BY <1>1, <3>1, <3>2, Links, Sent
    <3> QED
      BY <1>12, <2>2, <3>2, <3>3 DEF TransmitMsg, Typed, script_vars, plugin_vars
  <2>5. CASE msg.from = "server"
    BY <1>12, <2>1, <2>2, <2>5 DEF TransmitMsg, Typed, script_vars, plugin_vars
  <2> QED
    BY <1>12, <2>1, <2>3, <2>4, <2>5 DEF TransmitMsg
<1>13. CASE AddToGame
  <2>1. [id |-> "ADD_SESSION", sid |-> adding] \in OfSession
    BY <1>13 DEF AddToGame, OfSession, V8Typed
  <2>2. NetTyped(net')
    BY <1>1, <1>13, <2>1, Links, Sent DEF AddToGame
  <2> QED
    BY <1>13, <2>2 DEF AddToGame, Typed, client_vars, script_vars, plugin_vars
<1>14. CASE DropFromPlugin
  <2>1. removing \in Cid /\ RemoveFromPlugin(removing)
    BY <1>14 DEF DropFromPlugin, V8Typed
  <2> QED
    BY <1>14, <2>1, RemoveFromPluginTyped DEF DropFromPlugin, Typed, client_vars, script_vars
<1> QED
  BY <1>3, <1>4, <1>5, <1>6, <1>7, <1>8, <1>9, <1>10, <1>11, <1>12, <1>13, <1>14 DEF GateStep

-----------------------------------------------------------------------------
(***************************************************************************)
(* The maps of sessions.  A connection that has asked has no session yet,  *)
(* and a session granted has no connection yet.                            *)
(***************************************************************************)
LEMMA GrantArrives ==
    ASSUME Typed, SidsKept, AsksKept, Arrives("center_gate", "VERIFY_TOKEN"),
           NEW msg, msg = Head(net["center_gate"])
    PROVE  /\ net["center_gate"] # <<>> /\ msg \in FromCenter
           /\ msg.sid \in Sid /\ msg.cid \in Cid
           /\ msg \in GrantOf(msg.sid) /\ msg \in AnswerTo(msg.cid)
           /\ Granted(msg.sid) /\ Answered(msg.cid)
           /\ cid_session[msg.cid] = 0 /\ sid_session[msg.sid] = NoCid
<1>1. net["center_gate"] # <<>> /\ msg.id = "VERIFY_TOKEN"
  BY DEF Arrives
<1>2. msg \in FromCenter
  BY <1>1, Links, Took DEF Typed
<1>3. /\ msg.sid \in Sid /\ msg.cid \in Cid
      /\ msg \in GrantOf(msg.sid) /\ msg \in AnswerTo(msg.cid)
  BY <1>1, <1>2 DEF FromCenter, GrantOf, AnswerTo
<1>4. Granted(msg.sid) /\ Answered(msg.cid)
  BY <1>1, <1>3, Links, Took DEF Typed, Granted, Answered
<1>5. cid_session[msg.cid] = 0
  BY <1>3, <1>4 DEF AsksKept, AsksOnce
<1>6. sid_session[msg.sid] = NoCid
  BY <1>3, <1>4 DEF SidsKept, SidKept, LivesOnce
<1> QED
  BY <1>1, <1>2, <1>3, <1>4, <1>5, <1>6

LEMMA V8Keeps ==
    ASSUME Typed, V8Typed, MapsAgree, SidsKept, AsksKept, [Next]_vars
    PROVE  V8Typed'
<1>1. CASE UNCHANGED v8_vars
  BY <1>1 DEF V8Typed, v8_vars
<1>2. CASE TokenVerified
  BY <1>2, GrantArrives DEF TokenVerified, V8Typed
<1>3. CASE AddToGame \/ DropFromPlugin \/ \E c \in Cid : GateDropCid(c)
  BY <1>3 DEF AddToGame, DropFromPlugin, GateDropCid, V8Typed
<1>4. CASE (\E c \in Cid : Connect(c) \/ ClientStep(c)) \/ CenterStep \/ GameStep \/ UNCHANGED vars
  BY <1>1, <1>4 DEF Connect, ClientStep, ClientConnect, ClientSend, ClientDrop, CenterStep,
     GameStep, vars, gate_vars
<1>5. CASE /\ GateStep
           /\ ~ (TokenVerified \/ AddToGame \/ DropFromPlugin \/ \E c \in Cid : GateDropCid(c))
  BY <1>1, <1>5 DEF GateStep, ConnectGate, Heartbeat, FilterClientMsg, FilterServerMsg,
     TokenRejected, SessionAdded, GateLogout, TransmitMsg
<1> QED
  BY <1>2, <1>3, <1>4, <1>5 DEF Next

LEMMA RejectArrives ==
    ASSUME Typed, AsksKept, Arrives("center_gate", "NODE_CODE"),
           NEW msg, msg = Head(net["center_gate"])
    PROVE  /\ net["center_gate"] # <<>> /\ msg \in FromCenter /\ msg.sid \in Cid
           /\ msg.id = "NODE_CODE" /\ Answered(msg.sid) /\ cid_session[msg.sid] = 0
<1>1. net["center_gate"] # <<>> /\ msg.id = "NODE_CODE"
  BY DEF Arrives
<1>2. msg \in FromCenter
  BY <1>1, Links, Took DEF Typed
<1>3. msg.sid \in Cid /\ msg \in AnswerTo(msg.sid)
  BY <1>1, <1>2 DEF FromCenter, AnswerTo
<1>4. Answered(msg.sid)
  BY <1>1, <1>3, Links, Took DEF Typed, Answered
<1> QED
  BY <1>1, <1>2, <1>3, <1>4 DEF AsksKept, AsksOnce

(***************************************************************************)
(* For a connection without a session the plugin has nothing to remove.    *)
(***************************************************************************)
LEMMA NothingToRemove ==
    ASSUME Typed, MapsAgree, NEW c \in Cid, cid_session[c] = 0, removing = NoCid,
           RemoveFromPlugin(c)
    PROVE  UNCHANGED plugin_vars
<1>1. cid_session_cpp[c] = 0
  BY GateAssumption DEF MapsAgree
<1> QED
  BY <1>1 DEF RemoveFromPlugin, Typed, plugin_vars

LEMMA RemoveKeepsMaps ==
    ASSUME Typed, MapsAgree, NEW s \in Sid, sid_session[s] # NoCid,
           NEW n, RemoveSession(s, n), RemoveFromPlugin(sid_session[s]),
           UNCHANGED removing
    PROVE  MapsAgree'
<1>1. PICK c \in Cid : c = sid_session[s]
  BY DEF Typed
<1>2. c # NoCid /\ cid_session[c] = s /\ 0 \notin Sid
  BY <1>1, GateAssumption DEF MapsAgree, Mirrored, Sid
<1>3. /\ cid_session' = [cid_session EXCEPT ![c] = 0]
      /\ sid_session' = [sid_session EXCEPT ![s] = NoCid]
  BY <1>1 DEF RemoveSession
<1>4. /\ cid_session_cpp' = [cid_session_cpp EXCEPT ![c] = 0]
      /\ sid_session_cpp' = IF cid_session_cpp[c] = 0 THEN sid_session_cpp
                              ELSE [sid_session_cpp EXCEPT ![cid_session_cpp[c]] = NoCid]
  BY <1>1 DEF RemoveFromPlugin
<1>5. Mirrored(cid_session', sid_session')
  BY <1>1, <1>2, <1>3 DEF Typed, MapsAgree, Mirrored
<1>6. Mirrored(cid_session_cpp', sid_session_cpp')
  BY <1>2, <1>4 DEF Typed, MapsAgree, Mirrored
<1>7. \A d \in Cid : cid_session_cpp'[d] # 0 =>
         cid_session'[d] = cid_session_cpp'[d] \/ d = removing'
  BY <1>3, <1>4 DEF Typed, MapsAgree
<1> QED
  BY <1>5, <1>6, <1>7 DEF MapsAgree, Mirrored

(***************************************************************************)
(* on_drop_cid takes the session first from the script and then from the   *)
(* plugin.                                                                 *)
(***************************************************************************)
LEMMA DropKeepsMaps ==
    ASSUME Typed, MapsAgree, NEW s \in Sid, sid_session[s] # NoCid, removing = NoCid,
           NEW n, RemoveSession(s, n), UNCHANGED plugin_vars, removing' = sid_session[s]
    PROVE  MapsAgree'
<1>1. PICK c \in Cid : c = sid_session[s]
  BY DEF Typed
<1>2. c # NoCid /\ cid_session[c] = s /\ 0 \notin Sid
  BY <1>1, GateAssumption DEF MapsAgree, Mirrored, Sid
<1>3. /\ cid_session' = [cid_session EXCEPT ![c] = 0]
      /\ sid_session' = [sid_session EXCEPT ![s] = NoCid]
  BY <1>1 DEF RemoveSession
<1>4. Mirrored(cid_session', sid_session')
  BY <1>1, <1>2, <1>3 DEF Typed, MapsAgree, Mirrored
<1>5. Mirrored(cid_session_cpp', sid_session_cpp')
  BY DEF plugin_vars, MapsAgree, Mirrored
<1>6. \A d \in Cid : cid_session_cpp'[d] # 0 =>
         cid_session'[d] = cid_session_cpp'[d] \/ d = removing'
  BY <1>1, <1>3, GateAssumption DEF plugin_vars, Typed, MapsAgree
<1> QED
  BY <1>4, <1>5, <1>6 DEF MapsAgree, Mirrored

LEMMA PluginDropKeepsMaps ==
    ASSUME Typed, V8Typed, MapsAgree, DropFromPlugin
    PROVE  MapsAgree'
<1>1. PICK c \in Cid : c = removing
  BY DEF DropFromPlugin, V8Typed
<1>2. c # NoCid /\ 0 \notin Sid
  BY GateAssumption DEF Sid
<1>3. /\ cid_session_cpp' = [cid_session_cpp EXCEPT ![c] = 0]
      /\ sid_session_cpp' = IF cid_session_cpp[c] = 0 THEN sid_session_cpp
                              ELSE [sid_session_cpp EXCEPT ![cid_session_cpp[c]] = NoCid]
      /\ UNCHANGED script_vars
  BY <1>1 DEF DropFromPlugin, RemoveFromPlugin
<1>4. Mirrored(cid_session_cpp', sid_session_cpp')
  BY <1>2, <1>3 DEF Typed, MapsAgree, Mirrored
<1>5. Mirrored(cid_session', sid_session')
  BY <1>3 DEF script_vars, MapsAgree, Mirrored
<1>6. \A d \in Cid : cid_session_cpp'[d] # 0 => cid_session'[d] = cid_session_cpp'[d]
  BY <1>1, <1>3 DEF script_vars, Typed, MapsAgree
<1> QED
  BY <1>4, <1>5, <1>6 DEF MapsAgree, Mirrored

LEMMA PairAdded ==
    ASSUME NEW f \in [Cid -> {0} \cup Sid], NEW g \in [Sid -> {NoCid} \cup Cid],
           Mirrored(f, g), NEW c \in Cid, NEW s \in Sid, f[c] = 0, g[s] = NoCid
    PROVE  Mirrored([f EXCEPT ![c] = s], [g EXCEPT ![s] = c])
<1>1. PICK h : h = [f EXCEPT ![c] = s]
  OBVIOUS
<1>2. PICK k : k = [g EXCEPT ![s] = c]
  OBVIOUS
<1>3. /\ h[c] = s /\ \A d \in Cid : d # c => h[d] = f[d]
      /\ k[s] = c /\ \A t \in Sid : t # s => k[t] = g[t]
  BY <1>1, <1>2
<1>4. ASSUME NEW d \in Cid, h[d] # 0
      PROVE  k[h[d]] = d
  <2>1. CASE d = c
    BY <1>3, <2>1
  <2>2. CASE d # c
    <3>1. h[d] = f[d] /\ f[d] \in Sid /\ g[f[d]] = d
      BY <1>3, <1>4, <2>2 DEF Mirrored
    <3>2. f[d] # s
      BY <3>1, GateAssumption
    <3> QED
      BY <1>3, <3>1, <3>2
  <2> QED
    BY <2>1, <2>2
<1>5. ASSUME NEW t \in Sid, k[t] # NoCid
      PROVE  h[k[t]] = t
  <2>1. CASE t = s
    BY <1>3, <2>1
  <2>2. CASE t # s
    <3>1. k[t] = g[t] /\ g[t] \in Cid /\ f[g[t]] = t
      BY <1>3, <1>5, <2>2 DEF Mirrored
    <3>2. g[t] # c
      BY <3>1 DEF Sid
    <3> QED
      BY <1>3, <3>1, <3>2
  <2> QED
    BY <2>1, <2>2
<1> QED
  BY <1>1, <1>2, <1>4, <1>5 DEF Mirrored

LEMMA GrantKeepsMaps ==
    ASSUME Typed, MapsAgree, SidsKept, AsksKept, TokenVerified
    PROVE  MapsAgree'
<1>1. PICK msg : msg = Head(net["center_gate"])
  OBVIOUS
<1>2. PICK s \in Sid, c \in Cid : s = msg.sid /\ c = msg.cid
  BY <1>1, GrantArrives DEF TokenVerified
<1>3. cid_session[c] = 0 /\ sid_session[s] = NoCid /\ 0 \notin Sid /\ c # NoCid /\ s # 0
  BY <1>1, <1>2, GrantArrives, GateAssumption DEF TokenVerified, Sid
<1>4. cid_session_cpp[c] = 0 /\ sid_session_cpp[s] = NoCid
  BY <1>2, <1>3, GateAssumption DEF MapsAgree, Mirrored, Typed, TokenVerified, V8Idle
<1>5. /\ cid_session' = [cid_session EXCEPT ![c] = s]
      /\ sid_session' = [sid_session EXCEPT ![s] = c]
      /\ cid_session_cpp' = [cid_session_cpp EXCEPT ![c] = s]
      /\ sid_session_cpp' = [sid_session_cpp EXCEPT ![s] = c]
  BY <1>1, <1>2, <1>4 DEF TokenVerified, Typed
<1>6. Mirrored(cid_session', sid_session')
  BY <1>3, <1>5, PairAdded DEF Typed, MapsAgree
<1>7. Mirrored(cid_session_cpp', sid_session_cpp')
  BY <1>4, <1>5, PairAdded DEF Typed, MapsAgree
<1>8. \A d \in Cid : cid_session_cpp'[d] # 0 =>
         cid_session'[d] = cid_session_cpp'[d] \/ d = removing'
  BY <1>5 DEF Typed, MapsAgree, TokenVerified
<1> QED
  BY <1>6, <1>7, <1>8 DEF MapsAgree, Mirrored

LEMMA SameMaps ==
    ASSUME MapsAgree, UNCHANGED script_vars, UNCHANGED plugin_vars, UNCHANGED removing
    PROVE  MapsAgree'
BY DEF MapsAgree, Mirrored, script_vars, plugin_vars

LEMMA GateKeepsMaps ==
    ASSUME Typed, V8Typed, MapsAgree, SidsKept, AsksKept, GateStep
    PROVE  MapsAgree'
<1>1. ASSUME NEW c \in Cid, GateDropCid(c)
      PROVE  MapsAgree'
  <2>1. CASE cid_session[c] # 0
    BY <1>1, <2>1, SessionOf, DropKeepsMaps DEF GateDropCid, V8Idle
  <2>2. CASE cid_session[c] = 0
    BY <1>1, <2>2, SameMaps DEF GateDropCid
  <2> QED
    BY <2>1, <2>2
<1>2. ASSUME NEW c \in Cid, ConnectGate(c)
      PROVE  MapsAgree'
  <2>1. cid_session[c] = 0
    BY <1>2 DEF ConnectGate, AsksKept, AsksOnce, ToAsk
  <2> QED
    BY <1>2, <2>1, NothingToRemove, SameMaps DEF ConnectGate, CloseSession, V8Idle, v8_vars
<1>3. ASSUME NEW c \in Cid, Heartbeat(c)
      PROVE  MapsAgree'
  BY <1>3, NothingToRemove, SameMaps DEF Heartbeat, CloseSession, V8Idle, v8_vars
<1>4. CASE \/ \E c \in Cid : FilterClientMsg(c)
           \/ FilterServerMsg \/ SessionAdded \/ TransmitMsg
  BY <1>4, SameMaps DEF FilterClientMsg, FilterServerMsg, SessionAdded, TransmitMsg,
     v8_vars
<1>5. CASE TokenVerified
  BY <1>5, GrantKeepsMaps
<1>6. CASE TokenRejected
  BY <1>6, RejectArrives, NothingToRemove, SameMaps DEF TokenRejected, CloseSession,
     V8Idle, v8_vars
<1>7. CASE GateLogout
  <2>1. PICK s : s = Head(net["game_gate"]).sid
    OBVIOUS
  <2>2. s \in Sid
    <3>1. Head(net["game_gate"]) \in OfSession
      BY <1>7, Links, Took DEF GateLogout, Arrives, Typed
    <3> QED
      BY <2>1, <3>1 DEF OfSession
  <2>3. CASE sid_session[s] = NoCid
    BY <1>7, <2>1, <2>3, SameMaps DEF GateLogout, v8_vars
  <2>4. CASE sid_session[s] # NoCid
    BY <1>7, <2>1, <2>2, <2>4, RemoveKeepsMaps DEF GateLogout, CloseSession, v8_vars
  <2> QED
    BY <2>3, <2>4
<1>8. CASE AddToGame
  BY <1>8, SameMaps DEF AddToGame
<1>9. CASE DropFromPlugin
  BY <1>9, PluginDropKeepsMaps
<1> QED
  BY <1>1, <1>2, <1>3, <1>4, <1>5, <1>6, <1>7, <1>8, <1>9 DEF GateStep

LEMMA OthersKeepMaps ==
    ASSUME MapsAgree,
           (\E c \in Cid : Connect(c) \/ ClientStep(c)) \/ CenterStep \/ GameStep
    PROVE  MapsAgree'
<1>1. UNCHANGED script_vars /\ UNCHANGED plugin_vars /\ UNCHANGED v8_vars
  BY DEF Connect, ClientStep, ClientConnect, ClientSend, ClientDrop, CenterStep,
         GameStep, gate_vars
<1> QED
  BY <1>1, SameMaps DEF v8_vars

-----------------------------------------------------------------------------
(***************************************************************************)
(* What a handler's step does to the links: it takes a message from k and  *)
(* sends one to l, or does one of both.                                    *)
(***************************************************************************)
LEMMA Moves ==
    ASSUME NetTyped(net), NEW k \in Link, net[k] # <<>>, NEW l \in Link \ {k},
           NEW m \in MsgOn[l], net' = Send(Taken(k), l, m)
    PROVE  /\ Head(net[k]) \in MsgOn[k]
           /\ \A j \in Link \ {k, l} : net'[j] = net[j]
           /\ \A K : Holds(net[k], K) <=> Head(net[k]) \in K \/ Holds(net'[k], K)
           /\ \A K : AtMostOne(net[k], K) =>
                        /\ AtMostOne(net'[k], K)
                        /\ Head(net[k]) \in K => ~Holds(net'[k], K)
           /\ \A K : Holds(net'[l], K) <=> Holds(net[l], K) \/ m \in K
           /\ \A K : AtMostOne(net[l], K) /\ (m \in K => ~Holds(net[l], K))
                        => AtMostOne(net'[l], K)
<1>1. PICK n : n = Taken(k)
  OBVIOUS
<1>2. NetTyped(n) /\ n[l] = net[l]
  BY <1>1, Took
<1>3. net' = Send(n, l, m)
  BY <1>1
<1>4. net'[k] = n[k]
  BY <1>2, <1>3, Sent
<1>5. \A j \in Link \ {k, l} : net'[j] = net[j]
  BY <1>1, <1>2, <1>3, Took, Sent
<1>6. /\ \A K : Holds(net'[l], K) <=> Holds(net[l], K) \/ m \in K
      /\ \A K : AtMostOne(net[l], K) /\ (m \in K => ~Holds(net[l], K))
                   => AtMostOne(net'[l], K)
  BY <1>2, <1>3, Sent
<1>7. /\ Head(net[k]) \in MsgOn[k]
      /\ \A K : Holds(net[k], K) <=> Head(net[k]) \in K \/ Holds(net'[k], K)
      /\ \A K : AtMostOne(net[k], K) =>
                   /\ AtMostOne(net'[k], K)
                   /\ Head(net[k]) \in K => ~Holds(net'[k], K)
  BY <1>1, <1>4, Took
<1> QED
  BY <1>5, <1>6, <1>7

LEMMA Leaves ==
    ASSUME NetTyped(net), NEW k \in Link, net[k] # <<>>, net' = Taken(k)
    PROVE  /\ Head(net[k]) \in MsgOn[k]
           /\ \A j \in Link \ {k} : net'[j] = net[j]
           /\ \A K : Holds(net[k], K) <=> Head(net[k]) \in K \/ Holds(net'[k], K)
           /\ \A K : AtMostOne(net[k], K) =>
                        /\ AtMostOne(net'[k], K)
                        /\ Head(net[k]) \in K => ~Holds(net'[k], K)
BY Took

LEMMA Joins ==
    ASSUME NetTyped(net), NEW l \in Link, NEW m \in MsgOn[l], net' = Send(net, l, m)
    PROVE  /\ \A j \in Link \ {l} : net'[j] = net[j]
           /\ \A K : Holds(net'[l], K) <=> Holds(net[l], K) \/ m \in K
           /\ \A K : AtMostOne(net[l], K) /\ (m \in K => ~Holds(net[l], K))
                        => AtMostOne(net'[l], K)
BY Sent

-----------------------------------------------------------------------------
(***************************************************************************)
(* Connections ask once.  First a step that is not about connection c.     *)
(***************************************************************************)
LEMMA AsksNoMore ==
    ASSUME NEW c \in Cid, AsksOnce(c),
           client'[c] = "new" <=> client[c] = "new",
           inbox'[c] = inbox[c], cid_session'[c] \in {0, cid_session[c]},
           AtMostOne(net'["gate_center"], AskOf(c)),
           AtMostOne(net'["center_gate"], AnswerTo(c)),
           Verifying(c)' <=> Verifying(c), Answered(c)' <=> Answered(c)
    PROVE  AsksOnce(c)'
BY DEF AsksOnce, ToAsk, NextIs

LEMMA AsksElsewhere ==
    ASSUME NEW c \in Cid, AsksOnce(c),
           client'[c] = "new" <=> client[c] = "new",
           inbox'[c] = inbox[c], cid_session'[c] \in {0, cid_session[c]},
           net'["gate_center"] = net["gate_center"],
           net'["center_gate"] = net["center_gate"]
    PROVE  AsksOnce(c)'
<1>1. /\ AtMostOne(net'["gate_center"], AskOf(c))
      /\ AtMostOne(net'["center_gate"], AnswerTo(c))
  BY DEF AsksOnce
<1>2. (Verifying(c)' <=> Verifying(c)) /\ (Answered(c)' <=> Answered(c))
  BY DEF Verifying, Answered
<1> QED
  BY <1>1, <1>2, AsksNoMore

(***************************************************************************)
(* Behind a client's first message there is no further request to connect. *)
(***************************************************************************)
LEMMA Asked ==
    ASSUME Typed, NEW c \in Cid, AsksOnce(c), inbox[c] # <<>>, TakeFrom(c)
    PROVE  /\ client[c] # "new"
           /\ \A i \in DOMAIN inbox'[c] : inbox'[c][i].id # "CONNECT_GATE"
           /\ ~NextIs(c, "CONNECT_GATE")'
           /\ \A d \in Cid : d # c => inbox'[d] = inbox[d]
<1>1. inbox[c] \in Seq(Request)
  BY DEF Typed
<1>2. inbox'[c] = Tail(inbox[c]) /\ \A d \in Cid : d # c => inbox'[d] = inbox[d]
  BY DEF TakeFrom, Typed
<1>3. /\ Len(inbox[c]) \in Nat \ {0} /\ DOMAIN inbox[c] = 1 .. Len(inbox[c])
      /\ DOMAIN inbox'[c] = 1 .. Len(inbox[c]) - 1
      /\ \A i \in 1 .. Len(inbox[c]) - 1 : inbox'[c][i] = inbox[c][i + 1]
      /\ inbox'[c] \in Seq(Request)
  BY <1>1, <1>2, LenProperties, HeadTailProperties, EmptySeq
<1>4. \A i \in DOMAIN inbox'[c] : inbox'[c][i].id # "CONNECT_GATE"
  BY <1>3 DEF AsksOnce
<1>5. ~NextIs(c, "CONNECT_GATE")'
  <2>1. inbox'[c] # <<>> => Head(inbox'[c]) = inbox'[c][1] /\ 1 \in DOMAIN inbox'[c]
    BY <1>3, LenProperties, EmptySeq
  <2> QED
    BY <1>4, <2>1 DEF NextIs
<1> QED
  BY <1>2, <1>4, <1>5 DEF AsksOnce

LEMMA ClientsKeepAsks ==
    ASSUME Typed, AsksKept, NEW d \in Cid, Connect(d) \/ ClientStep(d)
    PROVE  AsksKept'
<1> SUFFICES ASSUME NEW c \in Cid PROVE AsksOnce(c)'
  BY DEF AsksKept
<1>1. AsksOnce(c) /\ net' = net /\ cid_session' = cid_session
  BY DEF AsksKept, Connect, ClientStep, ClientConnect, ClientSend, ClientDrop, script_vars
<1>2. CASE c # d
  BY <1>1, <1>2, AsksElsewhere
     DEF Typed, Connect, ClientStep, ClientConnect, ClientSend, ClientDrop
<1>3. CASE c = d /\ Connect(d)
  <2>1. PICK m : m.id = "CONNECT_GATE" /\ inbox'[c] = <<m>> /\ client'[c] = "open"
          /\ client[c] = "new"
    BY <1>3 DEF Connect, ClientConnect, Typed
  <2>2. /\ AtMostOne(net'["gate_center"], AskOf(c))
        /\ AtMostOne(net'["center_gate"], AnswerTo(c))
        /\ ~Verifying(c)' /\ ~Answered(c)' /\ cid_session'[c] = 0
    BY <1>1, <2>1 DEF AsksOnce, ToAsk, Verifying, Answered
  <2>3. \A i \in DOMAIN inbox'[c] : ~(i > 1)
    BY <2>1
  <2> QED
    BY <2>1, <2>2, <2>3 DEF AsksOnce
<1>4. CASE c = d /\ ClientStep(d)
  <2>1. CASE ClientDrop(d)
    BY <1>1, <1>4, <2>1, AsksElsewhere DEF ClientDrop, Typed
  <2>2. ASSUME NEW id \in {"HEARTBEAT", "ENTER_GAME", "ROLE_INFO"}, ClientSend(d, id)
        PROVE  AsksOnce(c)'
    <3>1. /\ client' = client /\ client[c] # "new"
          /\ inbox'[c] = Append(inbox[c], [id |-> id]) /\ inbox[c] \in Seq(Request)
      BY <1>4, <2>2 DEF ClientSend, Typed
    <3>2. /\ Len(inbox[c]) \in Nat /\ DOMAIN inbox[c] = 1 .. Len(inbox[c])
          /\ DOMAIN inbox'[c] = 1 .. Len(inbox[c]) + 1
          /\ \A i \in 1 .. Len(inbox[c]) : inbox'[c][i] = inbox[c][i]
          /\ inbox'[c][Len(inbox[c]) + 1].id = id
          /\ inbox'[c] \in Seq(Request \cup {[id |-> id]})
      BY <3>1, LenProperties, AppendProperties
    <3>3. \A i \in DOMAIN inbox'[c] : i > 1 => inbox'[c][i].id # "CONNECT_GATE"
      BY <1>1, <3>2 DEF AsksOnce
    <3>4. NextIs(c, "CONNECT_GATE")' => NextIs(c, "CONNECT_GATE")
      <4>1. Head(inbox'[c]) = inbox'[c][1]
        BY <3>2, LenProperties, EmptySeq
      <4>2. CASE inbox[c] = <<>>
        BY <3>2, <4>1, <4>2 DEF NextIs
      <4>3. CASE inbox[c] # <<>>
        <5>1. Head(inbox[c]) = inbox[c][1] /\ 1 \in 1 .. Len(inbox[c])
          BY <3>1, <3>2, <4>3, EmptySeq
        <5> QED
          BY <3>2, <4>1, <4>3, <5>1 DEF NextIs
      <4> QED
        BY <4>2, <4>3
    <3>5. /\ AtMostOne(net'["gate_center"], AskOf(c))
          /\ AtMostOne(net'["center_gate"], AnswerTo(c))
          /\ (Verifying(c)' <=> Verifying(c)) /\ (Answered(c)' <=> Answered(c))
      BY <1>1 DEF AsksOnce, Verifying, Answered
    <3> QED
      BY <1>1, <3>1, <3>3, <3>4, <3>5 DEF AsksOnce, ToAsk
  <2> QED
    BY <1>4, <2>1, <2>2 DEF ClientStep
<1> QED
  BY <1>2, <1>3, <1>4

(***************************************************************************)
(* The center answers the request it takes.                                *)
(***************************************************************************)
LEMMA AnswerKeepsAsks ==
    ASSUME Typed, AsksKept, Arrives("gate_center", "VERIFY_TOKEN"),
           UNCHANGED gate_vars,
           NEW m \in FromCenter, m \in AnswerTo(Head(net["gate_center"]).cid),
           net' = Send(Taken("gate_center"), "center_gate", m)
    PROVE  AsksKept'
<1> SUFFICES ASSUME NEW c \in Cid PROVE AsksOnce(c)'
  BY DEF AsksKept
<1>1. PICK msg : msg = Head(net["gate_center"])
  OBVIOUS
<1>2. NetTyped(net) /\ net["gate_center"] # <<>> /\ AsksOnce(c)
  BY DEF Typed, Arrives, AsksKept
<1>3. /\ Verifying(c) <=> msg \in AskOf(c) \/ Verifying(c)'
      /\ AtMostOne(net'["gate_center"], AskOf(c))
      /\ msg \in AskOf(c) => ~Verifying(c)'
      /\ Answered(c)' <=> Answered(c) \/ m \in AnswerTo(c)
      /\ AtMostOne(net["center_gate"], AnswerTo(c)) /\ (m \in AnswerTo(c) => ~Answered(c))
           => AtMostOne(net'["center_gate"], AnswerTo(c))
  BY <1>1, <1>2, Links, Moves DEF Verifying, Answered, AsksOnce
<1>4. UNCHANGED <<client, inbox, cid_session>>
  BY DEF gate_vars, client_vars, script_vars
<1>5. msg.cid \in Cid /\ msg \in ToCenter /\ msg.id = "VERIFY_TOKEN"
  BY <1>1, <1>2, AskArrives
<1>6. CASE c = msg.cid
  <2>1. msg \in AskOf(c) /\ m \in AnswerTo(c)
    BY <1>1, <1>5, <1>6 DEF AskOf
  <2>2. Verifying(c) /\ ~Answered(c) /\ ~ToAsk(c) /\ cid_session[c] = 0
    BY <1>2, <1>3, <2>1 DEF AsksOnce
  <2>3. /\ ~Verifying(c)' /\ ~ToAsk(c)' /\ cid_session'[c] = 0
        /\ AtMostOne(net'["center_gate"], AnswerTo(c))
    BY <1>2, <1>3, <1>4, <2>1, <2>2 DEF AsksOnce, ToAsk, NextIs
  <2> QED
    BY <1>2, <1>3, <1>4, <2>3 DEF AsksOnce
<1>7. CASE c # msg.cid
  <2>1. msg \notin AskOf(c) /\ m \notin AnswerTo(c)
    BY <1>1, <1>7 DEF AskOf, AnswerTo
  <2> QED
    BY <1>2, <1>3, <1>4, <2>1, AsksNoMore DEF AsksOnce
<1> QED
  BY <1>6, <1>7

LEMMA CenterKeepsAsks ==
    ASSUME Typed, Tokens, AsksKept, CenterStep
    PROVE  AsksKept'
<1>1. UNCHANGED gate_vars /\ UNCHANGED <<client, inbox, cid_session>> /\ NetTyped(net)
  BY DEF CenterStep, gate_vars, client_vars, script_vars, Typed
<1>2. CASE VerifyToken
  <2>1. PICK msg : msg = Head(net["gate_center"])
    OBVIOUS
  <2> DEFINE m == [id |-> "VERIFY_TOKEN", sid |-> sid_idx + 1,
                   cid |-> msg.cid, account |-> msg.account]
  <2>2. m \in FromCenter /\ m.id = "VERIFY_TOKEN" /\ m.cid = msg.cid
    BY <1>1, <1>2, <2>1, AskArrives, NextSid DEF VerifyToken, FromCenter
  <2>3. net' = Send(Taken("gate_center"), "center_gate", m)
          /\ Arrives("gate_center", "VERIFY_TOKEN")
    BY <1>2, <2>1 DEF VerifyToken
  <2> HIDE DEF m
  <2>4. m \in AnswerTo(Head(net["gate_center"]).cid)
    BY <2>1, <2>2 DEF AnswerTo
  <2> QED
    BY <1>1, <2>2, <2>3, <2>4, AnswerKeepsAsks
<1>3. CASE RejectToken
  <2>1. PICK msg : msg = Head(net["gate_center"])
    OBVIOUS
  <2> DEFINE m == [id |-> "NODE_CODE", sid |-> msg.cid]
  <2>2. m \in FromCenter /\ m.id = "NODE_CODE" /\ m.sid = msg.cid
    BY <1>1, <1>3, <2>1, AskArrives DEF RejectToken, FromCenter
  <2>3. net' = Send(Taken("gate_center"), "center_gate", m)
          /\ Arrives("gate_center", "VERIFY_TOKEN")
    BY <1>3, <2>1 DEF RejectToken
  <2> HIDE DEF m
  <2>4. m \in AnswerTo(Head(net["gate_center"]).cid)
    BY <2>1, <2>2 DEF AnswerTo
  <2> QED
    BY <1>1, <2>2, <2>3, <2>4, AnswerKeepsAsks
<1>4. CASE CenterRemoveSession
  <2> SUFFICES ASSUME NEW c \in Cid PROVE AsksOnce(c)'
    BY DEF AsksKept
  <2>1. net["gate_center"] # <<>> /\ Head(net["gate_center"]) \notin AskOf(c) /\ AsksOnce(c)
    BY <1>4 DEF CenterRemoveSession, Arrives, AskOf, AsksKept
  <2>2. /\ Verifying(c)' <=> Verifying(c)
        /\ AtMostOne(net'["gate_center"], AskOf(c))
        /\ net'["center_gate"] = net["center_gate"]
    BY <1>1, <1>4, <2>1, Links, Leaves DEF CenterRemoveSession, Verifying, AsksOnce
  <2> QED
    BY <1>1, <2>1, <2>2, AsksNoMore DEF Answered, AsksOnce
<1>5. CASE (\E a \in Account : SelectGate(a)) \/ CenterTokenHandler
  <2>1. net' = net
    BY <1>5 DEF SelectGate, CenterTokenHandler
  <2> QED
    BY <1>1, <2>1, AsksElsewhere DEF AsksKept
<1> QED
  BY <1>2, <1>3, <1>4, <1>5 DEF CenterStep

LEMMA GameElsewhere ==
    ASSUME NetTyped(net), GameStep
    PROVE  /\ net'["gate_center"] = net["gate_center"]
           /\ net'["center_gate"] = net["center_gate"]
BY DEF GameStep, GameAddSession, EnterGame, EndSession, ClientRequest, PlayerData,
       GameLogout, DbRetCode, DataServer, Send, Taken, Link, NetTyped

LEMMA GameKeepsAsks ==
    ASSUME Typed, AsksKept, GameStep
    PROVE  AsksKept'
<1>1. UNCHANGED <<client, inbox, cid_session>>
  BY DEF GameStep, gate_vars, client_vars, script_vars
<1> QED
  BY <1>1, GameElsewhere, AsksElsewhere DEF AsksKept, Typed

LEMMA RemovalKeepsAsks ==
    ASSUME Typed, AsksKept, NEW s \in Sid, NEW n, NetTyped(n),
           n["gate_center"] = net["gate_center"], n["center_gate"] = net["center_gate"],
           RemoveSession(s, n), inbox' = inbox,
           \A c \in Cid : client'[c] = "new" <=> client[c] = "new"
    PROVE  AsksKept'
<1> SUFFICES ASSUME NEW c \in Cid PROVE AsksOnce(c)'
  BY DEF AsksKept
<1> DEFINE logout == [id |-> "LOGOUT", sid |-> s]
           removal == [id |-> "REMOVE_SESSION", sid |-> s]
<1>1. PICK o : o = Send(n, "gate_game", logout)
  OBVIOUS
<1>2. net' = Send(o, "gate_center", removal)
  BY <1>1 DEF RemoveSession
<1>3. logout \in OfSession /\ removal \in ToCenter /\ removal \notin AskOf(c)
  BY DEF OfSession, ToCenter, AskOf
<1> HIDE DEF logout, removal
<1>4. NetTyped(o) /\ o["gate_center"] = net["gate_center"]
        /\ o["center_gate"] = net["center_gate"]
  BY <1>1, <1>3, Links, Sent
<1>5. net'["center_gate"] = net["center_gate"]
  BY <1>2, <1>3, <1>4, Links, Sent
<1>6. /\ Verifying(c)' <=> Verifying(c)
      /\ AtMostOne(net["gate_center"], AskOf(c))
           => AtMostOne(net'["gate_center"], AskOf(c))
  BY <1>2, <1>3, <1>4, Links, Sent DEF Verifying
<1>7. cid_session'[c] \in {0, cid_session[c]}
  BY DEF RemoveSession, Typed
<1> QED
  BY <1>5, <1>6, <1>7, AsksNoMore DEF AsksKept, AsksOnce, Answered

(***************************************************************************)
(* The gate takes a message of connection d, or acts on a drop or an       *)
(* answer of the center.                                                   *)
(***************************************************************************)
LEMMA InboxKeepsAsks ==
    ASSUME Typed, AsksKept, NEW d \in Cid, inbox[d] # <<>>, TakeFrom(d),
           net' = net, cid_session' = cid_session,
           \A c \in Cid : client'[c] = "new" <=> client[c] = "new"
    PROVE  AsksKept'
<1> SUFFICES ASSUME NEW c \in Cid PROVE AsksOnce(c)'
  BY DEF AsksKept
<1>1. CASE c = d
  BY <1>1, Asked DEF AsksKept, AsksOnce, ToAsk, Verifying, Answered
<1>2. CASE c # d
  BY <1>2, Asked, AsksElsewhere DEF AsksKept
<1> QED
  BY <1>1, <1>2

LEMMA RequestKeepsAsks ==
    ASSUME Typed, AsksKept, NEW d \in Cid, NextIs(d, "CONNECT_GATE"), TakeFrom(d),
           NEW m \in ToCenter, m.id = "VERIFY_TOKEN", m.cid = d,
           net' = Send(net, "gate_center", m),
           cid_session' = cid_session, client' = client
    PROVE  AsksKept'
<1> SUFFICES ASSUME NEW c \in Cid PROVE AsksOnce(c)'
  BY DEF AsksKept
<1>1. AsksOnce(c) /\ NetTyped(net)
  BY DEF AsksKept, Typed
<1>2. /\ net'["center_gate"] = net["center_gate"]
      /\ Verifying(c)' <=> Verifying(c) \/ m \in AskOf(c)
      /\ AtMostOne(net["gate_center"], AskOf(c)) /\ (m \in AskOf(c) => ~Verifying(c))
           => AtMostOne(net'["gate_center"], AskOf(c))
  BY <1>1, Links, Joins DEF Verifying
<1>3. inbox[d] # <<>>
  BY DEF NextIs
<1>4. CASE c = d
  <2>1. ToAsk(c) /\ ~Verifying(c) /\ ~Answered(c) /\ cid_session[c] = 0
    BY <1>1, <1>4 DEF ToAsk, AsksOnce
  <2>2. /\ client'[c] # "new" /\ ~ToAsk(c)'
        /\ \A i \in DOMAIN inbox'[c] : inbox'[c][i].id # "CONNECT_GATE"
    BY <1>1, <1>3, <1>4, Asked DEF ToAsk
  <2>3. ~Answered(c)'
    BY <1>2, <2>1 DEF Answered
  <2>4. AtMostOne(net'["gate_center"], AskOf(c))
    BY <1>1, <1>2, <2>1 DEF AsksOnce
  <2>5. AtMostOne(net'["center_gate"], AnswerTo(c))
    BY <1>1, <1>2 DEF AsksOnce
  <2> QED
    BY <2>1, <2>2, <2>3, <2>4, <2>5 DEF AsksOnce
<1>5. CASE c # d
  <2>1. m \notin AskOf(c) /\ inbox'[c] = inbox[c]
    BY <1>5 DEF AskOf, TakeFrom, Typed
  <2> QED
    BY <1>1, <1>2, <2>1, AsksNoMore DEF AsksOnce, Answered
<1> QED
  BY <1>4, <1>5

LEMMA TakenAnswerKeepsAsks ==
    ASSUME Typed, AsksKept, net["center_gate"] # <<>>, NEW d \in Cid,
           Head(net["center_gate"]) \in AnswerTo(d),
           net' = Taken("center_gate"),
           inbox' = inbox, \A c \in Cid : client'[c] = "new" <=> client[c] = "new",
           \A c \in Cid : c # d => cid_session'[c] = cid_session[c]
    PROVE  AsksKept'
<1> SUFFICES ASSUME NEW c \in Cid PROVE AsksOnce(c)'
  BY DEF AsksKept
<1>1. PICK msg : msg = Head(net["center_gate"])
  OBVIOUS
<1>2. AsksOnce(c) /\ NetTyped(net)
  BY DEF AsksKept, Typed
<1>3. /\ net'["gate_center"] = net["gate_center"]
      /\ \A K : Holds(net["center_gate"], K) <=> msg \in K \/ Holds(net'["center_gate"], K)
      /\ \A K : AtMostOne(net["center_gate"], K) =>
                   /\ AtMostOne(net'["center_gate"], K)
                   /\ msg \in K => ~Holds(net'["center_gate"], K)
  BY <1>1, <1>2, Links, Leaves
<1>4. /\ Answered(c) <=> msg \in AnswerTo(c) \/ Answered(c)'
      /\ AtMostOne(net'["center_gate"], AnswerTo(c))
      /\ msg \in AnswerTo(c) => ~Answered(c)'
  BY <1>2, <1>3 DEF Answered, AsksOnce
<1>5. CASE c = d
  <2>1. Answered(c) /\ ~Answered(c)' /\ ~Verifying(c) /\ ~ToAsk(c)
    BY <1>1, <1>2, <1>4, <1>5 DEF AsksOnce
  <2>2. ~Verifying(c)' /\ ~ToAsk(c)'
    BY <1>3, <2>1 DEF Verifying, ToAsk, NextIs
  <2> QED
    BY <1>2, <1>3, <1>4, <2>1, <2>2 DEF AsksOnce
<1>6. CASE c # d
  <2>1. msg \notin AnswerTo(c)
    BY <1>1, <1>6 DEF AnswerTo
  <2> QED
    BY <1>2, <1>3, <1>4, <1>6, <2>1, AsksNoMore DEF AsksOnce, Verifying
<1> QED
  BY <1>5, <1>6

LEMMA GateKeepsAsks ==
    ASSUME Typed, MapsAgree, AsksKept, SidsKept, GateStep
    PROVE  AsksKept'
<1>1. NetTyped(net)
  BY DEF Typed
<1>2. ASSUME NEW d \in Cid, GateDropCid(d)
      PROVE  AsksKept'
  <2>1. inbox' = inbox /\ \A c \in Cid : client'[c] = "new" <=> client[c] = "new"
    BY <1>2 DEF GateDropCid, Typed
  <2>2. CASE cid_session[d] # 0
    BY <1>1, <1>2, <2>1, <2>2, SessionOf, RemovalKeepsAsks DEF GateDropCid
  <2>3. CASE cid_session[d] = 0
    BY <1>2, <2>1, <2>3, AsksElsewhere DEF GateDropCid, script_vars, AsksKept
  <2> QED
    BY <2>2, <2>3
<1>3. ASSUME NEW d \in Cid, ConnectGate(d)
      PROVE  AsksKept'
  <2>1. NextIs(d, "CONNECT_GATE") /\ TakeFrom(d) /\ inbox[d] # <<>>
          /\ cid_session' = cid_session
    BY <1>3 DEF ConnectGate, NextIs, script_vars
  <2>2. CASE CloseSession(d) /\ net' = net
    BY <2>1, <2>2, CloseClientTyped, InboxKeepsAsks DEF CloseSession
  <2>3. CASE /\ net' = Send(net, "gate_center",
                            [id |-> "VERIFY_TOKEN", sid |-> d, cid |-> d,
                             account |-> AccountOf[d], token |-> Head(inbox[d]).token])
             /\ UNCHANGED <<client, plugin_vars>>
    <3> DEFINE m == [id |-> "VERIFY_TOKEN", sid |-> d, cid |-> d,
                     account |-> AccountOf[d], token |-> Head(inbox[d]).token]
    <3>1. Head(inbox[d]) \in Request /\ Head(inbox[d]).id = "CONNECT_GATE"
      BY <2>1, HeadTailProperties DEF NextIs, Typed
    <3>2. m \in ToCenter /\ m.id = "VERIFY_TOKEN" /\ m.cid = d
      BY <3>1, GateAssumption DEF ToCenter, Request
    <3> HIDE DEF m
    <3> QED
      BY <2>1, <2>3, <3>2, RequestKeepsAsks DEF m
  <2> QED
    BY <1>3, <2>2, <2>3 DEF ConnectGate
<1>4. ASSUME NEW d \in Cid, Heartbeat(d)
      PROVE  AsksKept'
  <2>1. /\ inbox[d] # <<>> /\ TakeFrom(d) /\ net' = net /\ cid_session' = cid_session
        /\ CloseClient(d) \/ client' = client
    BY <1>4 DEF Heartbeat, NextIs, script_vars, CloseSession
  <2> QED
    BY <2>1, CloseClientTyped, InboxKeepsAsks
<1>5. ASSUME NEW d \in Cid, FilterClientMsg(d)
      PROVE  AsksKept'
  BY <1>5, InboxKeepsAsks DEF FilterClientMsg, script_vars
<1>6. CASE FilterServerMsg \/ SessionAdded \/ TransmitMsg
  <2>1. /\ net'["gate_center"] = net["gate_center"]
        /\ net'["center_gate"] = net["center_gate"]
    BY <1>1, <1>6 DEF FilterServerMsg, SessionAdded, TransmitMsg, Taken, Send, NetTyped, Link
  <2>2. inbox' = inbox /\ cid_session' = cid_session
    BY <1>6 DEF FilterServerMsg, SessionAdded, TransmitMsg, client_vars, script_vars
  <2>3. \A c \in Cid : client'[c] = "new" <=> client[c] = "new"
    <3>1. CASE TransmitMsg
      <4>1. Head(plugin_list) \in Forward
        BY <3>1, HeadTailProperties DEF TransmitMsg, Typed
      <4>2. client' = client \/ \E d \in Cid : CloseClient(d)
        BY <3>1, <4>1 DEF TransmitMsg, Forward
      <4> QED
        BY <4>2, CloseClientTyped
    <3> QED
      BY <1>6, <3>1 DEF FilterServerMsg, SessionAdded, client_vars
  <2> QED
    BY <2>1, <2>2, <2>3, AsksElsewhere DEF AsksKept
<1>7. CASE TokenVerified
  <2>1. PICK msg : msg = Head(net["center_gate"])
    OBVIOUS
  <2>2. /\ net["center_gate"] # <<>> /\ msg.sid \in Sid /\ msg.cid \in Cid
        /\ msg \in AnswerTo(msg.cid)
    BY <1>7, <2>1, GrantArrives DEF TokenVerified
  <2>3. /\ inbox' = inbox /\ client' = client
        /\ \A c \in Cid : c # msg.cid => cid_session'[c] = cid_session[c]
    BY <1>7, <2>1, <2>2 DEF TokenVerified, client_vars, Typed
  <2> QED
    BY <1>7, <2>1, <2>2, <2>3, TakenAnswerKeepsAsks DEF TokenVerified
<1>8. CASE TokenRejected
  <2>1. PICK msg : msg = Head(net["center_gate"])
    OBVIOUS
  <2>2. /\ net["center_gate"] # <<>> /\ msg.sid \in Cid /\ msg \in AnswerTo(msg.sid)
    BY <1>8, <2>1, RejectArrives DEF TokenRejected, AnswerTo
  <2>3. /\ inbox' = inbox /\ cid_session' = cid_session /\ net' = Taken("center_gate")
        /\ CloseClient(msg.sid)
    BY <1>8, <2>1 DEF TokenRejected, CloseSession, script_vars
  <2> QED
    BY <2>1, <2>2, <2>3, CloseClientTyped, TakenAnswerKeepsAsks
<1>9. CASE GateLogout
  <2>1. PICK s : s = Head(net["game_gate"]).sid
    OBVIOUS
  <2>2. net["game_gate"] # <<>> /\ Head(net["game_gate"]) \in OfSession
    BY <1>1, <1>9, Links, Took DEF GateLogout, Arrives
  <2>3. s \in Sid
    BY <2>1, <2>2 DEF OfSession
  <2>4. /\ NetTyped(Taken("game_gate"))
        /\ Taken("game_gate")["gate_center"] = net["gate_center"]
        /\ Taken("game_gate")["center_gate"] = net["center_gate"]
    BY <1>1, <2>2, Links, Took
  <2>5. CASE sid_session[s] = NoCid
    BY <1>9, <2>1, <2>4, <2>5, AsksElsewhere DEF GateLogout, script_vars, AsksKept
  <2>6. CASE sid_session[s] # NoCid
    <3>1. sid_session[s] \in Cid
      BY <2>3, <2>6 DEF Typed
    <3>2. RemoveSession(s, Taken("game_gate")) /\ CloseClient(sid_session[s])
      BY <1>9, <2>1, <2>6 DEF GateLogout, CloseSession
    <3> QED
      BY <1>9, <2>3, <2>4, <3>1, <3>2, CloseClientTyped, RemovalKeepsAsks DEF GateLogout
  <2> QED
    BY <2>5, <2>6
<1>10. CASE AddToGame \/ DropFromPlugin
  <2>1. /\ net'["gate_center"] = net["gate_center"]
        /\ net'["center_gate"] = net["center_gate"]
    BY <1>1, <1>10 DEF AddToGame, DropFromPlugin, Send, NetTyped, Link
  <2> QED
    BY <1>10, <2>1, AsksElsewhere DEF AddToGame, DropFromPlugin, client_vars, script_vars, AsksKept
<1> QED
  BY <1>2, <1>3, <1>4, <1>5, <1>6, <1>7, <1>8, <1>9, <1>10 DEF GateStep

-----------------------------------------------------------------------------
(***************************************************************************)
(* Session ids live once.  First a step that is not about session s.       *)
(***************************************************************************)
LivesOn(s) ==
    /\ AtMostOne(net'["center_gate"], GrantOf(s))
    /\ AtMostOne(net'["gate_center"], RemovalOf(s))
    /\ AtMostOne(net'["gate_game"], OfKind("LOGOUT", s))
    /\ AtMostOne(net'["game_data"], SaveOf(s))
    /\ AtMostOne(net'["data_game"], SavedOf(s))
    /\ (Granted(s)' <=> Granted(s)) /\ (Removed(s)' <=> Removed(s))
    /\ (LoggingOut(s)' <=> LoggingOut(s))
    /\ (Saving(s)' <=> Saving(s)) /\ (Saved(s)' <=> Saved(s))
    /\ (Adding(s) => Adding(s)') /\ (Ending(s) => Ending(s)')

LEMMA NotAbout ==
    ASSUME NEW s \in Sid, SidKept(s), LivesOn(s),
           sid_idx \in Nat, sid_idx' \in Nat, sid_idx' >= sid_idx,
           sid_session'[s] = sid_session[s],
           s \in sid_set' <=> s \in sid_set, s \in sid_logout' <=> s \in sid_logout,
           s \in sid_login => s \in sid_login'
    PROVE  SidKept(s)'
<1>1. s \in Nat
  BY DEF Sid
<1>2. LivesOnce(s)'
  BY <1>1 DEF LivesOn, SidKept, LivesOnce, Ended
<1>3. AccountedFor(s)' /\ AwaitsSave(s)' /\ KnownToGame(s)'
  BY DEF LivesOn, SidKept, AccountedFor, AwaitsSave, KnownToGame
<1> QED
  BY <1>2, <1>3 DEF SidKept

LEMMA LinksAlone ==
    ASSUME NEW s, SidKept(s), \A l \in Link : net'[l] = net[l], adding' = adding
    PROVE  LivesOn(s)
BY Links DEF SidKept, LivesOnce, LivesOn, Granted, Removed, LoggingOut, Saving, Saved,
             Adding, Ending

(***************************************************************************)
(* sid_idx counts the tokens that have earned a session.                   *)
(***************************************************************************)
LEMMA IdxCounts ==
    ASSUME Tokens
    PROVE  sid_idx \in Nat
<1>1. IsFiniteSet(Token) /\ Earned \subseteq Token
  BY FS_Interval, LinksAssumption DEF Token, Earned
<1> QED
  BY <1>1, FS_Subset, FS_CardinalityType DEF Tokens

(***************************************************************************)
(* A link on which a message of no concern to s came, went, or neither.    *)
(***************************************************************************)
LEMMA SidsSame ==
    ASSUME SidsKept, Tokens, \A s \in Sid : LivesOn(s),
           UNCHANGED <<sid_set, sid_idx, sid_session, game_vars>>
    PROVE  SidsKept'
<1>1. ASSUME NEW s \in Sid
      PROVE  SidKept(s)'
  BY <1>1, IdxCounts, NotAbout DEF SidsKept, game_vars
<1> QED
  BY <1>1 DEF SidsKept, game_vars

LEMMA CenterKeepsSids ==
    ASSUME Typed, Tokens, SidsKept, CenterStep
    PROVE  SidsKept'
<1> adding' = adding
  BY DEF CenterStep, gate_vars, v8_vars
<1>1. /\ NetTyped(net) /\ sid_idx \in Nat
      /\ UNCHANGED <<sid_session, sid_login, sid_player, sid_logout>>
  BY IdxCounts DEF CenterStep, gate_vars, script_vars, game_vars, Typed
<1>2. CASE VerifyToken
  <2>1. PICK msg : msg = Head(net["gate_center"])
    OBVIOUS
  <2>2. PICK new : new = sid_idx + 1
    OBVIOUS
  <2> DEFINE m == [id |-> "VERIFY_TOKEN", sid |-> new,
                   cid |-> msg.cid, account |-> msg.account]
  <2>3. new \in Sid /\ sid_idx' = new /\ sid_set' = sid_set \cup {new}
    BY <1>1, <1>2, <2>1, <2>2, NextSid DEF VerifyToken
  <2>4. m \in FromCenter /\ m.id = "VERIFY_TOKEN" /\ m.sid = new
    BY <1>1, <1>2, <2>1, <2>3, AskArrives DEF VerifyToken, FromCenter
  <2>5. /\ net' = Send(Taken("gate_center"), "center_gate", m)
        /\ net["gate_center"] # <<>> /\ msg.id = "VERIFY_TOKEN"
    BY <1>2, <2>1, <2>2 DEF VerifyToken, Arrives
  <2> HIDE DEF m
  <2>6. ASSUME NEW s \in Sid
        PROVE  SidKept(s)'
    <3>1. msg \notin RemovalOf(s) /\ (m \in GrantOf(s) <=> s = new)
      BY <2>4, <2>5 DEF RemovalOf, GrantOf
    <3>2. SidKept(s) /\ s \in Nat
      BY DEF SidsKept, Sid
    <3>3. \A l \in Link \ {"gate_center", "center_gate"} : net'[l] = net[l]
      BY <1>1, <2>4, <2>5, Links, Moves
    <3>4. /\ Removed(s)' <=> Removed(s)
          /\ AtMostOne(net'["gate_center"], RemovalOf(s))
      BY <1>1, <2>1, <2>4, <2>5, <3>1, <3>2, Links, Moves DEF Removed, SidKept, LivesOnce
    <3>5. /\ Granted(s)' <=> Granted(s) \/ s = new
          /\ AtMostOne(net["center_gate"], GrantOf(s)) /\ (s = new => ~Granted(s))
               => AtMostOne(net'["center_gate"], GrantOf(s))
      BY <1>1, <2>4, <2>5, <3>1, Links, Moves DEF Granted
    <3>6. /\ AtMostOne(net'["gate_game"], OfKind("LOGOUT", s))
          /\ AtMostOne(net'["game_data"], SaveOf(s))
          /\ AtMostOne(net'["data_game"], SavedOf(s))
          /\ (LoggingOut(s)' <=> LoggingOut(s))
          /\ (Saving(s)' <=> Saving(s)) /\ (Saved(s)' <=> Saved(s))
          /\ (Adding(s)' <=> Adding(s)) /\ (Ending(s)' <=> Ending(s))
      BY <3>2, <3>3, Links
         DEF SidKept, LivesOnce, LoggingOut, Saving, Saved, Adding, Ending
    <3>7. CASE s = new
      <4>1. ~Granted(s) /\ sid_session[s] = NoCid /\ ~Ended(s)
        BY <1>1, <2>2, <3>2, <3>7 DEF SidKept, LivesOnce
      <4>2. LivesOnce(s)'
        BY <1>1, <2>3, <3>2, <3>4, <3>5, <3>6, <3>7, <4>1 DEF SidKept, LivesOnce, Ended
      <4>3. AccountedFor(s)' /\ KnownToGame(s)'
        BY <1>1, <2>3, <3>5, <3>7, <4>1 DEF AccountedFor, KnownToGame
      <4>4. AwaitsSave(s)'
        BY <1>1, <3>2, <3>6 DEF SidKept, AwaitsSave
      <4> QED
        BY <4>2, <4>3, <4>4 DEF SidKept
    <3>8. CASE s # new
      <4>1. LivesOn(s)
        BY <3>2, <3>4, <3>5, <3>6, <3>8 DEF LivesOn, SidKept, LivesOnce
      <4> QED
        BY <1>1, <2>2, <2>3, <3>2, <3>8, <4>1, NotAbout
    <3> QED
      BY <3>7, <3>8
  <2>7. sid_set' \subseteq Sid /\ sid_logout' \subseteq Sid
    BY <1>1, <2>3 DEF SidsKept
  <2> QED
    BY <2>6, <2>7 DEF SidsKept
<1>3. CASE RejectToken
  <2>1. PICK msg : msg = Head(net["gate_center"])
    OBVIOUS
  <2> DEFINE m == [id |-> "NODE_CODE", sid |-> msg.cid]
  <2>2. m \in FromCenter /\ m.id = "NODE_CODE"
    BY <1>1, <1>3, <2>1, AskArrives DEF RejectToken, FromCenter
  <2>3. /\ net' = Send(Taken("gate_center"), "center_gate", m)
        /\ net["gate_center"] # <<>> /\ msg.id = "VERIFY_TOKEN"
    BY <1>3, <2>1 DEF RejectToken, Arrives
  <2> HIDE DEF m
  <2>4. ASSUME NEW s \in Sid
        PROVE  LivesOn(s)
    <3>1. msg \notin RemovalOf(s) /\ m \notin GrantOf(s) /\ SidKept(s)
      BY <2>2, <2>3 DEF RemovalOf, GrantOf, SidsKept
    <3>2. \A l \in Link \ {"gate_center", "center_gate"} : net'[l] = net[l]
      BY <1>1, <2>2, <2>3, Links, Moves
    <3>3. /\ (Removed(s)' <=> Removed(s)) /\ (Granted(s)' <=> Granted(s))
          /\ AtMostOne(net'["gate_center"], RemovalOf(s))
          /\ AtMostOne(net'["center_gate"], GrantOf(s))
      BY <1>1, <2>1, <2>2, <2>3, <3>1, Links, Moves
         DEF Removed, Granted, SidKept, LivesOnce
    <3> QED
      BY <3>1, <3>2, <3>3, Links
         DEF LivesOn, SidKept, LivesOnce, LoggingOut, Saving, Saved, Adding, Ending
  <2> QED
    BY <1>1, <1>3, <2>4, SidsSame DEF RejectToken, game_vars
<1>4. CASE CenterRemoveSession
  <2>1. PICK msg : msg = Head(net["gate_center"])
    OBVIOUS
  <2>2. /\ net["gate_center"] # <<>> /\ net' = Taken("gate_center")
        /\ msg.id = "REMOVE_SESSION" /\ sid_set' = sid_set \ {msg.sid}
        /\ sid_idx' = sid_idx
    BY <1>4, <2>1 DEF CenterRemoveSession, Arrives
  <2>3. msg \in ToCenter
    BY <1>1, <2>1, <2>2, Links, Leaves
  <2>4. ASSUME NEW s \in Sid
        PROVE  SidKept(s)'
    <3>1. (msg \in RemovalOf(s) <=> s = msg.sid) /\ SidKept(s)
      BY <2>2, <2>3 DEF RemovalOf, SidsKept
    <3>2. \A l \in Link \ {"gate_center"} : net'[l] = net[l]
      BY <1>1, <2>2, Links, Leaves
    <3>3. /\ Removed(s) <=> s = msg.sid \/ Removed(s)'
          /\ AtMostOne(net'["gate_center"], RemovalOf(s))
          /\ s = msg.sid => ~Removed(s)'
      BY <1>1, <2>1, <2>2, <3>1, Links, Leaves DEF Removed, SidKept, LivesOnce
    <3>4. /\ AtMostOne(net'["center_gate"], GrantOf(s))
          /\ AtMostOne(net'["gate_game"], OfKind("LOGOUT", s))
          /\ AtMostOne(net'["game_data"], SaveOf(s))
          /\ AtMostOne(net'["data_game"], SavedOf(s))
          /\ (Granted(s)' <=> Granted(s)) /\ (LoggingOut(s)' <=> LoggingOut(s))
          /\ (Saving(s)' <=> Saving(s)) /\ (Saved(s)' <=> Saved(s))
          /\ (Adding(s)' <=> Adding(s)) /\ (Ending(s)' <=> Ending(s))
      BY <3>1, <3>2, Links
         DEF SidKept, LivesOnce, Granted, LoggingOut, Saving, Saved, Adding, Ending
    <3>5. CASE s = msg.sid
      <4>1. ~Granted(s) /\ sid_session[s] = NoCid /\ ~Removed(s)'
        BY <3>1, <3>3, <3>5 DEF SidKept, LivesOnce, Ended
      <4>2. LivesOnce(s)'
        BY <1>1, <2>2, <3>1, <3>3, <3>4, <4>1 DEF SidKept, LivesOnce, Ended
      <4>3. AccountedFor(s)' /\ KnownToGame(s)'
        BY <1>1, <2>2, <3>4, <3>5, <4>1 DEF AccountedFor, KnownToGame
      <4>4. AwaitsSave(s)'
        BY <1>1, <3>1, <3>4 DEF SidKept, AwaitsSave
      <4> QED
        BY <4>2, <4>3, <4>4 DEF SidKept
    <3>6. CASE s # msg.sid
      <4>1. LivesOn(s)
        BY <3>3, <3>4, <3>6 DEF LivesOn
      <4> QED
        BY <1>1, <2>2, <3>1, <3>6, <4>1, NotAbout
    <3> QED
      BY <3>5, <3>6
  <2> QED
    BY <1>1, <2>2, <2>4 DEF SidsKept
<1>5. CASE (\E a \in Account : SelectGate(a)) \/ CenterTokenHandler
  <2>1. net' = net /\ UNCHANGED <<sid_set, sid_idx>>
    BY <1>5 DEF SelectGate, CenterTokenHandler
  <2> QED
    BY <1>1, <2>1, LinksAlone, SidsSame DEF SidsKept, game_vars
<1> QED
  BY <1>2, <1>3, <1>4, <1>5 DEF CenterStep

(***************************************************************************)
(* The gate removes session d, n being the links with the message handled  *)
(* taken from the game server's, if there was one.                         *)
(***************************************************************************)
LEMMA RemovalKeepsSids ==
    ASSUME Typed, Tokens, SidsKept, NEW d \in Sid, sid_session[d] # NoCid,
           NEW n, NetTyped(n), \A l \in Link \ {"game_gate"} : n[l] = net[l],
           \A s \in Sid \ {d} : Ending(s) => Holds(n["game_gate"], OfKind("LOGOUT", s)),
           RemoveSession(d, n), UNCHANGED <<adding, sid_set, sid_idx, game_vars>>
    PROVE  SidsKept'
<1> DEFINE logout == [id |-> "LOGOUT", sid |-> d]
           removal == [id |-> "REMOVE_SESSION", sid |-> d]
<1>1. PICK o : o = Send(n, "gate_game", logout)
  OBVIOUS
<1>2. net' = Send(o, "gate_center", removal) /\ sid_session' = [sid_session EXCEPT ![d] = NoCid]
  BY <1>1 DEF RemoveSession
<1>3. /\ logout \in OfSession /\ removal \in ToCenter
      /\ \A s \in Sid : /\ logout \in OfKind("LOGOUT", s) <=> s = d
                        /\ removal \in RemovalOf(s) <=> s = d
  BY DEF OfSession, ToCenter, OfKind, RemovalOf
<1> HIDE DEF logout, removal
<1>4. NetTyped(o)
  BY <1>1, <1>3, Links, Sent
<1>5. /\ net'["center_gate"] = net["center_gate"]
      /\ net'["game_data"] = net["game_data"] /\ net'["data_game"] = net["data_game"]
      /\ net'["game_gate"] = n["game_gate"]
      /\ net'["gate_game"] = o["gate_game"] /\ o["gate_center"] = net["gate_center"]
  <2>1. /\ "gate_game" \in Link /\ logout \in MsgOn["gate_game"]
        /\ "gate_center" \in Link /\ removal \in MsgOn["gate_center"]
    BY <1>3, Links
  <2>2. \A l \in Link \ {"gate_game"} : o[l] = n[l]
    BY <1>1, <2>1, Sent
  <2>3. \A l \in Link \ {"gate_center"} : net'[l] = o[l]
    BY <1>2, <1>4, <2>1, Sent
  <2> QED
    BY <2>2, <2>3, Links
<1>6. ASSUME NEW s \in Sid
      PROVE  SidKept(s)'
  <2>1. SidKept(s) /\ sid_idx \in Nat /\ sid_idx' = sid_idx
    BY IdxCounts DEF SidsKept
  <2>2. /\ LoggingOut(s)' <=> LoggingOut(s) \/ s = d
        /\ AtMostOne(net["gate_game"], OfKind("LOGOUT", s)) /\ (s = d => ~LoggingOut(s))
             => AtMostOne(net'["gate_game"], OfKind("LOGOUT", s))
        /\ Adding(s) => Adding(s)'
    <3>1. n["gate_game"] = net["gate_game"]
      BY Links
    <3>2. /\ \A K : Holds(net'["gate_game"], K) <=> Holds(net["gate_game"], K) \/ logout \in K
          /\ \A K : AtMostOne(net["gate_game"], K)
                      /\ (logout \in K => ~Holds(net["gate_game"], K))
                   => AtMostOne(net'["gate_game"], K)
      <4>1. "gate_game" \in Link /\ logout \in MsgOn["gate_game"]
        BY <1>3, Links
      <4>2. /\ \A K : Holds(o["gate_game"], K) <=> Holds(n["gate_game"], K) \/ logout \in K
            /\ \A K : AtMostOne(n["gate_game"], K)
                        /\ (logout \in K => ~Holds(n["gate_game"], K))
                     => AtMostOne(o["gate_game"], K)
        BY <1>1, <4>1, Sent
      <4> QED
        BY <1>5, <3>1, <4>2
    <3> QED
      BY <1>3, <3>2 DEF LoggingOut, Adding
  <2>3. /\ Removed(s)' <=> Removed(s) \/ s = d
        /\ AtMostOne(net["gate_center"], RemovalOf(s)) /\ (s = d => ~Removed(s))
             => AtMostOne(net'["gate_center"], RemovalOf(s))
    BY <1>2, <1>3, <1>4, <1>5, Links, Sent DEF Removed
  <2>4. /\ AtMostOne(net'["center_gate"], GrantOf(s))
        /\ AtMostOne(net'["game_data"], SaveOf(s))
        /\ AtMostOne(net'["data_game"], SavedOf(s))
        /\ (Granted(s)' <=> Granted(s))
        /\ (Saving(s)' <=> Saving(s)) /\ (Saved(s)' <=> Saved(s))
    BY <1>5, <2>1 DEF SidKept, LivesOnce, Granted, Saving, Saved
  <2>5. CASE s = d
    <3>1. ~Granted(s) /\ ~Ended(s) /\ s <= sid_idx /\ sid_session'[s] = NoCid
      BY <1>2, <2>1, <2>5 DEF SidKept, LivesOnce, Typed
    <3>2. LivesOnce(s)'
      BY <2>1, <2>2, <2>3, <2>4, <3>1 DEF SidKept, LivesOnce, Ended
    <3>3. AccountedFor(s)' /\ AwaitsSave(s)' /\ KnownToGame(s)'
      BY <2>1, <2>3, <2>4, <2>5, <3>1
         DEF SidKept, AccountedFor, AwaitsSave, KnownToGame, game_vars
    <3> QED
      BY <3>2, <3>3 DEF SidKept
  <2>6. CASE s # d
    <3>1. Ending(s) => Ending(s)'
      BY <1>5, <2>6 DEF Ending
    <3>2. LivesOn(s)
      BY <2>1, <2>2, <2>3, <2>4, <2>6, <3>1 DEF LivesOn, SidKept, LivesOnce
    <3>3. sid_session'[s] = sid_session[s]
      BY <1>2, <2>6 DEF Typed
    <3> QED
      BY <2>1, <3>2, <3>3, NotAbout DEF game_vars
  <2> QED
    BY <2>5, <2>6
<1> QED
  BY <1>6 DEF SidsKept, game_vars

(***************************************************************************)
(* The gate adds a session that the center has granted.                    *)
(***************************************************************************)
LEMMA GrantKeepsSids ==
    ASSUME Typed, Tokens, AsksKept, SidsKept, TokenVerified,
           UNCHANGED <<sid_set, sid_idx, game_vars>>
    PROVE  SidsKept'
<1>1. PICK msg : msg = Head(net["center_gate"])
  OBVIOUS
<1>2. PICK d \in Sid, c \in Cid : d = msg.sid /\ c = msg.cid
  BY <1>1, GrantArrives DEF TokenVerified
<1>3. /\ NetTyped(net) /\ net["center_gate"] # <<>> /\ msg.id = "VERIFY_TOKEN"
      /\ Granted(d) /\ c # NoCid /\ sid_idx \in Nat
  BY <1>1, <1>2, GrantArrives, IdxCounts, GateAssumption DEF TokenVerified, Typed, Arrives
<1>4. adding = 0 /\ adding' = d /\ 0 \notin Sid
  BY <1>1, <1>2 DEF TokenVerified, V8Idle, Sid
<1>5. net' = Taken("center_gate") /\ sid_session' = [sid_session EXCEPT ![d] = c]
  BY <1>1, <1>2 DEF TokenVerified
<1>6. msg \in FromCenter
  BY <1>1, <1>3, Links, Took
<1>7. ASSUME NEW s \in Sid
      PROVE  SidKept(s)'
  <2>1. SidKept(s) /\ sid_idx' = sid_idx /\ (msg \in GrantOf(s) <=> s = d)
    BY <1>2, <1>3, <1>6 DEF SidsKept, GrantOf
  <2>2. /\ Granted(s) <=> s = d \/ Granted(s)'
        /\ AtMostOne(net'["center_gate"], GrantOf(s))
        /\ s = d => ~Granted(s)'
    BY <1>1, <1>3, <1>5, <2>1, Links, Leaves DEF Granted, SidKept, LivesOnce
  <2>3. \A l \in Link \ {"center_gate"} : net'[l] = net[l]
    BY <1>3, <1>5, Links, Leaves
  <2>4. /\ LoggingOut(s)' <=> LoggingOut(s)
        /\ AtMostOne(net'["gate_game"], OfKind("LOGOUT", s))
        /\ (Adding(s) => Adding(s)') /\ (s = d => Adding(s)')
    BY <1>4, <2>1, <2>3, Links DEF LoggingOut, Adding, SidKept, LivesOnce
  <2>5. /\ AtMostOne(net'["gate_center"], RemovalOf(s))
        /\ AtMostOne(net'["game_data"], SaveOf(s))
        /\ AtMostOne(net'["data_game"], SavedOf(s))
        /\ (Removed(s)' <=> Removed(s)) /\ (Saving(s)' <=> Saving(s))
        /\ (Saved(s)' <=> Saved(s)) /\ (Ending(s)' <=> Ending(s))
    BY <2>1, <2>3, Links DEF SidKept, LivesOnce, Removed, Saving, Saved, Ending
  <2>6. CASE s = d
    <3>1. /\ ~Granted(s)' /\ ~Ended(s) /\ s <= sid_idx
          /\ sid_session[s] = NoCid /\ sid_session'[s] # NoCid
      BY <1>3, <1>5, <2>1, <2>2, <2>6 DEF SidKept, LivesOnce, Typed
    <3>2. LivesOnce(s)'
      BY <2>1, <2>2, <2>4, <2>5, <3>1 DEF SidKept, LivesOnce, Ended
    <3>3. AccountedFor(s)' /\ AwaitsSave(s)' /\ KnownToGame(s)'
      BY <1>3, <2>1, <2>4, <2>5, <2>6, <3>1
         DEF SidKept, AccountedFor, AwaitsSave, KnownToGame, game_vars
    <3> QED
      BY <3>2, <3>3 DEF SidKept
  <2>7. CASE s # d
    <3>1. LivesOn(s)
      BY <2>2, <2>4, <2>5, <2>7 DEF LivesOn
    <3>2. sid_session'[s] = sid_session[s]
      BY <1>5, <2>7 DEF Typed
    <3> QED
      BY <1>3, <2>1, <3>1, <3>2, NotAbout DEF game_vars
  <2> QED
    BY <2>6, <2>7
<1> QED
  BY <1>7 DEF SidsKept, game_vars

LEMMA GateKeepsSids ==
    ASSUME Typed, V8Typed, Tokens, MapsAgree, AsksKept, SidsKept, GateStep
    PROVE  SidsKept'
<1>1. NetTyped(net) /\ UNCHANGED <<sid_set, sid_idx, game_vars>>
  BY DEF Typed, GateStep, center_vars
<1>2. ASSUME net' = net, sid_session' = sid_session, adding' = adding
      PROVE  SidsKept'
  BY <1>1, <1>2, LinksAlone, SidsSame DEF SidsKept
<1>3. ASSUME NEW id \in {"ADD_SESSION", "ENTER_GAME", "ROLE_INFO"},
             Arrives("game_gate", id), net' = Taken("game_gate"),
             sid_session' = sid_session, adding' = adding
      PROVE  SidsKept'
  <2>1. ASSUME NEW s \in Sid
        PROVE  LivesOn(s)
    <3>1. net["game_gate"] # <<>> /\ Head(net["game_gate"]) \notin OfKind("LOGOUT", s)
      BY <1>3 DEF Arrives, OfKind
    <3>2. \A k \in Link \ {"game_gate"} : net'[k] = net[k]
      BY <1>1, <1>3, <3>1, Links, Leaves
    <3>3. Ending(s) => Ending(s)'
      BY <1>1, <1>3, <3>1, Links, Leaves DEF Ending
    <3> QED
      BY <1>3, <3>2, <3>3, Links DEF SidsKept, SidKept, LivesOnce, LivesOn, Granted, Removed,
                               LoggingOut, Saving, Saved, Adding
  <2> QED
    BY <1>1, <1>3, <2>1, SidsSame
<1>4. ASSUME NEW c \in Cid, GateDropCid(c)
      PROVE  SidsKept'
  <2>1. CASE cid_session[c] # 0
    <3>1. RemoveSession(cid_session[c], net) /\ adding' = adding
      BY <1>4, <2>1 DEF GateDropCid
    <3> QED
      BY <1>1, <2>1, <3>1, SessionOf, RemovalKeepsSids DEF Ending
  <2>2. CASE cid_session[c] = 0
    BY <1>2, <1>4, <2>2 DEF GateDropCid, script_vars, v8_vars
  <2> QED
    BY <2>1, <2>2
<1>5. ASSUME NEW c \in Cid, ConnectGate(c)
      PROVE  SidsKept'
  <2>1. CASE net' = net
    BY <1>2, <1>5, <2>1 DEF ConnectGate, script_vars, v8_vars
  <2>2. CASE net' = Send(net, "gate_center",
                         [id |-> "VERIFY_TOKEN", sid |-> c, cid |-> c,
                          account |-> AccountOf[c], token |-> Head(inbox[c]).token])
    <3> DEFINE m == [id |-> "VERIFY_TOKEN", sid |-> c, cid |-> c,
                     account |-> AccountOf[c], token |-> Head(inbox[c]).token]
    <3>1. Head(inbox[c]) \in Request /\ Head(inbox[c]).id = "CONNECT_GATE"
      BY <1>5, HeadTailProperties DEF ConnectGate, NextIs, Typed
    <3>2. m \in ToCenter /\ m.id = "VERIFY_TOKEN"
      BY <3>1, GateAssumption DEF ToCenter, Request
    <3> HIDE DEF m
    <3>3. \A s \in Sid : m \notin RemovalOf(s)
      BY <3>2 DEF RemovalOf
    <3> adding' = adding
      BY <1>5 DEF ConnectGate, v8_vars
    <3>4. ASSUME NEW s \in Sid
          PROVE  LivesOn(s)
      <4>1. \A k \in Link \ {"gate_center"} : net'[k] = net[k]
        BY <1>1, <2>2, <3>2, Links, Joins DEF m
      <4>2. /\ Removed(s)' <=> Removed(s)
            /\ AtMostOne(net["gate_center"], RemovalOf(s))
                 => AtMostOne(net'["gate_center"], RemovalOf(s))
        BY <1>1, <2>2, <3>2, <3>3, Links, Joins DEF Removed, m
      <4> QED
        BY <4>1, <4>2, Links DEF SidsKept, SidKept, LivesOnce, LivesOn, Granted,
                                 LoggingOut, Saving, Saved, Adding, Ending
    <3> QED
      BY <1>1, <1>5, <3>4, SidsSame DEF ConnectGate, script_vars
  <2> QED
    BY <1>5, <2>1, <2>2 DEF ConnectGate
<1>6. CASE \E c \in Cid : Heartbeat(c) \/ FilterClientMsg(c)
  BY <1>2, <1>6 DEF Heartbeat, FilterClientMsg, script_vars, v8_vars
<1>7. CASE FilterServerMsg \/ SessionAdded
  BY <1>3, <1>7 DEF FilterServerMsg, SessionAdded, script_vars, v8_vars
<1>8. CASE TokenVerified
  BY <1>1, <1>8, GrantKeepsSids
<1>9. CASE TokenRejected
  <2>1. PICK msg : msg = Head(net["center_gate"])
    OBVIOUS
  <2>2. /\ net["center_gate"] # <<>> /\ msg.id = "NODE_CODE"
        /\ net' = Taken("center_gate") /\ sid_session' = sid_session
        /\ adding' = adding
    BY <1>9, <2>1 DEF TokenRejected, Arrives, script_vars, v8_vars
  <2>3. ASSUME NEW s \in Sid
        PROVE  LivesOn(s)
    <3>1. msg \notin GrantOf(s)
      BY <2>2 DEF GrantOf
    <3>2. \A k \in Link \ {"center_gate"} : net'[k] = net[k]
      BY <1>1, <2>2, Links, Leaves
    <3>3. /\ Granted(s)' <=> Granted(s)
          /\ AtMostOne(net["center_gate"], GrantOf(s))
               => AtMostOne(net'["center_gate"], GrantOf(s))
      BY <1>1, <2>1, <2>2, <3>1, Links, Leaves DEF Granted
    <3> QED
      BY <2>2, <3>2, <3>3, Links DEF SidsKept, SidKept, LivesOnce, LivesOn, Removed,
                               LoggingOut, Saving, Saved, Adding, Ending
  <2> QED
    BY <1>1, <2>2, <2>3, SidsSame
<1>10. CASE GateLogout
  <2> adding' = adding
    BY <1>10 DEF GateLogout, v8_vars
  <2>1. PICK d : d = Head(net["game_gate"]).sid
    OBVIOUS
  <2>2. net["game_gate"] # <<>> /\ Head(net["game_gate"]) \in OfSession
    BY <1>1, <1>10, Links, Took DEF GateLogout, Arrives
  <2>3. d \in Sid
    BY <2>1, <2>2 DEF OfSession
  <2>4. /\ NetTyped(Taken("game_gate"))
        /\ \A l \in Link \ {"game_gate"} : Taken("game_gate")[l] = net[l]
        /\ \A s \in Sid \ {d} :
              Ending(s) => Holds(Taken("game_gate")["game_gate"], OfKind("LOGOUT", s))
    <3>1. \A s \in Sid \ {d} : Head(net["game_gate"]) \notin OfKind("LOGOUT", s)
      BY <2>1 DEF OfKind
    <3> QED
      BY <1>1, <2>2, <3>1, Links, Took DEF Ending
  <2>5. CASE sid_session[d] # NoCid
    BY <1>1, <1>10, <2>1, <2>3, <2>4, <2>5, RemovalKeepsSids DEF GateLogout
  <2>6. CASE sid_session[d] = NoCid
    <3>1. net' = Taken("game_gate") /\ sid_session' = sid_session
      BY <1>10, <2>1, <2>6 DEF GateLogout, script_vars
    <3>2. \A l \in Link \ {"game_gate"} : net'[l] = net[l]
      BY <2>4, <3>1
    <3>3. ASSUME NEW s \in Sid, s # d
          PROVE  SidKept(s)'
      <4>1. Ending(s) => Ending(s)'
        BY <2>4, <3>1, <3>3 DEF Ending
      <4>2. LivesOn(s)
        BY <3>2, <4>1, Links DEF SidsKept, SidKept, LivesOnce, LivesOn, Granted, Removed,
                                 LoggingOut, Saving, Saved, Adding
      <4> QED
        BY <1>1, <3>1, <4>2, IdxCounts, NotAbout DEF SidsKept, game_vars
    <3>4. SidKept(d)'
      BY <1>1, <2>3, <2>6, <3>1, <3>2, Links
         DEF SidsKept, SidKept, LivesOnce, Ended, AccountedFor, AwaitsSave, KnownToGame,
             Granted, Removed, LoggingOut, Saving, Saved, game_vars
    <3> QED
      BY <1>1, <3>3, <3>4 DEF SidsKept, game_vars
  <2> QED
    BY <2>5, <2>6
<1>11. CASE TransmitMsg
  <2>1. sid_session' = sid_session /\ adding' = adding
    BY <1>11 DEF TransmitMsg, script_vars, v8_vars
  <2>2. PICK msg : msg = Head(plugin_list)
    OBVIOUS
  <2>3. msg \in Forward
    BY <1>11, <2>2, HeadTailProperties DEF TransmitMsg, Typed
  <2>4. CASE net' = net
    BY <1>2, <2>1, <2>4
  <2>5. CASE /\ msg.from = "client" /\ cid_session_cpp[msg.cid] # 0
             /\ net' = Send(net, "gate_game",
                            [id |-> msg.id, sid |-> cid_session_cpp[msg.cid]])
    <3> DEFINE m == [id |-> msg.id, sid |-> cid_session_cpp[msg.cid]]
    <3>1. m \in OfSession /\ m.id \in {"ENTER_GAME", "ROLE_INFO"}
      BY <2>3, <2>5 DEF Forward, OfSession, Typed
    <3> HIDE DEF m
    <3>2. ASSUME NEW s \in Sid
          PROVE  LivesOn(s)
      <4>1. m \notin OfKind("LOGOUT", s)
        BY <3>1 DEF OfKind
      <4>2. \A k \in Link \ {"gate_game"} : net'[k] = net[k]
        BY <1>1, <2>5, <3>1, Links, Joins DEF m
      <4>3. /\ LoggingOut(s)' <=> LoggingOut(s)
            /\ AtMostOne(net["gate_game"], OfKind("LOGOUT", s))
                 => AtMostOne(net'["gate_game"], OfKind("LOGOUT", s))
            /\ Adding(s) => Adding(s)'
        BY <1>1, <2>1, <2>5, <3>1, <4>1, Links, Joins DEF LoggingOut, Adding, m
      <4> QED
        BY <4>2, <4>3, Links DEF SidsKept, SidKept, LivesOnce, LivesOn, Granted,
                                 Removed, Saving, Saved, Ending
    <3> QED
      BY <1>1, <2>1, <3>2, SidsSame
  <2> QED
    BY <1>11, <2>2, <2>4, <2>5 DEF TransmitMsg
<1>12. CASE AddToGame
  <2> DEFINE m == [id |-> "ADD_SESSION", sid |-> adding]
  <2>1. /\ m \in OfSession /\ m \in OfKind("ADD_SESSION", adding)
        /\ \A s \in Sid : m \notin OfKind("LOGOUT", s)
    BY <1>12 DEF AddToGame, V8Typed, OfSession, OfKind
  <2>2. net' = Send(net, "gate_game", m) /\ sid_session' = sid_session
    BY <1>12 DEF AddToGame, script_vars
  <2> HIDE DEF m
  <2>3. ASSUME NEW s \in Sid
        PROVE  LivesOn(s)
    <3>1. \A k \in Link \ {"gate_game"} : net'[k] = net[k]
      BY <1>1, <2>1, <2>2, Links, Joins
    <3>2. \A K : Holds(net'["gate_game"], K) <=> Holds(net["gate_game"], K) \/ m \in K
      BY <1>1, <2>1, <2>2, Links, Joins
    <3>3. /\ LoggingOut(s)' <=> LoggingOut(s)
          /\ Adding(s) => Adding(s)'
      BY <2>1, <3>2 DEF LoggingOut, Adding
    <3>4. AtMostOne(net["gate_game"], OfKind("LOGOUT", s))
             => AtMostOne(net'["gate_game"], OfKind("LOGOUT", s))
      BY <1>1, <2>1, <2>2, Links, Joins
    <3> QED
      BY <3>1, <3>3, <3>4, Links DEF SidsKept, SidKept, LivesOnce, LivesOn, Granted,
                               Removed, Saving, Saved, Ending
  <2> QED
    BY <1>1, <2>2, <2>3, SidsSame
<1>13. CASE DropFromPlugin
  BY <1>2, <1>13 DEF DropFromPlugin, script_vars
<1> QED
  BY <1>4, <1>5, <1>6, <1>7, <1>8, <1>9, <1>10, <1>11, <1>12, <1>13 DEF GateStep

(***************************************************************************)
(* The game server tells the gate to end the session of a request it does  *)
(* not serve.  Login data that goes is of a session whose end is asked for. *)
(***************************************************************************)
LEMMA EndSessionKeepsSids ==
    ASSUME Typed, Tokens, SidsKept, GameStep, net["gate_game"] # <<>>,
           Head(net["gate_game"]).id \in {"ENTER_GAME", "ROLE_INFO"},
           EndSession("gate_game")
    PROVE  SidsKept'
<1> adding' = adding
  BY DEF GameStep, gate_vars, v8_vars
<1>1. PICK msg : msg = Head(net["gate_game"])
  OBVIOUS
<1>2. NetTyped(net) /\ msg \in OfSession /\ sid_idx \in Nat
  BY <1>1, Links, Took, IdxCounts DEF Typed
<1>3. /\ sid_logout' = sid_logout
      /\ sid_login' = IF msg.sid \in sid_player THEN sid_login ELSE sid_login \ {msg.sid}
      /\ UNCHANGED <<sid_set, sid_idx, sid_session>>
  BY <1>1 DEF EndSession, GameStep, center_vars, gate_vars, script_vars
<1>4. /\ Reply("gate_game", "LOGOUT") \in OfSession
      /\ Reply("gate_game", "LOGOUT") \in OfKind("LOGOUT", msg.sid)
  BY <1>1, <1>2 DEF Reply, OfSession, OfKind
<1>5. ASSUME NEW s \in Sid
      PROVE  SidKept(s)'
  <2>1. SidKept(s) /\ msg \notin OfKind("LOGOUT", s) /\ msg \notin OfKind("ADD_SESSION", s)
    BY <1>1 DEF SidsKept, OfKind
  <2>2. /\ \A l \in Link \ {"gate_game", "game_gate"} : net'[l] = net[l]
        /\ AtMostOne(net'["gate_game"], OfKind("LOGOUT", s))
        /\ (LoggingOut(s)' <=> LoggingOut(s)) /\ (Adding(s)' <=> Adding(s))
        /\ Ending(s) => Ending(s)'
        /\ s = msg.sid /\ s \in sid_login => Ending(s)' \/ s \in sid_login'
    <3>1. CASE net' = Taken("gate_game") /\ msg.sid \notin sid_player \cup sid_login
      BY <1>1, <1>2, <1>3, <2>1, <3>1, Links, Leaves
         DEF LoggingOut, Adding, Ending, SidKept, LivesOnce
    <3>2. CASE net' = Send(Taken("gate_game"), "game_gate", Reply("gate_game", "LOGOUT"))
      BY <1>1, <1>2, <1>4, <2>1, <3>2, Links, Moves
         DEF LoggingOut, Adding, Ending, SidKept, LivesOnce
    <3> QED
      BY <1>1, <3>1, <3>2 DEF EndSession
  <2>3. LivesOn(s)
    BY <2>1, <2>2, Links DEF SidKept, LivesOnce, LivesOn, Granted, Removed, Saving, Saved
  <2>4. CASE s # msg.sid
    BY <1>2, <1>3, <2>1, <2>3, <2>4, NotAbout
  <2>5. CASE s = msg.sid
    <3>1. LivesOnce(s)' /\ AccountedFor(s)' /\ AwaitsSave(s)'
      BY <1>3, <2>1, <2>3
         DEF LivesOn, SidKept, LivesOnce, Ended, AccountedFor, AwaitsSave
    <3>2. KnownToGame(s)'
      BY <1>3, <2>1, <2>2, <2>5 DEF SidKept, KnownToGame
    <3> QED
      BY <3>1, <3>2 DEF SidKept
  <2> QED
    BY <2>4, <2>5
<1> QED
  BY <1>3, <1>5 DEF SidsKept

(***************************************************************************)
(* A logout sends the player's data to be saved, after which it is on the  *)
(* way to the data server or its answer on the way back.                   *)
(***************************************************************************)
LEMMA LogoutKeepsSids ==
    ASSUME Typed, Tokens, SidsKept, GameStep, GameLogout
    PROVE  SidsKept'
<1> adding' = adding
  BY DEF GameStep, gate_vars, v8_vars
<1>1. PICK msg : msg = Head(net["gate_game"])
  OBVIOUS
<1>2. /\ NetTyped(net) /\ msg \in OfSession /\ sid_idx \in Nat
      /\ net["gate_game"] # <<>> /\ msg.id = "LOGOUT" /\ msg.sid \in Sid
  <2>1. NetTyped(net) /\ msg \in OfSession /\ sid_idx \in Nat
    BY <1>1, Links, Took, IdxCounts DEF GameLogout, Arrives, Typed
  <2> QED
    BY <1>1, <2>1 DEF GameLogout, Arrives, OfSession
<1>3. UNCHANGED <<sid_set, sid_idx, sid_session>>
  BY DEF GameStep, center_vars, gate_vars, script_vars
<1>4. /\ Reply("gate_game", "SAVE_DB_DATA") \in ToData
      /\ \A s \in Sid : Reply("gate_game", "SAVE_DB_DATA") \in SaveOf(s) <=> s = msg.sid
  BY <1>1, <1>2 DEF Reply, ToData, SaveOf
<1>5. ASSUME NEW s \in Sid
      PROVE  SidKept(s)' /\ (s \in sid_logout' => s \in Sid)
  <2>1. SidKept(s) /\ (msg \in OfKind("LOGOUT", s) <=> s = msg.sid)
          /\ msg \notin OfKind("ADD_SESSION", s)
    BY <1>2 DEF SidsKept, OfKind
  <2>2. \A l \in Link \ {"gate_game", "game_data"} : net'[l] = net[l]
    BY <1>1, <1>2, <1>4, Links, Moves, Leaves DEF GameLogout
  <2>3. /\ LoggingOut(s) <=> s = msg.sid \/ LoggingOut(s)'
        /\ AtMostOne(net'["gate_game"], OfKind("LOGOUT", s))
        /\ s = msg.sid => ~LoggingOut(s)'
        /\ Adding(s)' <=> Adding(s)
    <3>1. CASE net' = Taken("gate_game")
      BY <1>1, <1>2, <2>1, <3>1, Links, Leaves DEF LoggingOut, Adding, SidKept, LivesOnce
    <3>2. CASE net' = Send(Taken("gate_game"), "game_data",
                           Reply("gate_game", "SAVE_DB_DATA"))
      BY <1>1, <1>2, <1>4, <2>1, <3>2, Links, Moves
         DEF LoggingOut, Adding, SidKept, LivesOnce
    <3> QED
      BY <3>1, <3>2 DEF GameLogout
  <2>4. /\ Saving(s)' <=> Saving(s) \/ (s = msg.sid /\ s \in sid_player)
        /\ s # msg.sid \/ ~Saving(s) => AtMostOne(net'["game_data"], SaveOf(s))
    <3>1. CASE net' = Taken("gate_game") /\ msg.sid \notin sid_player
      <4>1. net'["game_data"] = net["game_data"]
        BY <1>1, <1>2, <3>1, Links, Leaves
      <4> QED
        BY <2>1, <3>1, <4>1 DEF Saving, SidKept, LivesOnce
    <3>2. CASE /\ msg.sid \in sid_player
               /\ net' = Send(Taken("gate_game"), "game_data",
                              Reply("gate_game", "SAVE_DB_DATA"))
      <4>1. /\ Saving(s)' <=> Saving(s) \/ s = msg.sid
            /\ AtMostOne(net["game_data"], SaveOf(s)) /\ (s = msg.sid => ~Saving(s))
                 => AtMostOne(net'["game_data"], SaveOf(s))
        BY <1>1, <1>2, <1>4, <3>2, Links, Moves DEF Saving
      <4> QED
        BY <2>1, <3>2, <4>1 DEF SidKept, LivesOnce
    <3> QED
      BY <1>1, <3>1, <3>2 DEF GameLogout
  <2>5. /\ AtMostOne(net'["center_gate"], GrantOf(s))
        /\ AtMostOne(net'["gate_center"], RemovalOf(s))
        /\ AtMostOne(net'["data_game"], SavedOf(s))
        /\ (Granted(s)' <=> Granted(s)) /\ (Removed(s)' <=> Removed(s))
        /\ (Saved(s)' <=> Saved(s)) /\ (Ending(s)' <=> Ending(s))
    BY <2>1, <2>2, Links DEF SidKept, LivesOnce, Granted, Removed, Saved, Ending
  <2>6. CASE s = msg.sid
    <3>1. /\ LoggingOut(s) /\ ~LoggingOut(s)' /\ ~Saving(s) /\ ~Saved(s)
          /\ ~Granted(s) /\ sid_session[s] = NoCid /\ s <= sid_idx
      BY <2>1, <2>3, <2>6 DEF SidKept, LivesOnce, Ended
    <3>2. LivesOnce(s)'
      BY <1>3, <2>1, <2>3, <2>4, <2>5, <3>1 DEF SidKept, LivesOnce, Ended
    <3>3. AccountedFor(s)' /\ KnownToGame(s)'
      BY <1>3, <2>1, <2>5, <3>1 DEF SidKept, AccountedFor, KnownToGame
    <3>4. s \in sid_logout' <=> s \in sid_logout \/ s \in sid_player
      BY <1>1, <2>6 DEF GameLogout, game_vars
    <3>5. AwaitsSave(s)'
      BY <2>1, <2>4, <2>5, <2>6, <3>1, <3>4 DEF SidKept, AwaitsSave
    <3> QED
      BY <3>2, <3>3, <3>5 DEF SidKept
  <2>7. CASE s # msg.sid
    <3>1. LivesOn(s)
      BY <2>3, <2>4, <2>5, <2>7 DEF LivesOn
    <3>2. (s \in sid_logout' <=> s \in sid_logout) /\ (s \in sid_login => s \in sid_login')
      BY <1>1, <2>7 DEF GameLogout, game_vars
    <3> QED
      BY <1>2, <1>3, <2>1, <3>1, <3>2, NotAbout
  <2> QED
    BY <2>6, <2>7
<1>6. sid_logout' \subseteq Sid
  BY <1>1, <1>2 DEF SidsKept, GameLogout, game_vars
<1> QED
  BY <1>3, <1>5, <1>6 DEF SidsKept

LEMMA DbRetCodeKeepsSids ==
    ASSUME Typed, Tokens, SidsKept, GameStep, DbRetCode
    PROVE  SidsKept'
<1> adding' = adding
  BY DEF GameStep, gate_vars, v8_vars
<1>1. PICK msg : msg = Head(net["data_game"])
  OBVIOUS
<1>2. /\ NetTyped(net) /\ msg \in FromData /\ sid_idx \in Nat
      /\ net["data_game"] # <<>> /\ msg.id = "DB_RET_CODE"
  BY <1>1, Links, Took, IdxCounts DEF DbRetCode, Arrives, Typed
<1>3. /\ UNCHANGED <<sid_set, sid_idx, sid_session>> /\ net' = Taken("data_game")
      /\ sid_logout' = IF msg.opt = "SAVE_DB_DATA" THEN sid_logout \ {msg.sid}
                         ELSE sid_logout
      /\ sid_login' = sid_login
  BY <1>1 DEF DbRetCode, GameStep, center_vars, gate_vars, script_vars
<1>4. ASSUME NEW s \in Sid
      PROVE  SidKept(s)'
  <2>1. SidKept(s) /\ (msg \in SavedOf(s) <=> msg.opt = "SAVE_DB_DATA" /\ s = msg.sid)
    BY <1>2 DEF SidsKept, SavedOf
  <2>2. \A l \in Link \ {"data_game"} : net'[l] = net[l]
    BY <1>2, <1>3, Links, Leaves
  <2>3. /\ Saved(s) <=> msg \in SavedOf(s) \/ Saved(s)'
        /\ AtMostOne(net'["data_game"], SavedOf(s))
        /\ msg \in SavedOf(s) => ~Saved(s)'
    BY <1>1, <1>2, <1>3, <2>1, Links, Leaves DEF Saved, SidKept, LivesOnce
  <2>4. /\ AtMostOne(net'["center_gate"], GrantOf(s))
        /\ AtMostOne(net'["gate_center"], RemovalOf(s))
        /\ AtMostOne(net'["gate_game"], OfKind("LOGOUT", s))
        /\ AtMostOne(net'["game_data"], SaveOf(s))
        /\ (Granted(s)' <=> Granted(s)) /\ (Removed(s)' <=> Removed(s))
        /\ (LoggingOut(s)' <=> LoggingOut(s)) /\ (Saving(s)' <=> Saving(s))
        /\ (Adding(s)' <=> Adding(s)) /\ (Ending(s)' <=> Ending(s))
    BY <2>1, <2>2, Links
       DEF SidKept, LivesOnce, Granted, Removed, LoggingOut, Saving, Adding, Ending
  <2>5. CASE msg \in SavedOf(s)
    <3>1. /\ Saved(s) /\ ~Saved(s)' /\ ~Saving(s)'
      BY <2>1, <2>3, <2>4, <2>5 DEF SidKept, LivesOnce
    <3>2. LivesOnce(s)'
      BY <1>3, <2>1, <2>3, <2>4, <3>1 DEF SidKept, LivesOnce, Ended
    <3>3. AccountedFor(s)' /\ KnownToGame(s)'
      BY <1>3, <2>1, <2>4 DEF SidKept, AccountedFor, KnownToGame
    <3>4. AwaitsSave(s)'
      BY <1>3, <2>1, <2>5, <3>1 DEF AwaitsSave
    <3> QED
      BY <3>2, <3>3, <3>4 DEF SidKept
  <2>6. CASE msg \notin SavedOf(s)
    <3>1. LivesOn(s)
      BY <2>3, <2>4, <2>6 DEF LivesOn
    <3>2. s \in sid_logout' <=> s \in sid_logout
      BY <1>3, <2>1, <2>6
    <3> QED
      BY <1>2, <1>3, <2>1, <3>1, <3>2, NotAbout
  <2> QED
    BY <2>5, <2>6
<1> QED
  BY <1>3, <1>4 DEF SidsKept

LEMMA DataServerKeepsSids ==
    ASSUME Typed, Tokens, SidsKept, GameStep, DataServer
    PROVE  SidsKept'
<1> adding' = adding
  BY DEF GameStep, gate_vars, v8_vars
<1>1. PICK msg : msg = Head(net["game_data"])
  OBVIOUS
<1>2. /\ NetTyped(net) /\ msg \in ToData /\ sid_idx \in Nat /\ net["game_data"] # <<>>
  BY <1>1, Links, Took, IdxCounts DEF DataServer, Typed
<1>3. UNCHANGED <<sid_set, sid_idx, sid_session, game_vars>>
  BY DEF DataServer, GameStep, center_vars, gate_vars, script_vars
<1>4. PICK m \in FromData :
         /\ net' = Send(Taken("game_data"), "data_game", m)
         /\ \A s \in Sid : m \in SavedOf(s) <=> msg \in SaveOf(s)
  <2>1. CASE msg.id = "LOAD_DB_DATA"
    <3>1. PICK m \in FromData : /\ net' = Send(Taken("game_data"), "data_game", m)
                                /\ \/ m.id = "DB_RET_CODE" /\ m.opt = "LOAD_DB_DATA"
                                   \/ m.id = "SAVE_DB_DATA"
      BY <1>1, <1>2, <2>1 DEF DataServer, ToData, FromData
    <3> QED
      BY <2>1, <3>1 DEF SavedOf, SaveOf
  <2>2. CASE msg.id = "SAVE_DB_DATA"
    <3>1. PICK m \in FromData : /\ net' = Send(Taken("game_data"), "data_game", m)
                                /\ m.id = "DB_RET_CODE" /\ m.opt = "SAVE_DB_DATA"
                                /\ m.sid = msg.sid
      BY <1>1, <1>2, <2>2 DEF DataServer, ToData, FromData
    <3> QED
      BY <1>2, <2>2, <3>1 DEF SavedOf, SaveOf
  <2> QED
    BY <1>2, <2>1, <2>2 DEF ToData
<1>5. ASSUME NEW s \in Sid
      PROVE  SidKept(s)'
  <2>1. SidKept(s) /\ sid_logout' = sid_logout /\ sid_login' = sid_login
    BY <1>3 DEF SidsKept, game_vars
  <2>2. \A l \in Link \ {"game_data", "data_game"} : net'[l] = net[l]
    BY <1>2, <1>4, Links, Moves
  <2>3. /\ Saving(s) <=> msg \in SaveOf(s) \/ Saving(s)'
        /\ AtMostOne(net'["game_data"], SaveOf(s))
        /\ msg \in SaveOf(s) => ~Saving(s)'
    BY <1>1, <1>2, <1>4, <2>1, Links, Moves DEF Saving, SidKept, LivesOnce
  <2>4. /\ Saved(s)' <=> Saved(s) \/ msg \in SaveOf(s)
        /\ AtMostOne(net["data_game"], SavedOf(s)) /\ (msg \in SaveOf(s) => ~Saved(s))
             => AtMostOne(net'["data_game"], SavedOf(s))
    BY <1>2, <1>4, Links, Moves DEF Saved
  <2>5. /\ AtMostOne(net'["center_gate"], GrantOf(s))
        /\ AtMostOne(net'["gate_center"], RemovalOf(s))
        /\ AtMostOne(net'["gate_game"], OfKind("LOGOUT", s))
        /\ AtMostOne(net'["data_game"], SavedOf(s))
        /\ (Granted(s)' <=> Granted(s)) /\ (Removed(s)' <=> Removed(s))
        /\ (LoggingOut(s)' <=> LoggingOut(s))
        /\ (Adding(s)' <=> Adding(s)) /\ (Ending(s)' <=> Ending(s))
    BY <2>1, <2>2, <2>3, <2>4, Links
       DEF SidKept, LivesOnce, Granted, Removed, LoggingOut, Adding, Ending
  <2>6. CASE msg \in SaveOf(s)
    <3>1. Saving(s) /\ ~Saving(s)' /\ ~Saved(s) /\ Saved(s)'
      BY <2>1, <2>3, <2>4, <2>6 DEF SidKept, LivesOnce
    <3>2. LivesOnce(s)'
      BY <1>3, <2>1, <2>3, <2>5, <3>1 DEF SidKept, LivesOnce, Ended
    <3>3. AccountedFor(s)' /\ KnownToGame(s)' /\ AwaitsSave(s)'
      BY <1>3, <2>1, <2>5, <3>1 DEF SidKept, AccountedFor, KnownToGame, AwaitsSave
    <3> QED
      BY <3>2, <3>3 DEF SidKept
  <2>7. CASE msg \notin SaveOf(s)
    <3>1. LivesOn(s)
      BY <2>3, <2>4, <2>5, <2>7 DEF LivesOn
    <3> QED
      BY <1>2, <1>3, <2>1, <3>1, NotAbout
  <2> QED
    BY <2>6, <2>7
<1> QED
  BY <1>3, <1>5 DEF SidsKept, game_vars

(***************************************************************************)
(* Loads and requests concern no session's end.                            *)
(***************************************************************************)
LEMMA GameKeepsSids ==
    ASSUME Typed, Tokens, SidsKept, GameStep
    PROVE  SidsKept'
<1> adding' = adding
  BY DEF GameStep, gate_vars, v8_vars
<1>1. /\ NetTyped(net) /\ sid_idx \in Nat
      /\ UNCHANGED <<sid_set, sid_idx, sid_session>>
  BY IdxCounts DEF Typed, GameStep, center_vars, gate_vars, script_vars
<1>2. CASE GameAddSession
  <2>1. PICK msg : msg = Head(net["gate_game"])
    OBVIOUS
  <2>2. /\ net["gate_game"] # <<>> /\ msg.id = "ADD_SESSION"
        /\ net' = Send(Taken("gate_game"), "game_gate", Reply("gate_game", "ADD_SESSION"))
        /\ sid_login' = sid_login \cup {msg.sid} /\ sid_logout' = sid_logout
    BY <1>2, <2>1 DEF GameAddSession, Arrives
  <2>3. msg \in OfSession
    BY <1>1, <2>1, <2>2, Links, Took
  <2>4. Reply("gate_game", "ADD_SESSION") \in OfSession
    BY <2>1, <2>3 DEF Reply, OfSession
  <2>5. ASSUME NEW s \in Sid
        PROVE  SidKept(s)'
    <3>1. SidKept(s) /\ msg \notin OfKind("LOGOUT", s)
            /\ (msg \in OfKind("ADD_SESSION", s) <=> s = msg.sid)
      BY <2>2, <2>3 DEF SidsKept, OfKind
    <3>2. \A l \in Link \ {"gate_game", "game_gate"} : net'[l] = net[l]
      BY <1>1, <2>2, <2>4, Links, Moves
    <3>3. /\ LoggingOut(s)' <=> LoggingOut(s)
          /\ AtMostOne(net'["gate_game"], OfKind("LOGOUT", s))
          /\ Adding(s) <=> s = msg.sid \/ Adding(s)'
          /\ Ending(s) => Ending(s)'
      BY <1>1, <2>1, <2>2, <2>4, <3>1, Links, Moves
         DEF LoggingOut, Adding, Ending, SidKept, LivesOnce
    <3>4. /\ AtMostOne(net'["center_gate"], GrantOf(s))
          /\ AtMostOne(net'["gate_center"], RemovalOf(s))
          /\ AtMostOne(net'["game_data"], SaveOf(s))
          /\ AtMostOne(net'["data_game"], SavedOf(s))
          /\ (Granted(s)' <=> Granted(s)) /\ (Removed(s)' <=> Removed(s))
          /\ (Saving(s)' <=> Saving(s)) /\ (Saved(s)' <=> Saved(s))
      BY <3>1, <3>2, Links DEF SidKept, LivesOnce, Granted, Removed, Saving, Saved
    <3>5. LivesOnce(s)' /\ AccountedFor(s)' /\ AwaitsSave(s)'
      BY <1>1, <2>2, <3>1, <3>3, <3>4
         DEF SidKept, LivesOnce, Ended, AccountedFor, AwaitsSave
    <3>6. KnownToGame(s)'
      BY <1>1, <2>2, <3>1, <3>3 DEF SidKept, KnownToGame
    <3> QED
      BY <3>5, <3>6 DEF SidKept
  <2> QED
    BY <1>1, <2>2, <2>5 DEF SidsKept
<1>3. ASSUME NEW id \in {"ENTER_GAME", "ROLE_INFO"}, Arrives("gate_game", id),
             \/ net' = Send(Taken("gate_game"), "game_data",
                            Reply("gate_game", "LOAD_DB_DATA"))
             \/ net' = Send(Taken("gate_game"), "game_gate",
                            Reply("gate_game", "ROLE_INFO")),
             UNCHANGED game_vars
      PROVE  SidsKept'
  <2>1. PICK msg : msg = Head(net["gate_game"])
    OBVIOUS
  <2>2. net["gate_game"] # <<>> /\ msg.id = id /\ msg \in OfSession
    BY <1>1, <1>3, <2>1, Links, Took DEF Arrives
  <2>3. Reply("gate_game", "LOAD_DB_DATA") \in ToData /\ Reply("gate_game", "ROLE_INFO") \in OfSession
    BY <2>1, <2>2 DEF Reply, OfSession, ToData
  <2>4. ASSUME NEW s \in Sid
        PROVE  LivesOn(s)
    <3>1. /\ msg \notin OfKind("LOGOUT", s) /\ msg \notin OfKind("ADD_SESSION", s)
          /\ Reply("gate_game", "LOAD_DB_DATA") \notin SaveOf(s)
      BY <1>3, <2>2 DEF OfKind, SaveOf, Reply
    <3>2. SidKept(s)
      BY DEF SidsKept
    <3>3. CASE net' = Send(Taken("gate_game"), "game_data",
                           Reply("gate_game", "LOAD_DB_DATA"))
      <4>1. \A l \in Link \ {"gate_game", "game_data"} : net'[l] = net[l]
        BY <1>1, <2>2, <2>3, <3>3, Links, Moves
      <4>2. /\ LoggingOut(s)' <=> LoggingOut(s)
            /\ AtMostOne(net'["gate_game"], OfKind("LOGOUT", s))
            /\ Adding(s) <=> Adding(s)'
        BY <1>1, <2>1, <2>2, <2>3, <3>1, <3>2, <3>3, Links, Moves
           DEF LoggingOut, Adding, SidKept, LivesOnce
      <4>3. (Saving(s)' <=> Saving(s)) /\ AtMostOne(net'["game_data"], SaveOf(s))
        BY <1>1, <2>1, <2>2, <2>3, <3>1, <3>2, <3>3, Links, Moves
           DEF Saving, SidKept, LivesOnce
      <4> QED
        BY <3>2, <4>1, <4>2, <4>3, Links
           DEF LivesOn, SidKept, LivesOnce, Granted, Removed, Saved, Ending
    <3>4. CASE net' = Send(Taken("gate_game"), "game_gate",
                           Reply("gate_game", "ROLE_INFO"))
      <4>1. \A l \in Link \ {"gate_game", "game_gate"} : net'[l] = net[l]
        BY <1>1, <2>2, <2>3, <3>4, Links, Moves
      <4>2. /\ LoggingOut(s)' <=> LoggingOut(s)
            /\ AtMostOne(net'["gate_game"], OfKind("LOGOUT", s))
            /\ Adding(s) <=> Adding(s)'
            /\ Ending(s) => Ending(s)'
        BY <1>1, <2>1, <2>2, <2>3, <3>1, <3>2, <3>4, Links, Moves
           DEF LoggingOut, Adding, Ending, SidKept, LivesOnce
      <4> QED
        BY <3>2, <4>1, <4>2, Links
           DEF LivesOn, SidKept, LivesOnce, Granted, Removed, Saving, Saved
    <3> QED
      BY <1>3, <3>3, <3>4
  <2> QED
    BY <1>1, <1>3, <2>4, SidsSame
<1>4. CASE EnterGame
  BY <1>3, <1>4, EndSessionKeepsSids DEF EnterGame, Arrives
<1>5. CASE ClientRequest
  BY <1>3, <1>5, EndSessionKeepsSids DEF ClientRequest, Arrives
<1>6. CASE PlayerData
  <2>1. PICK msg : msg = Head(net["data_game"])
    OBVIOUS
  <2>2. net["data_game"] # <<>> /\ msg.id = "SAVE_DB_DATA" /\ msg \in FromData
    BY <1>1, <1>6, <2>1, Links, Took DEF PlayerData, Arrives
  <2>3. Reply("data_game", "ENTER_GAME") \in OfSession
    BY <2>1, <2>2 DEF Reply, OfSession, FromData
  <2>4. ASSUME NEW s \in Sid
        PROVE  LivesOn(s)
    <3>1. SidKept(s) /\ msg \notin SavedOf(s)
      BY <2>2 DEF SidsKept, SavedOf
    <3>2. /\ \A l \in Link \ {"data_game", "game_gate"} : net'[l] = net[l]
          /\ (Saved(s)' <=> Saved(s)) /\ AtMostOne(net'["data_game"], SavedOf(s))
          /\ Ending(s) => Ending(s)'
      <4>1. CASE net' = Taken("data_game")
        BY <1>1, <2>1, <2>2, <3>1, <4>1, Links, Leaves
           DEF Saved, Ending, SidKept, LivesOnce
      <4>2. CASE net' = Send(Taken("data_game"), "game_gate",
                             Reply("data_game", "ENTER_GAME"))
        BY <1>1, <2>1, <2>2, <2>3, <3>1, <4>2, Links, Moves
           DEF Saved, Ending, SidKept, LivesOnce
      <4> QED
        BY <1>6, <4>1, <4>2 DEF PlayerData
    <3> QED
      BY <3>1, <3>2, Links
         DEF LivesOn, SidKept, LivesOnce, Granted, Removed, LoggingOut, Saving, Adding
  <2>5. ASSUME NEW s \in Sid
        PROVE  SidKept(s)'
    BY <1>1, <1>6, <2>4, NotAbout DEF PlayerData, SidsKept
  <2> QED
    BY <1>1, <1>6, <2>5 DEF PlayerData, SidsKept
<1>7. CASE GameLogout
  BY <1>7, LogoutKeepsSids
<1>8. CASE DbRetCode
  BY <1>8, DbRetCodeKeepsSids
<1>9. CASE DataServer
  BY <1>9, DataServerKeepsSids
<1> QED
  BY <1>2, <1>4, <1>5, <1>6, <1>7, <1>8, <1>9 DEF GameStep

-----------------------------------------------------------------------------
(***************************************************************************)
(* Tokens.  Forgetting them costs no account its claim.                    *)
(***************************************************************************)
LEMMA SameEarned ==
    ASSUME sid_idx = Cardinality(Earned), UNCHANGED <<sid_idx, grants>>
    PROVE  sid_idx' = Cardinality(Earned')
BY DEF Earned

LEMMA ForgetKeepsTokens ==
    ASSUME Tokens, NEW accounts, ForgetTokens(accounts),
           UNCHANGED <<issued, grants, sid_idx>>
    PROVE  Tokens'
<1>1. /\ account_token' \in [Account -> {0} \cup Token]
      /\ \A a \in Account : account_token'[a] \in {0, account_token[a]}
  BY DEF ForgetTokens, Tokens, HeldTokensUnused
<1>2. sid_idx' = Cardinality(Earned')
  BY SameEarned DEF Tokens
<1> QED
  BY <1>1, <1>2 DEF Tokens, HeldTokensUnused, TokenEarnsOneSession, Token

LEMMA SelectGateKeepsTokens ==
    ASSUME Tokens, NEW a \in Account, SelectGate(a)
    PROVE  Tokens'
<1>1. CASE ForgetTokens({a}) /\ UNCHANGED <<issued, grants, sid_idx>>
  BY <1>1, ForgetKeepsTokens
<1>2. CASE /\ issued < MaxSid /\ issued' = issued + 1
           /\ account_token' = [account_token EXCEPT ![a] = issued + 1]
           /\ grants' = grants /\ sid_idx' = sid_idx
  <2>1. issued + 1 \in Token
    BY <1>2, LinksAssumption DEF Tokens, HeldTokensUnused, Token
  <2>2. /\ account_token' \in [Account -> {0} \cup Token]
        /\ \A b \in Account :
              account_token'[b] = IF b = a THEN issued + 1 ELSE account_token[b]
    BY <1>2, <2>1 DEF Tokens, HeldTokensUnused
  <2>3. \A b \in Account : account_token[b] \in Nat
    BY LinksAssumption DEF Tokens, HeldTokensUnused, Token
  <2>4. grants[issued + 1] = 0 /\ issued \in Nat
    BY <2>1 DEF Tokens, HeldTokensUnused
  <2>5. \A b \in Account : account_token'[b] # 0 =>
          account_token'[b] <= issued' /\ grants'[account_token'[b]] = 0
    BY <1>2, <2>2, <2>3, <2>4 DEF Tokens, HeldTokensUnused
  <2>6. \A b, c \in Account :
          account_token'[b] # 0 /\ account_token'[b] = account_token'[c] => b = c
    BY <2>2, <2>3, <2>4 DEF Tokens, HeldTokensUnused
  <2>7. \A t \in Token : t > issued' => grants'[t] = 0
    BY <1>2, <2>4, LinksAssumption DEF Tokens, HeldTokensUnused, Token
  <2>8. sid_idx' = Cardinality(Earned')
    BY <1>2, SameEarned DEF Tokens
  <2> QED
    BY <1>2, <2>2, <2>4, <2>5, <2>6, <2>7, <2>8
       DEF Tokens, HeldTokensUnused, TokenEarnsOneSession
<1> QED
  BY <1>1, <1>2 DEF SelectGate

LEMMA VerifyKeepsTokens ==
    ASSUME NetTyped(net), Tokens, VerifyToken
    PROVE  Tokens'
<1>1. PICK msg : msg = Head(net["gate_center"])
  OBVIOUS
<1>2. PICK t, a : t = msg.token /\ a = msg.account
  OBVIOUS
<1>3. /\ a \in Account /\ t \in Token /\ grants[t] = 0 /\ t <= issued
      /\ Cardinality(Earned \cup {t}) = sid_idx + 1
  BY <1>1, <1>2, AskArrives, NextSid DEF VerifyToken
<1>4. /\ account_token[a] = t /\ t # 0 /\ issued' = issued /\ sid_idx' = sid_idx + 1
      /\ grants' = [grants EXCEPT ![t] = @ + 1]
      /\ ForgetTokens({a})
  BY <1>1, <1>2 DEF VerifyToken
<1>5. /\ grants' \in [Token -> Nat]
      /\ \A u \in Token : grants'[u] = IF u = t THEN 1 ELSE grants[u]
  BY <1>3, <1>4 DEF Tokens, HeldTokensUnused
<1>6. /\ account_token' \in [Account -> {0} \cup Token]
      /\ \A b \in Account :
            account_token'[b] = IF b = a THEN 0 ELSE account_token[b]
  BY <1>4 DEF ForgetTokens, Tokens, HeldTokensUnused
<1>7. \A b \in Account : account_token'[b] # 0 =>
        account_token'[b] <= issued' /\ grants'[account_token'[b]] = 0
  <2> SUFFICES ASSUME NEW b \in Account, account_token'[b] # 0
               PROVE  account_token'[b] <= issued' /\ grants'[account_token'[b]] = 0
    OBVIOUS
  <2>1. b # a /\ account_token'[b] = account_token[b]
    BY <1>6
  <2>2. account_token[b] # t /\ account_token[b] \in Token
    BY <1>3, <1>4, <2>1 DEF Tokens, HeldTokensUnused
  <2> QED
    BY <1>4, <1>5, <2>1, <2>2 DEF Tokens, HeldTokensUnused
<1>8. \A b, c \in Account :
        account_token'[b] # 0 /\ account_token'[b] = account_token'[c] => b = c
  BY <1>6 DEF Tokens, HeldTokensUnused
<1>9. \A u \in Token : u > issued' => grants'[u] = 0
  BY <1>3, <1>4, <1>5, LinksAssumption DEF Tokens, HeldTokensUnused, Token
<1>10. \A u \in Token : grants'[u] <= 1
  BY <1>5 DEF Tokens, TokenEarnsOneSession
<1>11. sid_idx' = Cardinality(Earned')
  <2>1. Earned' = Earned \cup {t}
    BY <1>3, <1>5 DEF Earned
  <2> QED
    BY <1>3, <1>4, <2>1
<1> QED
  BY <1>4, <1>5, <1>6, <1>7, <1>8, <1>9, <1>10, <1>11
     DEF Tokens, HeldTokensUnused, TokenEarnsOneSession

LEMMA UnchangedKeepsTokens ==
    ASSUME Tokens, UNCHANGED <<account_token, issued, grants, sid_idx>>
    PROVE  Tokens'
<1>1. sid_idx' = Cardinality(Earned')
  BY SameEarned DEF Tokens
<1> QED
  BY <1>1 DEF Tokens, HeldTokensUnused, TokenEarnsOneSession

LEMMA CenterKeepsTokens ==
    ASSUME NetTyped(net), Tokens, CenterStep
    PROVE  Tokens'
<1>1. CASE \E a \in Account : SelectGate(a)
  BY <1>1, SelectGateKeepsTokens
<1>2. CASE VerifyToken
  BY <1>2, VerifyKeepsTokens
<1>3. CASE RejectToken
  BY <1>3, ForgetKeepsTokens DEF RejectToken
<1>4. CASE CenterRemoveSession
  BY <1>4, UnchangedKeepsTokens DEF CenterRemoveSession
<1>5. CASE CenterTokenHandler
  BY <1>5, ForgetKeepsTokens DEF CenterTokenHandler
<1> QED
  BY <1>1, <1>2, <1>3, <1>4, <1>5 DEF CenterStep

-----------------------------------------------------------------------------
LEMMA InitHolds == Init => IInv
<1> SUFFICES ASSUME Init PROVE IInv
  OBVIOUS
<1>1. /\ net = [l \in Link |-> <<>>] /\ sid_idx = 0 /\ sid_set = {} /\ issued = 0
      /\ grants = [t \in Token |-> 0] /\ account_token = [a \in Account |-> 0]
      /\ client = [c \in Cid |-> "new"] /\ inbox = [c \in Cid |-> <<>>]
      /\ cid_session = [c \in Cid |-> 0] /\ sid_session = [s \in Sid |-> NoCid]
      /\ cid_session_cpp = [c \in Cid |-> 0] /\ sid_session_cpp = [s \in Sid |-> NoCid]
      /\ plugin_list = <<>> /\ sid_login = {} /\ sid_logout = {}
      /\ adding = 0 /\ removing = NoCid
  BY DEF Init, LinksInit, CenterInit, GateInit, GameInit
<1>2. Typed /\ V8Typed
  BY <1>1 DEF Typed, V8Typed, NetTyped, ClientState
<1>3. Tokens
  <2>1. Earned = {}
    BY <1>1 DEF Earned
  <2>2. sid_idx = Cardinality(Earned)
    BY <1>1, <2>1, FS_EmptySet
  <2> QED
    BY <1>1, <2>2 DEF Tokens, HeldTokensUnused, TokenEarnsOneSession
<1>4. MapsAgree
  BY <1>1 DEF MapsAgree, Mirrored
<1>5. \A l \in Link : \A K : ~Holds(net[l], K) /\ AtMostOne(net[l], K)
  BY <1>1 DEF Holds, AtMostOne
<1>6. AsksKept
  <2> SUFFICES ASSUME NEW c \in Cid PROVE AsksOnce(c)
    BY DEF AsksKept
  <2>1. inbox[c] = <<>> /\ cid_session[c] = 0
    BY <1>1
  <2>2. /\ ~Verifying(c) /\ AtMostOne(net["gate_center"], AskOf(c))
        /\ ~Answered(c) /\ AtMostOne(net["center_gate"], AnswerTo(c))
    BY <1>5, Links DEF Verifying, Answered
  <2> QED
    BY <2>1, <2>2 DEF AsksOnce
<1>7. SidsKept
  <2> SUFFICES ASSUME NEW s \in Sid PROVE SidKept(s)
    BY <1>1 DEF SidsKept
  <2>1. sid_session[s] = NoCid /\ s \notin sid_set /\ s \notin sid_logout
    BY <1>1
  <2>2. /\ ~Granted(s) /\ ~Removed(s) /\ ~LoggingOut(s) /\ ~Saving(s) /\ ~Saved(s)
        /\ AtMostOne(net["center_gate"], GrantOf(s))
        /\ AtMostOne(net["gate_center"], RemovalOf(s))
        /\ AtMostOne(net["gate_game"], OfKind("LOGOUT", s))
        /\ AtMostOne(net["game_data"], SaveOf(s))
        /\ AtMostOne(net["data_game"], SavedOf(s))
    BY <1>5, Links DEF Granted, Removed, LoggingOut, Saving, Saved
  <2> QED
    BY <2>1, <2>2 DEF SidKept, LivesOnce, Ended, AccountedFor, AwaitsSave, KnownToGame
<1> QED
  BY <1>2, <1>3, <1>4, <1>6, <1>7 DEF IInv

LEMMA NextHolds == IInv /\ [Next]_vars => IInv'
<1> SUFFICES ASSUME Typed, V8Typed, Tokens, MapsAgree, AsksKept, SidsKept, [Next]_vars
             PROVE  Typed' /\ Tokens' /\ MapsAgree' /\ AsksKept' /\ SidsKept'
  BY V8Keeps DEF IInv
<1>1. NetTyped(net)
  BY DEF Typed
<1>2. CASE \E c \in Cid : Connect(c) \/ ClientStep(c)
  <2>1. PICK c \in Cid : Connect(c) \/ ClientStep(c)
    BY <1>2
  <2>2. net' = net /\ UNCHANGED <<adding, center_vars, game_vars, script_vars>>
    BY <2>1 DEF Connect, ClientStep, ClientConnect, ClientSend, ClientDrop,
          v8_vars
  <2>3. Typed' /\ MapsAgree' /\ AsksKept'
    BY <2>1, ClientsTyped, OthersKeepMaps, ClientsKeepAsks
  <2>4. Tokens' /\ SidsKept'
    BY <2>2, UnchangedKeepsTokens, LinksAlone, SidsSame
       DEF center_vars, game_vars, script_vars, SidsKept
  <2> QED
    BY <2>3, <2>4
<1>3. CASE CenterStep
  BY <1>1, <1>3, CenterTyped, CenterKeepsTokens, OthersKeepMaps, CenterKeepsAsks,
     CenterKeepsSids
<1>4. CASE GateStep
  <2>1. Tokens'
    BY <1>4, UnchangedKeepsTokens DEF GateStep, center_vars
  <2> QED
    BY <1>4, <2>1, GateTyped, GateKeepsMaps, GateKeepsAsks, GateKeepsSids
<1>5. CASE GameStep
  <2>1. Tokens'
    BY <1>5, UnchangedKeepsTokens DEF GameStep, center_vars
  <2> QED
    BY <1>5, <2>1, GameTyped, OthersKeepMaps, GameKeepsAsks, GameKeepsSids
<1>6. CASE UNCHANGED vars
  <2>1. /\ net' = net
        /\ UNCHANGED <<center_vars, game_vars, client_vars, script_vars, plugin_vars,
                       v8_vars, plugin_list>>
    BY <1>6 DEF vars, gate_vars
  <2>2. Typed' /\ MapsAgree'
    BY <2>1, SameMaps DEF Typed, client_vars, script_vars, plugin_vars, v8_vars
  <2>3. AsksKept'
    BY <2>1, AsksElsewhere DEF AsksKept, client_vars, script_vars
  <2>4. Tokens' /\ SidsKept'
    BY <2>1, UnchangedKeepsTokens, LinksAlone, SidsSame
       DEF center_vars, game_vars, script_vars, v8_vars, SidsKept
  <2> QED
    BY <2>2, <2>3, <2>4
<1> QED
  BY <1>2, <1>3, <1>4, <1>5, <1>6 DEF Next

(***************************************************************************)
(* The sets of session ids under way, in the terms of the invariant.       *)
(***************************************************************************)
LEMMA UnderWay ==
    ASSUME Typed
    PROVE  /\ SidsUnderWay("center_gate", "VERIFY_TOKEN") = {s \in Sid : Granted(s)}
           /\ SidsUnderWay("gate_center", "REMOVE_SESSION") = {s \in Sid : Removed(s)}
           /\ {s \in Sid : s = adding} \cup SidsUnderWay("gate_game", "ADD_SESSION")
                = {s \in Sid : Adding(s)}
           /\ SidsUnderWay("game_gate", "LOGOUT") = {s \in Sid : Ending(s)}
           /\ SidsUnderWay("game_data", "SAVE_DB_DATA") = {s \in Sid : Saving(s)}
<1>1. \A l \in Link : \A i \in DOMAIN net[l] : net[l][i] \in MsgOn[l]
  BY DEF Typed, NetTyped
<1>2. /\ \A i \in DOMAIN net["center_gate"] : net["center_gate"][i] \in FromCenter
      /\ \A i \in DOMAIN net["gate_center"] : net["gate_center"][i] \in ToCenter
      /\ \A i \in DOMAIN net["gate_game"] : net["gate_game"][i] \in OfSession
      /\ \A i \in DOMAIN net["game_gate"] : net["game_gate"][i] \in OfSession
      /\ \A i \in DOMAIN net["game_data"] : net["game_data"][i] \in ToData
  BY <1>1, Links
<1>3. SidsUnderWay("center_gate", "VERIFY_TOKEN") = {s \in Sid : Granted(s)}
  BY <1>2 DEF SidsUnderWay, Granted, Holds, GrantOf, FromCenter
<1>4. SidsUnderWay("gate_center", "REMOVE_SESSION") = {s \in Sid : Removed(s)}
  BY <1>2 DEF SidsUnderWay, Removed, Holds, RemovalOf, ToCenter
<1>5. {s \in Sid : s = adding} \cup SidsUnderWay("gate_game", "ADD_SESSION")
        = {s \in Sid : Adding(s)}
  BY <1>2 DEF SidsUnderWay, Adding, Holds, OfKind, OfSession
<1>6. SidsUnderWay("game_gate", "LOGOUT") = {s \in Sid : Ending(s)}
  BY <1>2 DEF SidsUnderWay, Ending, Holds, OfKind, OfSession
<1>7. SidsUnderWay("game_data", "SAVE_DB_DATA") = {s \in Sid : Saving(s)}
  BY <1>2 DEF SidsUnderWay, Saving, Holds, SaveOf, ToData
<1> QED
  BY <1>3, <1>4, <1>5, <1>6, <1>7

LEMMA SidsAccounted == IInv => SidsAccountedFor
<1> SUFFICES ASSUME IInv PROVE SidsAccountedFor
  OBVIOUS
<1>1. sid_set \subseteq Sid /\ \A s \in Sid : AccountedFor(s)
  BY DEF IInv, SidsKept, SidKept
<1> QED
  BY <1>1, UnderWay DEF IInv, SidsAccountedFor, AccountedFor

LEMMA Paired == IInv => SessionsPaired
<1> SUFFICES ASSUME IInv PROVE SessionsPaired
  OBVIOUS
<1>1. \A s \in Sid : KnownToGame(s)
  BY DEF IInv, SidsKept, SidKept
<1> QED
  BY <1>1, UnderWay DEF IInv, SessionsPaired, KnownToGame

LEMMA Agrees == IInv => PluginAgrees
<1> SUFFICES ASSUME IInv PROVE PluginAgrees
  OBVIOUS
<1>1. ASSUME NEW c \in Cid, cid_session_cpp[c] # 0
      PROVE  /\ cid_session[c] = cid_session_cpp[c] \/ c = removing
             /\ sid_session_cpp[cid_session_cpp[c]] = c
  BY <1>1 DEF IInv, MapsAgree, Mirrored
<1>2. ASSUME NEW s \in Sid, sid_session_cpp[s] # NoCid
      PROVE  /\ sid_session[s] = sid_session_cpp[s] \/ sid_session_cpp[s] = removing
             /\ cid_session_cpp[sid_session_cpp[s]] = s
  <2>1. PICK c \in Cid : c = sid_session_cpp[s]
    BY <1>2 DEF IInv, Typed
  <2>2. cid_session_cpp[c] = s /\ s # 0
    BY <1>2, <2>1 DEF IInv, MapsAgree, Mirrored, Sid
  <2>3. (cid_session[c] = s /\ sid_session[s] = c) \/ c = removing
    BY <2>2 DEF IInv, MapsAgree, Mirrored
  <2> QED
    BY <2>1, <2>2, <2>3
<1> QED
  BY <1>1, <1>2 DEF PluginAgrees

LEMMA Awaited == IInv => LogoutsAwaitSaves
<1> SUFFICES ASSUME IInv PROVE LogoutsAwaitSaves
  OBVIOUS
<1> DEFINE answers == net["data_game"]
           saved == {answers[i].sid : i \in {j \in DOMAIN answers :
                        answers[j].id = "DB_RET_CODE" /\ answers[j].opt = "SAVE_DB_DATA"}}
<1>1. \A i \in DOMAIN answers : answers[i] \in FromData
  BY Links DEF IInv, Typed, NetTyped
<1>2. saved = {s \in Sid : Saved(s)}
  BY <1>1 DEF Saved, Holds, SavedOf, FromData
<1>3. sid_logout \subseteq Sid /\ \A s \in Sid : AwaitsSave(s)
  BY DEF IInv, SidsKept, SidKept
<1> HIDE DEF saved
<1>4. sid_logout = SidsUnderWay("game_data", "SAVE_DB_DATA") \cup saved
  BY <1>2, <1>3, UnderWay DEF IInv, AwaitsSave
<1> QED
  BY <1>4 DEF LogoutsAwaitSaves, saved

(***************************************************************************)
(* Whoever shows a token, and however often, it earns one session.         *)
(***************************************************************************)
THEOREM TokensEarnOneSession == Spec => []TokenEarnsOneSession
<1>1. IInv => TokenEarnsOneSession
  BY DEF IInv, Tokens
<1> QED
  BY <1>1, InitHolds, NextHolds, PTL DEF Spec

(***************************************************************************)
(* The center's set of session ids is what the gate has and what is under  *)
(* way between them, however drops, logouts and grants interleave.         *)
(***************************************************************************)
THEOREM SidsAlwaysAccountedFor == Spec => []SidsAccountedFor
BY InitHolds, NextHolds, SidsAccounted, PTL DEF Spec

(***************************************************************************)
(* The plugin's maps agree with each other at every moment, and with the   *)
(* script's but for the connection whose drop the script is handling: what *)
(* its thread forwards between two steps of a handler carries the session  *)
(* id by which the answers find the client (add_session, remove_session).  *)
(***************************************************************************)
THEOREM PluginAlwaysAgrees == Spec => []PluginAgrees
BY InitHolds, NextHolds, Agrees, PTL DEF Spec

(***************************************************************************)
(* The game server knows every session of the gate, or will, as the gate   *)
(* has asked it to add the session or is about to, or the game server has  *)
(* asked the gate to end it.                                               *)
(***************************************************************************)
THEOREM SessionsAlwaysPaired == Spec => []SessionsPaired
BY InitHolds, NextHolds, Paired, PTL DEF Spec

(***************************************************************************)
(* A session is kept out of the game exactly while its save, or the answer *)
(* to it, is under way.                                                    *)
(***************************************************************************)
THEOREM LogoutsAlwaysAwaitSaves == Spec => []LogoutsAwaitSaves
BY InitHolds, NextHolds, Awaited, PTL DEF Spec
-----------------------------------------------------------------------------
(***************************************************************************)
(* A player in the game has its login data (game_server.js): only the load *)
(* of a player's data adds a player, and it reads the login data first.    *)
(***************************************************************************)
LEMMA OthersKeepPlayers ==
    ASSUME PlayersHaveLogin, UNCHANGED game_vars
    PROVE  PlayersHaveLogin'
BY DEF PlayersHaveLogin, game_vars

LEMMA EndSessionKeepsPlayers ==
    ASSUME PlayersHaveLogin, NEW l, EndSession(l)
    PROVE  PlayersHaveLogin'
BY DEF PlayersHaveLogin, EndSession

LEMMA GameStepKeepsPlayers ==
    ASSUME PlayersHaveLogin, GameStep
    PROVE  PlayersHaveLogin'
<1>1. CASE GameAddSession
  BY <1>1 DEF GameAddSession, PlayersHaveLogin
<1>2. CASE EnterGame
  BY <1>2, EndSessionKeepsPlayers, OthersKeepPlayers DEF EnterGame
<1>3. CASE ClientRequest
  BY <1>3, EndSessionKeepsPlayers, OthersKeepPlayers DEF ClientRequest
<1>4. CASE PlayerData
  BY <1>4 DEF PlayerData, PlayersHaveLogin
<1>5. CASE GameLogout
  BY <1>5, OthersKeepPlayers DEF GameLogout, PlayersHaveLogin
<1>6. CASE DbRetCode
  BY <1>6 DEF DbRetCode, PlayersHaveLogin
<1>7. CASE DataServer
  BY <1>7, OthersKeepPlayers DEF DataServer
<1> QED
  BY <1>1, <1>2, <1>3, <1>4, <1>5, <1>6, <1>7 DEF GameStep

(***************************************************************************)
(* PlayersHaveLogin always holds.                                          *)
(***************************************************************************)
THEOREM PlayersAlwaysHaveLogin == Spec => []PlayersHaveLogin
<1>1. Init => PlayersHaveLogin
  BY DEF Init, GameInit, PlayersHaveLogin
<1>2. PlayersHaveLogin /\ [Next]_vars => PlayersHaveLogin'
  <2> SUFFICES ASSUME PlayersHaveLogin, [Next]_vars
               PROVE  PlayersHaveLogin'
    OBVIOUS
  <2>1. CASE GameStep
    BY <2>1, GameStepKeepsPlayers
  <2>2. CASE (\E c \in Cid : Connect(c) \/ ClientStep(c)) \/ CenterStep \/ GateStep
    BY <2>2, OthersKeepPlayers DEF Connect, ClientStep, CenterStep, GateStep
  <2>3. CASE UNCHANGED vars
    BY <2>3, OthersKeepPlayers DEF vars
  <2> QED
    BY <2>1, <2>2, <2>3 DEF Next
<1> QED
  BY <1>1, <1>2, PTL DEF Spec

=============================================================================
