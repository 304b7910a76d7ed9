---------------------------- MODULE CenterServer ----------------------------
(***************************************************************************)
(* The center server's script: it gives an account a token for its gate,   *)
(* verifies the token for the gate that the client shows it to, hands out  *)
(* session ids, and is to forget tokens nobody shows.  One gate and one    *)
(* game server are registered.                                             *)
(***************************************************************************)
EXTENDS ServerLinks

CONSTANT
    MaxTime    \* bound: seconds of the center's clock

VARIABLES
    account_token,  \* account_token_map: the account's token, 0 if it has none
    token_time,     \* token_info.token_time of every account with a token
    sid_idx,        \* the last session id handed out
    sid_set,        \* ids of the sessions the center takes for existing
    issued,         \* tokens issued so far; every token is new
    grants,         \* history: how many session ids each token has earned
    now             \* the center's clock, in seconds

center_vars == <<account_token, token_time, sid_idx, sid_set, issued, grants, now>>

Token == 1 .. MaxSid

(***************************************************************************)
(* select_gate stores the function util.now_sec itself, without a call.    *)
(***************************************************************************)
NowFunction == MaxTime + 1

CenterTypeOK ==
    /\ account_token \in [Account -> {0} \cup Token]
    /\ token_time \in [Account -> 0 .. NowFunction]
    /\ sid_idx \in {0} \cup Sid /\ sid_set \subseteq Sid
    /\ issued \in {0} \cup Token
    /\ grants \in [Token -> Nat]
    /\ now \in 0 .. MaxTime

CenterInit ==
    /\ account_token = [a \in Account |-> 0]
    /\ token_time = [a \in Account |-> 0]
    /\ sid_idx = 0 /\ sid_set = {}
    /\ issued = 0 /\ grants = [t \in Token |-> 0]
    /\ now = 0

(***************************************************************************)
(* on_close_session: the account's token is deleted.                       *)
(***************************************************************************)
ForgetTokens(accounts) ==
    /\ account_token' = [a \in Account |->
                           IF a \in accounts THEN 0 ELSE account_token[a]]
    /\ token_time' = [a \in Account |->
                        IF a \in accounts THEN 0 ELSE token_time[a]]

(***************************************************************************)
(* A client asks for a gate: an account that has a token loses it and is   *)
(* refused, any other gets a new one.                                      *)
(***************************************************************************)
SelectGate(a) ==
    \/ /\ account_token[a] # 0
       /\ ForgetTokens({a})
       /\ UNCHANGED <<sid_idx, sid_set, issued, grants, now, net>>
    \/ /\ account_token[a] = 0 /\ issued < MaxSid
       /\ issued' = issued + 1
       /\ account_token' = [account_token EXCEPT ![a] = issued + 1]
       /\ token_time' = [token_time EXCEPT ![a] = NowFunction]
       /\ UNCHANGED <<sid_idx, sid_set, grants, now, net>>

\* Mutant of VerifyToken: a verified token is not deleted.
VerifyTokenKeepsIt ==
    /\ Arrives("gate_center", "VERIFY_TOKEN")
    /\ LET msg == Head(net["gate_center"])
       IN  /\ account_token[msg.account] = msg.token /\ msg.token # 0
           /\ sid_idx < MaxSid
           /\ sid_idx' = sid_idx + 1
           /\ sid_set' = sid_set \cup {sid_idx + 1}
           /\ grants' = [grants EXCEPT ![msg.token] = @ + 1]
           /\ net' = Send(Taken("gate_center"), "center_gate",
                          [id |-> "VERIFY_TOKEN", sid |-> sid_idx + 1,
                           cid |-> msg.cid, account |-> msg.account])
    /\ UNCHANGED <<account_token, token_time, issued, now>>

(***************************************************************************)
(* verify_token: the account's token earns a session id and is deleted.    *)
(***************************************************************************)
VerifyToken ==
    /\ Arrives("gate_center", "VERIFY_TOKEN")
    /\ LET msg == Head(net["gate_center"])
       IN  /\ account_token[msg.account] = msg.token /\ msg.token # 0
           /\ sid_idx' = sid_idx + 1
           /\ sid_set' = sid_set \cup {sid_idx + 1}
           /\ grants' = [grants EXCEPT ![msg.token] = @ + 1]
           /\ net' = Send(Taken("gate_center"), "center_gate",
                          [id |-> "VERIFY_TOKEN", sid |-> sid_idx + 1,
                           cid |-> msg.cid, account |-> msg.account])
           /\ ForgetTokens({msg.account})
    /\ UNCHANGED <<issued, now>>

(***************************************************************************)
(* A wrong token costs the account the right one as well.  The answer's    *)
(* sid field carries the client's connection id, as the request's did.     *)
(***************************************************************************)
RejectToken ==
    /\ Arrives("gate_center", "VERIFY_TOKEN")
    /\ LET msg == Head(net["gate_center"])
       IN  /\ account_token[msg.account] # msg.token \/ msg.token = 0
           /\ net' = Send(Taken("gate_center"), "center_gate",
                          [id |-> "NODE_CODE", sid |-> msg.cid])
           /\ ForgetTokens({msg.account})
    /\ UNCHANGED <<sid_idx, sid_set, issued, grants, now>>

CenterRemoveSession ==
    /\ Arrives("gate_center", "REMOVE_SESSION")
    /\ sid_set' = sid_set \ {Head(net["gate_center"]).sid}
    /\ net' = Taken("gate_center")
    /\ UNCHANGED <<account_token, token_time, sid_idx, issued, grants, now>>

(***************************************************************************)
(* center_token_handler, every 2 seconds: now minus a function is NaN, and *)
(* no comparison with NaN holds.                                           *)
(***************************************************************************)
Overdue(a) ==
    account_token[a] # 0 /\ token_time[a] # NowFunction /\ now' - token_time[a] >= 2

CenterTokenHandler ==
    /\ now + 2 <= MaxTime
    /\ now' = now + 2
    /\ ForgetTokens({a \in Account : Overdue(a)})
    /\ UNCHANGED <<sid_idx, sid_set, issued, grants, net>>
=============================================================================
