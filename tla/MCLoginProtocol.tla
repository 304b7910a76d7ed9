--------------------------- MODULE MCLoginProtocol ---------------------------
(***************************************************************************)
(* Logging in, and making a role.  One of the two at a time.               *)
(*                                                                         *)
(* Both connections log in the same account; how many requests each of     *)
(* them, and each client that makes roles, may make.                       *)
(***************************************************************************)
EXTENDS LoginProtocol, RoleCreation

CONSTANTS alice, c1, c2, s1, s2

OneAccount == [c \in Cid |-> alice]

TwoRequests == [c \in Cid |-> IF c = c1 THEN 2 ELSE 0]

NoRequest == [c \in Cid |-> 0]

\* One client asks for roles four times, or two ask twice each.
FourAsks == {[s \in Sessions |-> IF s = s1 THEN 4 ELSE 0], [s \in Sessions |-> 2]}

ThreeAsks == {[s \in Sessions |-> IF s = s1 THEN n ELSE 3 - n] : n \in {2, 3}}

VARIABLE part

loginVars == <<part, vars, role_vars>>

Idle == part # "roles" => asks = CHOOSE m \in MaxAsks : TRUE

loginInit == part \in {"login", "roles"} /\ Init /\ roleInit /\ Idle

loginNext ==
    /\ UNCHANGED part
    /\ \/ part = "login" /\ Next /\ UNCHANGED role_vars
       \/ part = "roles" /\ roleNext /\ UNCHANGED vars

loginSpec == loginInit /\ [][loginNext]_loginVars
=============================================================================
