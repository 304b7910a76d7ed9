----------------------------- MODULE ServerLinks -----------------------------
(***************************************************************************)
(* The connections between the server processes.  Each is a TCP connection *)
(* whose messages the receiving process puts in the message queue of its   *)
(* V8 thread in the order of their arrival, so a link is a FIFO queue, and *)
(* messages of different links interleave in any way.                      *)
(***************************************************************************)
EXTENDS Naturals, Sequences

CONSTANTS
    Account,  \* accounts; each has one role
    MaxSid    \* bound: most tokens issued, hence most session ids

ASSUME LinksAssumption == MaxSid \in Nat

VARIABLE net   \* the messages on every link and in the receiver's queue

Sid == 1 .. MaxSid

Link == {"gate_center", "center_gate", "gate_game", "game_gate",
         "game_data", "data_game"}

LinksInit == net = [l \in Link |-> <<>>]

Send(n, l, msg) == [n EXCEPT ![l] = Append(@, msg)]

(***************************************************************************)
(* The next message of link l has this id; taking it leaves the rest.      *)
(***************************************************************************)
Arrives(l, id) == net[l] # <<>> /\ Head(net[l]).id = id

Taken(l) == [net EXCEPT ![l] = Tail(@)]

(***************************************************************************)
(* The session ids of the messages with this id that are under way on l.   *)
(***************************************************************************)
SidsUnderWay(l, id) ==
    {net[l][i].sid : i \in {j \in DOMAIN net[l] : net[l][j].id = id}}
=============================================================================
