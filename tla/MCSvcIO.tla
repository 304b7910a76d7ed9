------------------------------- MODULE MCSvcIO -------------------------------
(* The two directions of a Svc, which share no state: one of them moves.    *)
EXTENDS SvcSend, SvcReceive, TLC

VARIABLE direction

ioVars == <<direction, vars, receive_vars>>

ioInit == direction \in {"send", "receive"} /\ Init /\ receiveInit

ioNext ==
    /\ UNCHANGED direction
    /\ \/ direction = "send" /\ Next /\ UNCHANGED receive_vars
       \/ direction = "receive" /\ receiveNext /\ UNCHANGED vars

ioSpec == ioInit /\ [][ioNext]_ioVars

SenderSymmetry == Permutations(Sender)
=============================================================================
