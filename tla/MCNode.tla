------------------------------- MODULE MCNode --------------------------------
(***************************************************************************)
(* A node's table of connections, and its links to two servers, of which   *)
(* the daemon starts "a" at once and "b" on request.  One of the two at a  *)
(* time; the requests that LinksComeBack is about come in the second only. *)
(***************************************************************************)
EXTENDS CidAllocator, Deployment

VARIABLE part

NodeList == <<"a">>

nodeVars == <<part, vars, deploy_vars>>

nodeInit == part \in {"cids", "links"} /\ Init /\ deployInit

nodeNext ==
    /\ UNCHANGED part
    /\ \/ part = "cids" /\ Next /\ UNCHANGED deploy_vars
       \/ part = "links" /\ deployNext /\ UNCHANGED vars

nodeSpec ==
    nodeInit /\ [][nodeNext]_nodeVars /\ (part = "links" => deployFairness)
=============================================================================
