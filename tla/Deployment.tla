----------------------------- MODULE Deployment -----------------------------
(***************************************************************************)
(* A node and the servers it is linked to, each a process of the daemon's: *)
(* a server listens while its process lives, and its connections end with  *)
(* it.                                                                     *)
(***************************************************************************)
EXTENDS Daemon, NodeLinks

ASSUME ServersAreNodes == Connectors \subseteq Nodes

deploy_vars == <<daemon_vars, link_vars>>

deployInit == daemonInit /\ linkInit

Lives(n) == \E p \in DOMAIN process : process[p] = [node |-> n, state |-> "lives"]

Started(e) == Lives(e) /\ ServerListens(e) /\ UNCHANGED daemon_vars

Ends(p) ==
    /\ Crash(p)
    /\ IF process[p].node \in Connectors THEN ServerEnds(process[p].node) ELSE UNCHANGED link_vars

NodeStarts == (\E e \in Connectors : InitConnects(e)) \/ ThreadCreated

deployNext ==
    \/ DaemonActs /\ UNCHANGED link_vars
    \/ \E n \in Requested : AskFork(n) /\ UNCHANGED link_vars
    \/ \E p \in DOMAIN process : Ends(p)
    \/ \E e \in Connectors : Started(e)
    \/ \E e \in Connectors : \E c \in svc_list[e] : ServerSends(e, c) /\ UNCHANGED daemon_vars
    \/ \E e \in Connectors : NetworkRuns(e) /\ UNCHANGED daemon_vars
    \/ (NodeStarts \/ V8Runs) /\ UNCHANGED daemon_vars

deployFairness ==
    /\ WF_daemon_vars(DaemonActs)
    /\ WF_link_vars(NodeStarts \/ V8Runs)
    /\ \A e \in Connectors : WF_listening(Started(e)) /\ WF_link_vars(NetworkRuns(e))

deploySpec == deployInit /\ [][deployNext]_deploy_vars /\ deployFairness

-----------------------------------------------------------------------------
(***************************************************************************)
(* Once every server has been asked for, from some moment on every link is *)
(* up for good: processes end a bounded number of times here, but each may *)
(* end while it is started, connected to, registered or dropped            *)
(* (restart_process, process_drop, process_drop_eid).                      *)
(***************************************************************************)
LinksComeBack == \A e \in Connectors : asked = Requested ~> []Linked(e)

\* Once the node runs, the link to a server is made again when the server is there,
\* whatever becomes of the others.  The code does not keep it: the first endpoint of
\* drop_eid_list_ is tried again and again, and when its server is given up (CoreLimit)
\* those behind it stay down.
UpLinksComeBack ==
    \A e \in Connectors : v8.pc # "init" ~> [](e \in listening => Linked(e))
=============================================================================
