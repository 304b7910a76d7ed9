------------------------------- MODULE Daemon -------------------------------
(***************************************************************************)
(* The daemon (src/daemon/Daemon_Server.cpp) starts the processes of a     *)
(* deployment, starts again those that end, and starts further ones that   *)
(* are asked for through a fifo.                                           *)
(*                                                                         *)
(* It has one thread.  The end of a child raises SIGCHLD, whose handler    *)
(* interrupts the main loop at any step, also between a fork and the note  *)
(* that is taken of it; while it runs the signal is blocked, and signals   *)
(* that come meanwhile are one.  Process ids are not used again.           *)
(***************************************************************************)
EXTENDS Integers, Sequences, FiniteSets, Functions, TLC

CONSTANTS
    node_list,    \* the nodes of daemon_conf.xml, as a sequence
    Requested,    \* nodes whose start is asked for later (data and log connectors)
    CoreLimit,    \* 2000 in restart_process
    MaxCrashes,   \* bound: how many processes end
    LoneCrashes   \* whether a process ends only after the daemon is done with the last

Nodes == Range(node_list) \cup Requested
Uncounted == -1

ASSUME DaemonAssumption ==
    /\ CoreLimit \in Nat /\ MaxCrashes \in Nat /\ LoneCrashes \in BOOLEAN
    /\ Range(node_list) \cap Requested = {}

VARIABLES
    process,        \* by pid: the node it runs and "lives", "zombie" or "gone"
    pid_node_map,   \* what the daemon knows of its children
    node_core_map,  \* how often each node ended
    to_fork,        \* what the main loop has still to start
    unnoted,        \* the pid of the fork not yet noted, or 0
    fifo,           \* requests written and not read
    asked,          \* the nodes asked for
    sigchld,        \* whether a signal is pending
    handler,        \* "off", "wait", or "restart" after the sleep
    reaped          \* the pid that wait returned

main_vars == <<to_fork, unnoted, fifo, asked>>
daemon_vars == <<process, pid_node_map, node_core_map, main_vars, sigchld, handler, reaped>>

daemonInit ==
    /\ process = <<>> /\ pid_node_map = <<>>
    /\ node_core_map = [n \in Nodes |-> Uncounted]
    /\ to_fork = node_list /\ unnoted = 0 /\ fifo = <<>> /\ asked = {}
    /\ sigchld = FALSE /\ handler = "off" /\ reaped = 0

Forked(n) == Append(process, [node |-> n, state |-> "lives"])
NewPid == Len(process) + 1
Crashes == Cardinality({p \in DOMAIN process : process[p].state # "lives"})

(* The main loop *)

ForkProcess ==
    /\ handler = "off" /\ unnoted = 0 /\ to_fork # <<>>
    /\ process' = Forked(Head(to_fork))
    /\ unnoted' = NewPid
    /\ UNCHANGED <<pid_node_map, node_core_map, to_fork, fifo, asked, sigchld, handler, reaped>>

NoteFork ==
    /\ handler = "off" /\ unnoted # 0
    /\ pid_node_map' = pid_node_map @@ unnoted :> Head(to_fork)
    /\ unnoted' = 0 /\ to_fork' = Tail(to_fork)
    /\ UNCHANGED <<process, node_core_map, fifo, asked, sigchld, handler, reaped>>

\* Node_Manager::fork_process of another process.
AskFork(n) ==
    /\ n \notin asked
    /\ asked' = asked \cup {n} /\ fifo' = Append(fifo, n)
    /\ UNCHANGED <<process, pid_node_map, node_core_map, to_fork, unnoted, sigchld, handler, reaped>>

\* One read takes whatever has been written; one request of it is understood.
ReadFifo ==
    /\ handler = "off" /\ to_fork = <<>> /\ fifo # <<>>
    /\ to_fork' = <<Head(fifo)>> /\ fifo' = <<>>
    /\ UNCHANGED <<process, pid_node_map, node_core_map, unnoted, asked, sigchld, handler, reaped>>

(* Signals *)

Calm == ~sigchld /\ handler = "off" /\ unnoted = 0

Crash(p) ==
    /\ process[p].state = "lives" /\ Crashes < MaxCrashes
    /\ LoneCrashes => Calm
    /\ process' = [process EXCEPT ![p].state = "zombie"]
    /\ sigchld' = TRUE
    /\ UNCHANGED <<pid_node_map, node_core_map, main_vars, handler, reaped>>

SignalComes ==
    /\ sigchld /\ handler = "off"
    /\ sigchld' = FALSE /\ handler' = "wait"
    /\ UNCHANGED <<process, pid_node_map, node_core_map, main_vars, reaped>>

\* One wait, of one child, whichever it is.
WaitChild ==
    /\ handler = "wait" /\ handler' = "restart"
    /\ \E p \in DOMAIN process :
          /\ process[p].state = "zombie"
          /\ process' = [process EXCEPT ![p].state = "gone"]
          /\ reaped' = p
    /\ UNCHANGED <<pid_node_map, node_core_map, main_vars, sigchld>>

TooMuch(n) == node_core_map[n] # Uncounted /\ node_core_map[n] > CoreLimit

restart_process ==
    /\ handler = "restart" /\ handler' = "off"
    /\ IF reaped \notin DOMAIN pid_node_map
       THEN UNCHANGED <<process, pid_node_map, node_core_map>>
       ELSE LET n == pid_node_map[reaped]
            IN  /\ node_core_map' = [node_core_map EXCEPT ![n] = @ + 1]
                /\ IF TooMuch(n)
                   THEN UNCHANGED <<process, pid_node_map>>
                   ELSE /\ process' = Forked(n)
                        /\ pid_node_map' = Restrict(pid_node_map @@ NewPid :> n,
                                                    (DOMAIN pid_node_map \cup {NewPid}) \ {reaped})
    /\ UNCHANGED <<main_vars, sigchld, reaped>>

DaemonActs == ForkProcess \/ NoteFork \/ ReadFifo \/ SignalComes \/ WaitChild \/ restart_process

-----------------------------------------------------------------------------
\* A node whose start was asked for is started.  The code does not keep it: of two
\* requests that one read takes only the first is understood.
RequestsServed == \A n \in Requested : n \in asked ~> \E p \in DOMAIN process : process[p].node = n
=============================================================================
