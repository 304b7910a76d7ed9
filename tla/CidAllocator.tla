---------------------------- MODULE CidAllocator ----------------------------
(***************************************************************************)
(* What an endpoint expects of Svc_Static_List                             *)
(* (nodelib/network/Svc_Static_List.h): a table that numbers connections.  *)
(* A connection id (cid) is an index of the table.  A released cid waits   *)
(* in a first-in first-out queue and is handed out again only when it has  *)
(* cooled down; while the oldest released cid is still hot, the table      *)
(* grows instead.  Every operation holds the list's lock, so each of them  *)
(* is one action.  Module SvcStaticList gives the linked lists that        *)
(* implement this.                                                         *)
(***************************************************************************)
EXTENDS Integers, Sequences

CONSTANTS
    Svc,            \* the connection objects a cid may stand for
    NoSvc,          \* "this cid is not in use"
    EraseInterval,  \* erase_interval_: how long a released cid stays unused
    MaxSize,        \* bound: most entries the table may reach
    MaxTime         \* bound: last value of the clock

ASSUME AllocatorAssumption ==
    /\ NoSvc \notin Svc
    /\ EraseInterval \in Nat
    /\ MaxSize \in Nat /\ MaxSize >= 2
    /\ MaxTime \in Nat

VARIABLES
    owner,  \* owner[c]: the connection that cid c stands for, or NoSvc
    free,   \* the released cids and the times of their release, oldest first
    size,   \* data_list_.size(): the cids 2 .. size-1 have been handed out
    now     \* the clock read by Time_Value::gettimeofday()

vars == <<owner, free, size, now>>

Cid == 2 .. (MaxSize - 1)

Release == [cid : Cid, at : Nat]

TypeOK ==
    /\ owner \in [Cid -> Svc \cup {NoSvc}]
    /\ free \in Seq(Release)
    /\ size \in 2 .. MaxSize
    /\ now \in Nat

(***************************************************************************)
(* The entries 0 and 1 of data_list_ are the heads of the two lists.       *)
(***************************************************************************)
Init ==
    /\ owner = [c \in Cid |-> NoSvc]
    /\ free = <<>>
    /\ size = 2
    /\ now = 0

-----------------------------------------------------------------------------
\* Mutant of Cooled: off by one at the boundary.
CooledAtBoundary(r) == now - r.at >= EraseInterval

Cooled(r) == now - r.at > EraseInterval

Reusable == free # <<>> /\ Cooled(Head(free))

(***************************************************************************)
(* record_svc on an empty free list, or on one whose first node is hot.    *)
(***************************************************************************)
RecordNew(p) ==
    /\ ~Reusable
    /\ size < MaxSize
    /\ owner' = [owner EXCEPT ![size] = p]
    /\ size' = size + 1
    /\ UNCHANGED <<free, now>>

(***************************************************************************)
(* record_svc when the first free node has cooled down.                    *)
(***************************************************************************)
RecordReuse(p) ==
    /\ Reusable
    /\ owner' = [owner EXCEPT ![Head(free).cid] = p]
    /\ free' = Tail(free)
    /\ UNCHANGED <<size, now>>

\* Mutant of Erase: the test of is_used_ is missing, a cid is released twice.
EraseAnyCid(c) ==
    /\ c < size
    /\ owner' = [owner EXCEPT ![c] = NoSvc]
    /\ free' = Append(free, [cid |-> c, at |-> now])
    /\ UNCHANGED <<size, now>>

\* Mutant of Erase: the released cid is linked at the front of the free list.
EraseAtFront(c) ==
    /\ owner[c] # NoSvc
    /\ owner' = [owner EXCEPT ![c] = NoSvc]
    /\ free' = <<[cid |-> c, at |-> now]>> \o free
    /\ UNCHANGED <<size, now>>

(***************************************************************************)
(* erase_svc on a cid in use; on any other cid it returns -1 and changes   *)
(* nothing.                                                                *)
(***************************************************************************)
Erase(c) ==
    /\ owner[c] # NoSvc
    /\ owner' = [owner EXCEPT ![c] = NoSvc]
    /\ free' = Append(free, [cid |-> c, at |-> now])
    /\ UNCHANGED <<size, now>>

(***************************************************************************)
(* The clock is external and taken to be monotonic.                        *)
(***************************************************************************)
Tick ==
    /\ now < MaxTime
    /\ now' = now + 1
    /\ UNCHANGED <<owner, free, size>>

Next ==
    \/ \E p \in Svc : RecordNew(p) \/ RecordReuse(p)
    \/ \E c \in Cid : Erase(c)
    \/ Tick

Spec == Init /\ [][Next]_vars

-----------------------------------------------------------------------------
InUse(c) == owner[c] # NoSvc

FreeCids == {free[i].cid : i \in 1 .. Len(free)}

(***************************************************************************)
(* Every cid below size is either in use or in the free queue, never both  *)
(* and never twice: a cid cannot leak, and one cid cannot be handed to two *)
(* connections (record_svc and erase_svc together).                        *)
(***************************************************************************)
CidsAccountedFor ==
    /\ \A c \in Cid : c < size => (InUse(c) <=> c \notin FreeCids)
    /\ \A c \in Cid : c >= size => ~InUse(c) /\ c \notin FreeCids
    /\ \A i, j \in 1 .. Len(free) : free[i].cid = free[j].cid => i = j

(***************************************************************************)
(* The free queue is ordered by release time and holds no time of the      *)
(* future.  record_svc looks at the first node only; this is why that is   *)
(* enough.                                                                 *)
(***************************************************************************)
OldestFirst ==
    /\ \A i, j \in 1 .. Len(free) : i <= j => free[i].at <= free[j].at
    /\ \A i \in 1 .. Len(free) : free[i].at <= now

(***************************************************************************)
(* A cid released at time t is not handed out again until the clock has    *)
(* passed t + EraseInterval (the "cooling" time of record_svc).            *)
(***************************************************************************)
NoEarlyReuse ==
    [][\A i \in 1 .. Len(free) :
          owner'[free[i].cid] # NoSvc => now - free[i].at > EraseInterval]_vars

(***************************************************************************)
(* The table grows only when not one of the released cids has cooled down, *)
(* although record_svc examines only the first of them.                    *)
(***************************************************************************)
GrowsOnlyWhenHot ==
    [][size' # size =>
          \A i \in 1 .. Len(free) : now - free[i].at <= EraseInterval]_vars
=============================================================================
