---------------------------- MODULE SvcStaticList ----------------------------
(***************************************************************************)
(* Svc_Static_List (nodelib/network/Svc_Static_List.h) as it is built: a   *)
(* vector of nodes linked by index into two rings.  Node 0 heads the ring  *)
(* of free nodes, node 1 the ring of used nodes; the index of a node is    *)
(* the cid.  The fields of Svc_Static_List_Node are functions of the       *)
(* index; an index not yet in the vector has a constructed node's values.  *)
(* All operations hold lock_, so each is one action.                       *)
(***************************************************************************)
EXTENDS Integers, Sequences, FiniteSets

CONSTANTS Svc, NoSvc, EraseInterval, MaxSize, MaxTime

ASSUME ListAssumption ==
    /\ NoSvc \notin Svc
    /\ EraseInterval \in Nat
    /\ MaxSize \in Nat /\ MaxSize >= 2
    /\ MaxTime \in Nat

VARIABLES
    prev, next,         \* prev_, next_
    erase_timestamp,    \* erase_timestamp_
    is_used,            \* is_used_
    node,               \* node_: the connection recorded in the node
    size,               \* data_list_.size()
    now                 \* the clock read by Time_Value::gettimeofday()

vars == <<prev, next, erase_timestamp, is_used, node, size, now>>

null_ptr == -1
free_head == 0
used_head == 1

Index == 0 .. (MaxSize - 1)
Cid == 2 .. (MaxSize - 1)

TypeOK ==
    /\ prev \in [Index -> Index \cup {null_ptr}]
    /\ next \in [Index -> Index \cup {null_ptr}]
    /\ erase_timestamp \in [Index -> Nat]
    /\ is_used \in [Index -> BOOLEAN]
    /\ node \in [Index -> Svc \cup {NoSvc}]
    /\ size \in 2 .. MaxSize
    /\ now \in Nat

Init ==
    /\ prev = [i \in Index |-> IF i < 2 THEN i ELSE null_ptr]
    /\ next = [i \in Index |-> IF i < 2 THEN i ELSE null_ptr]
    /\ erase_timestamp = [i \in Index |-> 0]
    /\ is_used = [i \in Index |-> i < 2]
    /\ node = [i \in Index |-> NoSvc]
    /\ size = 2
    /\ now = 0

-----------------------------------------------------------------------------
FreeListEmpty == prev[free_head] = free_head /\ next[free_head] = free_head

FirstFreeCooled ==
    now - erase_timestamp[next[free_head]] > EraseInterval

(***************************************************************************)
(* The two branches of record_svc that push a new node onto the vector and *)
(* link it behind the head of the used ring.                               *)
(***************************************************************************)
RecordNew(p) ==
    /\ FreeListEmpty \/ ~FirstFreeCooled
    /\ size < MaxSize
    /\ prev' = [prev EXCEPT ![size] = used_head, ![next[used_head]] = size]
    /\ next' = [next EXCEPT ![size] = next[used_head], ![used_head] = size]
    /\ is_used' = [is_used EXCEPT ![size] = TRUE]
    /\ node' = [node EXCEPT ![size] = p]
    /\ size' = size + 1
    /\ UNCHANGED <<erase_timestamp, now>>

\* Mutant of RecordReuse: the node behind the taken one keeps its old prev_.
RecordReuseHalfUnlinked(p) ==
    LET first == next[free_head]
    IN  /\ ~FreeListEmpty
        /\ FirstFreeCooled
        /\ prev' = [prev EXCEPT ![next[used_head]] = first,
                                ![first] = used_head]
        /\ next' = [next EXCEPT ![free_head] = next[first],
                                ![first] = next[used_head],
                                ![used_head] = first]
        /\ is_used' = [is_used EXCEPT ![first] = TRUE]
        /\ node' = [node EXCEPT ![first] = p]
        /\ UNCHANGED <<erase_timestamp, size, now>>

(***************************************************************************)
(* The branch of record_svc that moves the first free node to the used     *)
(* ring.  The writes are in the order of the code.                         *)
(***************************************************************************)
RecordReuse(p) ==
    LET first == next[free_head]
    IN  /\ ~FreeListEmpty
        /\ FirstFreeCooled
        /\ prev' = [prev EXCEPT ![next[first]] = prev[first],
                                ![next[used_head]] = first,
                                ![first] = used_head]
        /\ next' = [next EXCEPT ![free_head] = next[first],
                                ![first] = next[used_head],
                                ![used_head] = first]
        /\ is_used' = [is_used EXCEPT ![first] = TRUE]
        /\ node' = [node EXCEPT ![first] = p]
        /\ UNCHANGED <<erase_timestamp, size, now>>

validate_cid(c) == c >= 2 /\ c < size

\* Mutant of Erase: the node is linked behind the head of the free ring.
EraseAtHead(c) ==
    /\ validate_cid(c)
    /\ is_used[c]
    /\ erase_timestamp' = [erase_timestamp EXCEPT ![c] = now]
    /\ prev' = [prev EXCEPT ![next[c]] = prev[c],
                            ![next[free_head]] = c,
                            ![c] = free_head]
    /\ next' = [next EXCEPT ![prev[c]] = next[c],
                            ![c] = next[free_head],
                            ![free_head] = c]
    /\ is_used' = [is_used EXCEPT ![c] = FALSE]
    /\ UNCHANGED <<node, size, now>>

(***************************************************************************)
(* erase_svc: stamp the node, take it off the used ring and link it at the *)
(* tail of the free ring.  node_ keeps its old value.  An invalid or free  *)
(* index returns -1 and changes nothing.                                   *)
(***************************************************************************)
Erase(c) ==
    /\ validate_cid(c)
    /\ is_used[c]
    /\ erase_timestamp' = [erase_timestamp EXCEPT ![c] = now]
    /\ prev' = [prev EXCEPT ![next[c]] = prev[c],
                            ![c] = prev[free_head],
                            ![free_head] = c]
    /\ next' = [next EXCEPT ![prev[c]] = next[c],
                            ![c] = free_head,
                            ![prev[free_head]] = c]
    /\ is_used' = [is_used EXCEPT ![c] = FALSE]
    /\ UNCHANGED <<node, size, now>>

(***************************************************************************)
(* The clock is external and taken to be monotonic.                        *)
(***************************************************************************)
Tick ==
    /\ now < MaxTime
    /\ now' = now + 1
    /\ UNCHANGED <<prev, next, erase_timestamp, is_used, node, size>>

Next ==
    \/ \E p \in Svc : RecordNew(p) \/ RecordReuse(p)
    \/ \E c \in Cid : Erase(c)
    \/ Tick

Spec == Init /\ [][Next]_vars

-----------------------------------------------------------------------------
(***************************************************************************)
(* The ring a node belongs to: the heads belong to their own.              *)
(***************************************************************************)
InFreeRing(i) == i = free_head \/ (i >= 2 /\ ~is_used[i])

(***************************************************************************)
(* Both rings stay well linked through every insertion and removal of      *)
(* record_svc and erase_svc: on the indexes of the vector, prev_ and next_ *)
(* are inverse to each other, no link leaves the vector, and no link leads *)
(* from one ring into the other.                                           *)
(***************************************************************************)
RingsLinked ==
    \A i \in Index : i < size =>
        /\ next[i] \in 0 .. (size - 1) /\ prev[i] \in 0 .. (size - 1)
        /\ prev[next[i]] = i
        /\ next[prev[i]] = i
        /\ InFreeRing(next[i]) <=> InFreeRing(i)
        /\ InFreeRing(prev[i]) <=> InFreeRing(i)

(***************************************************************************)
(* The nodes met when following next_ from head h, n steps.                *)
(***************************************************************************)
Walk(h, n) ==
    LET at[k \in 0 .. n] == IF k = 0 THEN h ELSE next[at[k - 1]]
    IN  [k \in 1 .. n |-> at[k]]

FreeNodes == {c \in Cid : c < size /\ ~is_used[c]}
UsedNodes == {c \in Cid : c < size /\ is_used[c]}

FreeRing == Walk(free_head, Cardinality(FreeNodes))
UsedRing == Walk(used_head, Cardinality(UsedNodes))

(***************************************************************************)
(* The refinement mapping: the owner of a used node is its node_, the free *)
(* queue is the free ring read from its head.                              *)
(***************************************************************************)
UsedOwner == [c \in Cid |-> IF c \in UsedNodes THEN node[c] ELSE NoSvc]

FreeQueue == [k \in 1 .. Len(FreeRing) |->
                 [cid |-> FreeRing[k], at |-> erase_timestamp[FreeRing[k]]]]

Allocator == INSTANCE CidAllocator WITH owner <- UsedOwner, free <- FreeQueue

(***************************************************************************)
(* The linked lists implement the allocator.                               *)
(***************************************************************************)
ImplementsAllocator == Allocator!Spec
=============================================================================
