----------------------- MODULE SvcRegistrationProofs ------------------------
(***************************************************************************)
(* Proofs that no Svc object stands for two connections and that every     *)
(* open fd is held by an object in use, for any number of connections,     *)
(* objects and queued drops.                                               *)
(***************************************************************************)
EXTENDS SvcRegistration, FiniteSetTheorems, TLAPS

\* A cid is numbered for every connection that was accepted.
New == {k \in Conn : fd_state[k] = "new"}
Numbered == next_cid + Cardinality(New) = Cardinality(Conn) + 2

\* Whatever cid is in use, queued or being dropped was handed out before.
KnownCids ==
    /\ \A c \in Cid : svc_list[c] # None => c < next_cid
    /\ \A i \in DOMAIN drop_list : drop_list[i] < next_cid
    /\ net.pc \in {"drop", "reset", "erased"} => net.cid \in Cid /\ net.cid < next_cid

\* The parts of ObjectsNotShared, by positions and cids.
PooledOnce == \A i, j \in DOMAIN pool : pool[i] = pool[j] => i = j
PooledFree ==
    \A i \in DOMAIN pool : pool[i] \in Svc /\ \A c \in Cid : svc_list[c] # pool[i]
UsedOnce == \A c, d \in Cid : svc_list[c] = svc_list[d] /\ svc_list[c] # None => c = d

\* What the threads hold: an object that is dropped is closed before it is reset, and
\* reset before its cid is erased; it is in the pool only after that.
InHands ==
    /\ accept.pc # "idle" => accept.svc \in Svc
    /\ net.pc = "drop" /\ svc_list[net.cid] # None => closed[svc_list[net.cid]]
    /\ net.pc = "reset" => svc_list[net.cid] = net.svc /\ fd[net.svc] = None
    /\ net.pc \in {"reset", "erased"} => net.svc \in Svc /\ \A i \in DOMAIN pool : pool[i] # net.svc
    /\ net.pc = "erased" => \A c \in Cid : svc_list[c] # net.svc

\* An object that has an fd has a cid, which stands for it, and the fd is open.
HoldsItsCid(o) == cid[o] \in Cid /\ svc_list[cid[o]] = o /\ fd_state[fd[o]] = "open"
FdsHeld ==
    /\ \A o \in Svc : IF fd[o] = None THEN cid[o] = 0 ELSE HoldsItsCid(o)
    /\ \A o, p \in Svc : fd[o] = fd[p] /\ fd[o] # None => o = p

\* The reactor may know an object that was released, but by an fd that is closed.
Reactor ==
    \A k \in Conn : pending_io[k] # None =>
        /\ fd_state[k] # "new"
        /\ fd_state[k] = "open" => fd[pending_io[k]] = k

IInv ==
    /\ TypeOK /\ Numbered /\ KnownCids
    /\ PooledOnce /\ PooledFree /\ UsedOnce
    /\ InHands /\ FdsHeld /\ Reactor /\ OpenFdIsHeld

-----------------------------------------------------------------------------
(* Steps that neither take nor release an object. *)
LEMMA OthersKeep ==
    ASSUME IInv, UNCHANGED <<fd_state, pool, svc_list, next_cid, fd, cid>>,
           TypeOK', KnownCids', InHands', Reactor'
    PROVE  IInv'
<1>1. Numbered'
  BY DEF IInv, Numbered, New
<1>2. PooledOnce' /\ PooledFree' /\ UsedOnce'
  BY DEF IInv, PooledOnce, PooledFree, UsedOnce
<1>3. FdsHeld' /\ OpenFdIsHeld'
  BY DEF IInv, FdsHeld, HoldsItsCid, OpenFdIsHeld, InUse
<1> QED
  BY <1>1, <1>2, <1>3 DEF IInv

LEMMA AddToReactorKeeps ==
    ASSUME IInv, AddToReactor
    PROVE  IInv'
<1>1. TypeOK'
  BY DEF IInv, TypeOK, AcceptPc, NetPc, obj_vars, InHands, AddToReactor
<1>2. KnownCids'
  BY DEF IInv, TypeOK, KnownCids, AddToReactor
<1>3. InHands'
  BY DEF IInv, TypeOK, InHands, obj_vars, AddToReactor
<1>4. Reactor'
  <2>1. accept.svc \in Svc
    BY DEF IInv, InHands, AddToReactor
  <2>2. fd[accept.svc] # None => fd_state[fd[accept.svc]] = "open"
    BY <2>1 DEF IInv, FdsHeld, HoldsItsCid
  <2>3. /\ UNCHANGED <<fd, fd_state>>
        /\ \A k \in Conn : pending_io'[k] = IF k = fd[accept.svc] THEN accept.svc ELSE pending_io[k]
    BY DEF IInv, TypeOK, AddToReactor, obj_vars
  <2> QED
    BY <2>1, <2>2, <2>3, RegistrationAssumption DEF IInv, Reactor
<1> QED
  BY <1>1, <1>2, <1>3, <1>4, OthersKeep DEF AddToReactor, obj_vars

LEMMA InsertSvcMapKeeps ==
    ASSUME IInv, InsertSvcMap
    PROVE  IInv'
<1>1. TypeOK'
  <2>1. accept.svc \in Svc /\ <<cid[accept.svc], accept.svc>> \in (Cid \cup {0}) \X Svc
    BY DEF IInv, TypeOK, InHands, InsertSvcMap
  <2>2. svc_map' \in SUBSET ((Cid \cup {0}) \X Svc)
    BY <2>1 DEF IInv, TypeOK, InsertSvcMap
  <2> QED
    BY <2>2 DEF IInv, TypeOK, AcceptPc, InsertSvcMap, obj_vars
<1>2. KnownCids'
  BY DEF IInv, TypeOK, KnownCids, InsertSvcMap
<1>3. InHands'
  BY DEF IInv, TypeOK, InHands, obj_vars, InsertSvcMap
<1>4. Reactor'
  BY DEF IInv, TypeOK, Reactor, obj_vars, InsertSvcMap
<1> QED
  BY <1>1, <1>2, <1>3, <1>4, OthersKeep DEF InsertSvcMap, obj_vars

LEMMA SetRegNetworkKeeps ==
    ASSUME IInv, SetRegNetwork
    PROVE  IInv'
<1>1. TypeOK'
  BY DEF IInv, TypeOK, AcceptPc, NetPc, obj_vars, InHands, SetRegNetwork
<1>2. KnownCids'
  BY DEF IInv, TypeOK, KnownCids, SetRegNetwork
<1>3. InHands'
  BY DEF IInv, TypeOK, InHands, obj_vars, SetRegNetwork
<1>4. Reactor'
  BY DEF IInv, TypeOK, Reactor, obj_vars, SetRegNetwork
<1> QED
  BY <1>1, <1>2, <1>3, <1>4, OthersKeep DEF SetRegNetwork, obj_vars

LEMMA PeerShutsKeeps ==
    ASSUME IInv, NEW k \in Conn, PeerShuts(k)
    PROVE  IInv'
<1>1. TypeOK'
  BY DEF IInv, TypeOK, AcceptPc, NetPc, obj_vars, PeerShuts
<1>2. KnownCids'
  BY DEF IInv, TypeOK, KnownCids, PeerShuts
<1>3. InHands'
  BY DEF IInv, TypeOK, InHands, obj_vars, PeerShuts
<1>4. Reactor'
  BY DEF IInv, TypeOK, Reactor, obj_vars, PeerShuts
<1> QED
  BY <1>1, <1>2, <1>3, <1>4, OthersKeep DEF PeerShuts, obj_vars

LEMMA HandleInputKeeps ==
    ASSUME IInv, NEW k \in Conn, HandleInput(k)
    PROVE  IInv'
<1>1. TypeOK'
  BY DEF IInv, TypeOK, AcceptPc, NetPc, obj_vars, HandleInput
<1>2. KnownCids'
  BY DEF IInv, TypeOK, KnownCids, HandleInput
<1>3. InHands'
  BY DEF IInv, TypeOK, InHands, obj_vars, HandleInput
<1>4. Reactor'
  BY DEF IInv, TypeOK, Reactor, obj_vars, HandleInput
<1> QED
  BY <1>1, <1>2, <1>3, <1>4, OthersKeep DEF HandleInput, obj_vars

LEMMA HandleEofKeeps ==
    ASSUME IInv, NEW k \in Conn, HandleEof(k)
    PROVE  IInv'
<1>1. TypeOK'
  <2>1. pending_io[k] \in Svc /\ cid[pending_io[k]] \in Cid
    BY RegistrationAssumption DEF IInv, TypeOK, FdsHeld, HoldsItsCid, Reactor, HandleEof
  <2>2. drop_list' \in Seq(Cid)
    BY <2>1 DEF IInv, TypeOK, HandleEof
  <2> QED
    BY <2>2 DEF IInv, TypeOK, HandleEof, obj_vars
<1>2. KnownCids'
  BY DEF IInv, TypeOK, KnownCids, FdsHeld, HoldsItsCid, Reactor, HandleEof
<1>3. InHands'
  BY DEF IInv, TypeOK, InHands, obj_vars, HandleEof
<1>4. Reactor'
  BY DEF IInv, TypeOK, Reactor, obj_vars, HandleEof
<1> QED
  BY <1>1, <1>2, <1>3, <1>4, OthersKeep DEF HandleEof, obj_vars

LEMMA PushDropKeeps ==
    ASSUME IInv, NEW c \in Cid, PushDrop(c)
    PROVE  IInv'
<1>1. TypeOK'
  BY DEF IInv, TypeOK, AcceptPc, NetPc, obj_vars, PushDrop
<1>2. KnownCids'
  BY DEF IInv, TypeOK, KnownCids, PushDrop
<1>3. InHands'
  BY DEF IInv, TypeOK, InHands, obj_vars, PushDrop
<1>4. Reactor'
  BY DEF IInv, TypeOK, Reactor, obj_vars, PushDrop
<1> QED
  BY <1>1, <1>2, <1>3, <1>4, OthersKeep DEF PushDrop, obj_vars

LEMMA TimerFiresKeeps ==
    ASSUME IInv, TimerFires
    PROVE  IInv'
<1>1. TypeOK'
  BY DEF IInv, TypeOK, AcceptPc, NetPc, obj_vars, TimerFires
<1>2. KnownCids'
  BY DEF IInv, TypeOK, KnownCids, TimerFires
<1>3. InHands'
  BY DEF IInv, TypeOK, InHands, obj_vars, TimerFires
<1>4. Reactor'
  BY DEF IInv, TypeOK, Reactor, obj_vars, TimerFires
<1> QED
  BY <1>1, <1>2, <1>3, <1>4, OthersKeep DEF TimerFires, obj_vars

LEMMA ProcessDropKeeps ==
    ASSUME IInv, ProcessDrop
    PROVE  IInv'
<1>1. TypeOK'
  <2>1. drop_list' \in Seq(Cid) /\ net' \in [pc : NetPc, cid : Cid \cup {0}, svc : Svc \cup {None}]
    BY DEF IInv, TypeOK, NetPc, ProcessDrop
  <2>2. /\ closed' \in [Svc -> BOOLEAN] /\ reg_network' \in [Svc -> BOOLEAN]
        /\ pending_io' \in [Conn -> Svc \cup {None}] /\ svc_map' \in SUBSET ((Cid \cup {0}) \X Svc)
    BY DEF IInv, TypeOK, ProcessDrop
  <2> QED
    BY <2>1, <2>2 DEF IInv, TypeOK, ProcessDrop
<1>2. KnownCids'
  BY DEF IInv, TypeOK, KnownCids, ProcessDrop
<1>3. InHands'
  BY DEF IInv, TypeOK, InHands, obj_vars, ProcessDrop
<1>4. Reactor'
  BY DEF IInv, TypeOK, Reactor, obj_vars, ProcessDrop
<1> QED
  BY <1>1, <1>2, <1>3, <1>4, OthersKeep DEF ProcessDrop, obj_vars

(* The heartbeat queues the cids of the objects it closes, in some order. *)
LEMMA BeatenKnown ==
    ASSUME IInv, HeartbeatScan
    PROVE  /\ drop_list' \in Seq(Cid) /\ \A i \in DOMAIN drop_list' : drop_list'[i] < next_cid
           /\ closed' \in [Svc -> BOOLEAN] /\ alive' \in [Svc -> BOOLEAN]
<1> DEFINE open == {o \in Svc : Entries(o) > 0 /\ ~closed[o]}
           dead == {o \in open : ~alive[o] \/ BeatenTwice(o)}
<1>1. PICK order \in [1 .. Cardinality(dead) -> dead] :
          drop_list' = drop_list \o [i \in DOMAIN order |-> cid[order[i]]]
  BY DEF HeartbeatScan
<1>2. /\ \A o \in dead : o \in Svc /\ cid[o] # 0
      /\ alive' = [o \in Svc |-> alive[o] /\ o \notin open]
      /\ closed' = [o \in Svc |-> closed[o] \/ o \in dead]
  BY DEF HeartbeatScan
<1>3. Cardinality(dead) \in Nat
  <2>1. dead \subseteq Svc
    OBVIOUS
  <2> QED
    BY <2>1, RegistrationAssumption, FS_Subset, FS_CardinalityType
<1> HIDE DEF open, dead
<1>4. \A o \in dead : cid[o] \in Cid /\ cid[o] < next_cid
  BY <1>2, RegistrationAssumption DEF IInv, TypeOK, FdsHeld, HoldsItsCid, KnownCids
<1> DEFINE beaten == [i \in 1 .. Cardinality(dead) |-> cid[order[i]]]
<1>5. beaten \in Seq(Cid) /\ \A i \in DOMAIN beaten : beaten[i] < next_cid
  BY <1>3, <1>4
<1>6. drop_list' = drop_list \o beaten
  BY <1>1
<1> HIDE DEF beaten
<1>7. drop_list' \in Seq(Cid) /\ \A i \in DOMAIN drop_list' : drop_list'[i] < next_cid
  BY <1>5, <1>6 DEF IInv, TypeOK, KnownCids
<1>8. closed' \in [Svc -> BOOLEAN] /\ alive' \in [Svc -> BOOLEAN]
  BY <1>2, Zenon DEF IInv, TypeOK
<1> QED
  BY <1>7, <1>8

LEMMA HeartbeatScanKeeps ==
    ASSUME IInv, HeartbeatScan
    PROVE  IInv'
<1>1. TypeOK'
  BY BeatenKnown DEF IInv, TypeOK, NetPc, HeartbeatScan
<1>2. KnownCids'
  BY BeatenKnown DEF IInv, TypeOK, KnownCids, HeartbeatScan
<1>3. InHands'
  BY DEF IInv, TypeOK, InHands, HeartbeatScan
<1>4. Reactor'
  BY DEF IInv, TypeOK, Reactor, HeartbeatScan
<1> QED
  BY <1>1, <1>2, <1>3, <1>4, OthersKeep DEF HeartbeatScan

LEMMA TimerEndsKeeps ==
    ASSUME IInv, TimerEnds
    PROVE  IInv'
<1>1. TypeOK'
  BY DEF IInv, TypeOK, AcceptPc, NetPc, obj_vars, TimerEnds
<1>2. KnownCids'
  BY DEF IInv, TypeOK, KnownCids, TimerEnds
<1>3. InHands'
  BY DEF IInv, TypeOK, InHands, obj_vars, TimerEnds
<1>4. Reactor'
  BY DEF IInv, TypeOK, Reactor, obj_vars, TimerEnds
<1> QED
  BY <1>1, <1>2, <1>3, <1>4, OthersKeep DEF TimerEnds, obj_vars

-----------------------------------------------------------------------------
(* Steps that take or release an object. *)
LEMMA PopSvcKeeps ==
    ASSUME IInv, NEW k \in Conn, PopSvc(k)
    PROVE  IInv'
<1>1. next_cid \in Cid /\ next_cid \in Nat
  <2>1. IsFiniteSet(New) /\ k \in New
    BY RegistrationAssumption, FS_Subset DEF New, PopSvc
  <2>2. Cardinality(New) >= 1 /\ Cardinality(New) \in Nat /\ Cardinality(Conn) \in Nat
    BY <2>1, RegistrationAssumption, FS_CardinalityType, FS_EmptySet
  <2> QED
    BY <2>2 DEF IInv, TypeOK, Numbered, Cid
<1>2. next_cid' = next_cid + 1 /\ Numbered'
  <2>1. New' = New \ {k}
    BY DEF IInv, TypeOK, New, PopSvc
  <2>2. IsFiniteSet(New) /\ k \in New
    BY RegistrationAssumption, FS_Subset DEF New, PopSvc
  <2>3. Cardinality(New') = Cardinality(New) - 1 /\ Cardinality(New) \in Nat
    BY <2>1, <2>2, FS_RemoveElement, FS_CardinalityType
  <2>4. Cardinality(Conn) \in Nat
    BY RegistrationAssumption, FS_CardinalityType
  <2> QED
    BY <1>1, <2>3, <2>4 DEF IInv, Numbered, PopSvc
<1>3. PICK o \in Poppable :
        /\ pool' = IF pool # <<>> THEN Tail(pool) ELSE pool
        /\ svc_list' = [svc_list EXCEPT ![next_cid] = o]
        /\ fd' = [fd EXCEPT ![o] = k]
        /\ cid' = [cid EXCEPT ![o] = next_cid]
        /\ closed' = [closed EXCEPT ![o] = FALSE]
        /\ alive' = [alive EXCEPT ![o] = TRUE]
        /\ reg_network' = [reg_network EXCEPT ![o] = FALSE]
        /\ accept' = [pc |-> "popped", svc |-> o]
  BY DEF PopSvc
\* The object is free, whether from the pool or new.
<1>4. /\ o \in Svc /\ \A c \in Cid : svc_list[c] # o
      /\ net.pc \in {"reset", "erased"} => o # net.svc
      /\ \A i \in DOMAIN pool' : pool'[i] # o
  <2>1. CASE pool # <<>>
    <3>1. o = pool[1] /\ 1 \in DOMAIN pool /\ pool' = Tail(pool)
      BY <1>3, <2>1 DEF IInv, TypeOK, Poppable
    <3>2. \A i \in DOMAIN pool' : i + 1 \in DOMAIN pool /\ i + 1 # 1 /\ pool'[i] = pool[i + 1]
      BY <2>1, <3>1 DEF IInv, TypeOK
    <3> QED
      BY <3>1, <3>2 DEF IInv, PooledOnce, PooledFree, InHands
  <2>2. CASE pool = <<>>
    BY <1>3, <2>2 DEF Poppable
  <2> QED
    BY <2>1, <2>2
<1>5. \A i \in DOMAIN pool' : i \in Nat /\ 
        \E j \in DOMAIN pool : pool'[i] = pool[j] /\ j = IF pool # <<>> THEN i + 1 ELSE i
  BY <1>3 DEF IInv, TypeOK
<1>6. svc_list[next_cid] = None /\ fd[o] = None
  <2>1. svc_list[next_cid] = None
    BY <1>1 DEF IInv, KnownCids
  <2>2. fd[o] = None
    BY <1>4 DEF IInv, FdsHeld, HoldsItsCid
  <2> QED
    BY <2>1, <2>2
<1>7. \A p \in Svc : fd[p] # k
  BY RegistrationAssumption DEF IInv, FdsHeld, HoldsItsCid, PopSvc
<1>8. /\ UNCHANGED <<peer_shut, pending_io, svc_map, net, drop_list, told>>
      /\ fd_state' = [fd_state EXCEPT ![k] = "open"]
  BY DEF PopSvc
<1>10. TypeOK'
  <2>1. next_cid' \in 2 .. Cardinality(Conn) + 2
    <3>1. Cardinality(Conn) \in Nat
      BY RegistrationAssumption, FS_CardinalityType
    <3> QED
      BY <1>1, <1>2, <3>1 DEF Cid
  <2>2. pool' \in Seq(Svc)
    BY <1>3 DEF IInv, TypeOK
  <2>3. accept' \in [pc : AcceptPc, svc : Svc \cup {None}]
    BY <1>3, <1>4 DEF AcceptPc
  <2>4. /\ svc_list' \in [Cid -> Svc \cup {None}] /\ fd' \in [Svc -> Conn \cup {None}]
        /\ cid' \in [Svc -> Cid \cup {0}] /\ fd_state' \in [Conn -> {"new", "open", "closed"}]
        /\ closed' \in [Svc -> BOOLEAN] /\ alive' \in [Svc -> BOOLEAN]
        /\ reg_network' \in [Svc -> BOOLEAN]
    BY <1>1, <1>3, <1>4, <1>8 DEF IInv, TypeOK
  <2> QED
    BY <1>8, <2>1, <2>2, <2>3, <2>4 DEF IInv, TypeOK
<1>11. KnownCids'
  <2>1. \A c \in Cid : c \in Nat
    BY DEF Cid
  <2>2. \A c \in Cid : svc_list'[c] # None => c = next_cid \/ svc_list[c] # None
    BY <1>1, <1>3 DEF IInv, TypeOK
  <2>3. drop_list \in Seq(Cid)
    BY DEF IInv, TypeOK
  <2>4. \A c \in Cid : svc_list'[c] # None => c < next_cid'
    BY <1>1, <1>2, <2>1, <2>2 DEF IInv, KnownCids
  <2>5. \A i \in DOMAIN drop_list' : drop_list'[i] < next_cid'
    <3>1. \A i \in DOMAIN drop_list : drop_list[i] \in Nat
      BY <2>1, <2>3
    <3> QED
      BY <1>1, <1>2, <1>8, <3>1 DEF IInv, KnownCids
  <2> QED
    BY <1>1, <1>2, <1>8, <2>1, <2>4, <2>5 DEF IInv, KnownCids
<1>12. PooledOnce' /\ PooledFree'
  <2>1. PooledOnce'
    BY <1>5 DEF IInv, PooledOnce
  <2>2. PooledFree'
    BY <1>1, <1>3, <1>4, <1>5 DEF IInv, TypeOK, PooledFree
  <2> QED
    BY <2>1, <2>2
<1>13. UsedOnce'
  BY <1>1, <1>3, <1>4 DEF IInv, TypeOK, UsedOnce
<1>14. InHands'
  <2>1. net.pc \in {"drop", "reset", "erased"} => net.cid \in Cid /\ net.cid # next_cid
    BY <1>1 DEF IInv, KnownCids, TypeOK, Cid
  <2> QED
    <3>1. accept'.svc \in Svc
      BY <1>3, <1>4
    <3>2. \A c \in Cid : c # next_cid => svc_list'[c] = svc_list[c]
      BY <1>1, <1>3 DEF IInv, TypeOK
    <3>3. \A p \in Svc : p # o => closed'[p] = closed[p] /\ fd'[p] = fd[p]
      BY <1>3, <1>4 DEF IInv, TypeOK
    <3>4. net.pc \in {"reset", "erased"} =>
              net.svc \in Svc /\ net.svc # o /\ \A i \in DOMAIN pool' : pool'[i] # net.svc
      BY <1>4, <1>5 DEF IInv, InHands
    <3>5. net.pc = "drop" /\ svc_list[net.cid] # None =>
              svc_list[net.cid] \in Svc /\ svc_list[net.cid] # o /\ closed[svc_list[net.cid]]
      BY <1>4, <2>1 DEF IInv, TypeOK, InHands
    <3>6. net.pc = "erased" => \A c \in Cid : svc_list'[c] # net.svc
      BY <1>3, <1>4 DEF IInv, TypeOK, InHands
    <3> QED
      BY <1>8, <2>1, <3>1, <3>2, <3>3, <3>4, <3>5, <3>6 DEF IInv, InHands
<1>15. FdsHeld'
  BY <1>1, <1>3, <1>4, <1>6, <1>7, <1>8, RegistrationAssumption DEF IInv, TypeOK, FdsHeld, HoldsItsCid
<1>16. Reactor'
  BY <1>3, <1>4, <1>6, <1>8, RegistrationAssumption DEF IInv, TypeOK, Reactor, PopSvc
<1>17. OpenFdIsHeld'
  BY <1>1, <1>3, <1>4, <1>6, <1>8, RegistrationAssumption DEF IInv, TypeOK, OpenFdIsHeld, InUse
<1> QED
  BY <1>2, <1>10, <1>11, <1>12, <1>13, <1>14, <1>15, <1>16, <1>17 DEF IInv

LEMMA DropHandlerKeeps ==
    ASSUME IInv, DropHandler
    PROVE  IInv'
<1> DEFINE o == svc_list[net.cid]
<1>1. net.cid \in Cid /\ net.pc = "drop" /\ told' \in SUBSET Cid
  BY DEF IInv, TypeOK, KnownCids, DropHandler
<1>2. CASE o = None
  <2>1. UNCHANGED <<fd_state, pool, svc_list, next_cid, fd, cid, closed, pending_io, drop_list, accept>>
    BY <1>1, <1>2 DEF DropHandler, obj_vars
  <2>2. TypeOK'
    BY <1>1, <1>2 DEF IInv, TypeOK, NetPc, DropHandler, obj_vars
  <2>3. KnownCids' /\ InHands' /\ Reactor'
    BY <1>1, <1>2 DEF IInv, TypeOK, KnownCids, InHands, Reactor, DropHandler, obj_vars
  <2> QED
    BY <2>1, <2>2, <2>3, OthersKeep
<1>3. CASE o # None
  <2>1. o \in Svc /\ closed[o]
    BY <1>1, <1>3 DEF IInv, TypeOK, InHands
  <2>2. /\ fd' = [fd EXCEPT ![o] = None] /\ cid' = [cid EXCEPT ![o] = 0]
        /\ closed' = [closed EXCEPT ![o] = FALSE] /\ alive' = [alive EXCEPT ![o] = FALSE]
        /\ reg_network' = [reg_network EXCEPT ![o] = FALSE]
        /\ fd_state' = [fd_state EXCEPT ![fd[o]] = "closed"]
        /\ net' = [net EXCEPT !.pc = "reset", !.svc = o]
    BY <1>3, <2>1 DEF DropHandler
  <2>3. UNCHANGED <<peer_shut, pool, svc_list, next_cid, pending_io, svc_map, accept, drop_list>>
    BY DEF DropHandler
  <2>4. \A p \in Svc : p # o => fd'[p] = fd[p] /\ cid'[p] = cid[p] /\ closed'[p] = closed[p]
    BY <2>1, <2>2 DEF IInv, TypeOK
  <2>5. fd'[o] = None /\ cid'[o] = 0
    BY <2>1, <2>2 DEF IInv, TypeOK
  <2>6. \A k \in Conn : fd_state'[k] = IF k = fd[o] THEN "closed" ELSE fd_state[k]
    BY <2>2 DEF IInv, TypeOK
  <2>7. net' = [pc |-> "reset", cid |-> net.cid, svc |-> o]
    BY <2>2 DEF IInv, TypeOK
  <2>8. fd[o] # None => fd[o] \in Conn /\ fd_state[fd[o]] = "open"
    BY <2>1 DEF IInv, TypeOK, FdsHeld, HoldsItsCid
  <2>9. TypeOK'
    BY <1>1, <2>1, <2>2, <2>3, <2>7 DEF IInv, TypeOK, NetPc
  <2>10. New' = New
    BY <2>6, <2>8, RegistrationAssumption DEF New
  <2>11. Numbered' /\ KnownCids'
    BY <1>1, <2>3, <2>7, <2>10 DEF IInv, Numbered, KnownCids
  <2>12. PooledOnce' /\ PooledFree' /\ UsedOnce'
    BY <2>3 DEF IInv, PooledOnce, PooledFree, UsedOnce
  <2>13. InHands'
    BY <1>1, <2>1, <2>3, <2>5, <2>7 DEF IInv, InHands, PooledFree
  <2>14. FdsHeld'
    <3>1. ASSUME NEW p \in Svc, p # o, fd[p] # None PROVE HoldsItsCid(p)'
      <4>1. fd[p] \in Conn /\ fd[p] # fd[o] /\ HoldsItsCid(p)
        BY <2>1, <3>1 DEF IInv, TypeOK, FdsHeld
      <4> QED
        BY <2>3, <2>4, <2>6, <3>1, <4>1 DEF HoldsItsCid
    <3> QED
      BY <2>4, <2>5, <3>1 DEF IInv, FdsHeld
  <2>15. Reactor'
    BY <2>3, <2>4, <2>6, <2>8 DEF IInv, TypeOK, Reactor
  <2>16. OpenFdIsHeld'
    BY <2>3, <2>4, <2>6 DEF IInv, OpenFdIsHeld, InUse
  <2> QED
    BY <2>9, <2>11, <2>12, <2>13, <2>14, <2>15, <2>16 DEF IInv
<1> QED
  BY <1>2, <1>3

LEMMA EraseSvcKeeps ==
    ASSUME IInv, EraseSvc
    PROVE  IInv'
<1>1. net.cid \in Cid /\ svc_list[net.cid] = net.svc /\ fd[net.svc] = None /\ net.svc \in Svc
  BY DEF IInv, KnownCids, InHands, EraseSvc
<1>2. \A c \in Cid : svc_list'[c] = IF c = net.cid THEN None ELSE svc_list[c]
  BY DEF IInv, TypeOK, EraseSvc
<1>3. net' = [pc |-> "erased", cid |-> net.cid, svc |-> net.svc]
  BY DEF IInv, TypeOK, EraseSvc
<1>4. TypeOK' /\ KnownCids'
  BY <1>1, <1>2, <1>3 DEF IInv, TypeOK, NetPc, KnownCids, EraseSvc, obj_vars
<1>5. Numbered' /\ PooledOnce'
  BY DEF IInv, Numbered, New, PooledOnce, EraseSvc
<1>6. PooledFree' /\ UsedOnce'
  BY <1>2, RegistrationAssumption DEF IInv, PooledFree, UsedOnce, EraseSvc
<1>7. InHands'
  BY <1>1, <1>2, <1>3, RegistrationAssumption DEF IInv, InHands, UsedOnce, EraseSvc
<1>8. FdsHeld' /\ Reactor'
  BY <1>1, <1>2 DEF IInv, TypeOK, FdsHeld, HoldsItsCid, Reactor, EraseSvc, obj_vars
<1>9. OpenFdIsHeld'
  BY <1>1, <1>2, RegistrationAssumption DEF IInv, OpenFdIsHeld, InUse, FdsHeld, HoldsItsCid, EraseSvc, obj_vars
<1> QED
  BY <1>4, <1>5, <1>6, <1>7, <1>8, <1>9 DEF IInv

LEMMA PoolSvcKeeps ==
    ASSUME IInv, PoolSvc
    PROVE  IInv'
<1>1. /\ net.svc \in Svc /\ \A c \in Cid : svc_list[c] # net.svc
      /\ \A i \in DOMAIN pool : pool[i] # net.svc
  BY DEF IInv, InHands, PoolSvc
<1>2. /\ pool' \in Seq(Svc)
      /\ \A i \in DOMAIN pool' : pool'[i] = IF i \in DOMAIN pool THEN pool[i] ELSE net.svc
      /\ \A i, j \in DOMAIN pool' : i \notin DOMAIN pool /\ j \notin DOMAIN pool => i = j
  BY <1>1 DEF IInv, TypeOK, PoolSvc
<1>3. TypeOK' /\ KnownCids' /\ InHands'
  BY <1>2 DEF IInv, TypeOK, NetPc, KnownCids, InHands, PoolSvc, obj_vars
<1>4. PooledOnce' /\ PooledFree'
  BY <1>1, <1>2 DEF IInv, PooledOnce, PooledFree, PoolSvc
<1>5. Numbered' /\ UsedOnce'
  BY DEF IInv, Numbered, New, UsedOnce, PoolSvc
<1>6. FdsHeld' /\ Reactor' /\ OpenFdIsHeld'
  BY DEF IInv, FdsHeld, HoldsItsCid, Reactor, OpenFdIsHeld, InUse, PoolSvc, obj_vars
<1> QED
  BY <1>3, <1>4, <1>5, <1>6 DEF IInv

-----------------------------------------------------------------------------
LEMMA InitInv == Init => IInv
<1> SUFFICES ASSUME Init PROVE IInv
  OBVIOUS
<1>1. Cardinality(Conn) \in Nat
  BY RegistrationAssumption, FS_CardinalityType
<1>2. TypeOK
  BY <1>1 DEF Init, TypeOK, AcceptPc, NetPc
<1>3. New = Conn
  BY DEF Init, New
<1>4. Numbered
  BY <1>1, <1>3 DEF Init, Numbered
<1>5. KnownCids /\ PooledOnce /\ PooledFree /\ UsedOnce /\ InHands
  BY DEF Init, KnownCids, PooledOnce, PooledFree, UsedOnce, InHands
<1>6. FdsHeld /\ Reactor /\ OpenFdIsHeld
  BY DEF Init, FdsHeld, HoldsItsCid, Reactor, OpenFdIsHeld, InUse
<1> QED
  BY <1>2, <1>4, <1>5, <1>6 DEF IInv

LEMMA NextInv == IInv /\ [Next]_vars => IInv'
<1> SUFFICES ASSUME IInv, [Next]_vars PROVE IInv'
  OBVIOUS
<1>1. CASE UNCHANGED vars
  <2>1. TypeOK' /\ KnownCids' /\ InHands' /\ Reactor'
    BY <1>1 DEF IInv, TypeOK, KnownCids, InHands, Reactor, vars, obj_vars
  <2> QED
    BY <1>1, <2>1, OthersKeep DEF vars, obj_vars
<1>2. ASSUME NEW k \in Conn, PopSvc(k) \/ PeerShuts(k) \/ HandleInput(k) \/ HandleEof(k) PROVE IInv'
  BY <1>2, PopSvcKeeps, PeerShutsKeeps, HandleInputKeeps, HandleEofKeeps
<1>3. ASSUME AddToReactor \/ InsertSvcMap \/ SetRegNetwork PROVE IInv'
  BY <1>3, AddToReactorKeeps, InsertSvcMapKeeps, SetRegNetworkKeeps
<1>4. ASSUME NEW c \in Cid, PushDrop(c) PROVE IInv'
  BY <1>4, PushDropKeeps
<1>5. ASSUME TimerFires \/ ProcessDrop \/ DropHandler \/ EraseSvc \/ PoolSvc PROVE IInv'
  BY <1>5, TimerFiresKeeps, ProcessDropKeeps, DropHandlerKeeps, EraseSvcKeeps, PoolSvcKeeps
<1>6. ASSUME HeartbeatScan \/ TimerEnds PROVE IInv'
  BY <1>6, HeartbeatScanKeeps, TimerEndsKeeps
<1> QED
  BY <1>1, <1>2, <1>3, <1>4, <1>5, <1>6 DEF Next

LEMMA InvHolds == Spec => []IInv
BY InitInv, NextInv, PTL DEF Spec

(***************************************************************************)
(* The types, among them that no queued cid is that of a released object   *)
(* (0): whoever closes a connection finds its cid (handle_close).          *)
(***************************************************************************)
THEOREM TypeCorrect == Spec => []TypeOK
<1>1. IInv => TypeOK
  BY DEF IInv
<1> QED
  BY <1>1, InvHolds, PTL

(***************************************************************************)
(* No object stands for two connections, however often the drop of a cid   *)
(* is queued and whenever the object is released (pop_svc, push_svc).      *)
(***************************************************************************)
THEOREM ObjectsNeverShared == Spec => []ObjectsNotShared
<1>1. IInv => ObjectsNotShared
  BY DEF IInv, TypeOK, PooledOnce, PooledFree, UsedOnce, ObjectsNotShared, PoolSet, InUse
<1> QED
  BY <1>1, InvHolds, PTL

(***************************************************************************)
(* No fd leaks: an open one is held by an object in use (push_svc).        *)
(***************************************************************************)
THEOREM OpenFdsAlwaysHeld == Spec => []OpenFdIsHeld
<1>1. IInv => OpenFdIsHeld
  BY DEF IInv
<1> QED
  BY <1>1, InvHolds, PTL
=============================================================================
