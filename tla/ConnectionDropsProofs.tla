------------------------ MODULE ConnectionDropsProofs -------------------------
(***************************************************************************)
(* Proofs about how connections come and go, for any number of them, any   *)
(* table and any clock: no queued cid ever comes to mean another client    *)
(* (CoolingCoversDrops), and the heartbeat's one bit per connection closes *)
(* the silent clients in time, and only those.                             *)
(***************************************************************************)
EXTENDS ConnectionDrops, FiniteSetTheorems, TLAPS

ListProofs == INSTANCE CidAllocatorProofs WITH Svc <- Conn, NoSvc <- NoConn

(***************************************************************************)
(* An entry e of a queue.  As long as its cid has not been released, or    *)
(* handed out again, nothing is wrong; when it has been released, e is     *)
(* younger than that by off at most, and it is lag old at most.            *)
(***************************************************************************)
Fresh(e, off, lag, own, fr, n, t) ==
    /\ e.cid < n /\ e.at <= t /\ t - e.at <= lag
    /\ own[e.cid] \in {e.conn, NoConn}
    /\ \A i \in DOMAIN fr : fr[i].cid = e.cid => e.at <= fr[i].at + off

FreshQueue(q, off, lag, own, fr, n, t) ==
    /\ q \in Seq(Entry)
    /\ \A i \in DOMAIN q : Fresh(q[i], off, lag, own, fr, n, t)
    /\ \A i, j \in DOMAIN q : i < j => q[i].at <= q[j].at

\* The way of a cid: a message, the close it asks for, the drop, the news of it.
QueuesFresh ==
    /\ FreshQueue(buffer_list, 0, MaxLag, owner, free, size, now)
    /\ FreshQueue(drop_info_list, MaxLag, DropDelay + MaxLag, owner, free, size, now)
    /\ FreshQueue(drop_list, DropDelay + 2 * MaxLag, MaxLag, owner, free, size, now)
    /\ FreshQueue(drop_cid_list, DropDelay + 3 * MaxLag, MaxLag, owner, free, size, now)

\* A registered connection has a cid.
Listed ==
    /\ \A k \in registered : \E c \in Cid : owner[c] = k
    /\ registered \in SUBSET Conn /\ IsFiniteSet(registered)

ListInv == SvcList!TypeOK /\ ListProofs!Accounted

Types ==
    /\ closed \in [Conn -> BOOLEAN] /\ alive \in [Conn -> BOOLEAN]
    /\ last_input \in [Conn -> Nat] /\ heartbeat_tv \in Nat

\* The bit says on which side of the last heartbeat, heartbeat_tv - HeartbeatTimeout,
\* the last input lies; the heartbeats themselves are MaxLag late at most.
AliveBit ==
    /\ heartbeat_tv <= now + HeartbeatTimeout
    /\ \A k \in registered :
          /\ last_input[k] <= now
          /\ ~closed[k] /\ ~alive[k] => last_input[k] + HeartbeatTimeout <= heartbeat_tv
          /\ ~closed[k] /\ alive[k] => heartbeat_tv <= last_input[k] + HeartbeatTimeout
    /\ HeartbeatTimeout > 0 =>
          /\ now <= heartbeat_tv + MaxLag
          /\ \A k \in registered :
                ~closed[k] => heartbeat_tv <= last_input[k] + 2 * HeartbeatTimeout + MaxLag

IInv == ListInv /\ Listed /\ QueuesFresh /\ Types /\ AliveBit

-----------------------------------------------------------------------------
(* Queues. *)
LEMMA FreshTail ==
    ASSUME NEW q, NEW off, NEW lag, NEW own, NEW fr, NEW n, NEW t,
           FreshQueue(q, off, lag, own, fr, n, t), q # <<>>
    PROVE  /\ FreshQueue(Tail(q), off, lag, own, fr, n, t)
           /\ Head(q) \in Entry /\ Fresh(Head(q), off, lag, own, fr, n, t)
<1>1. /\ q \in Seq(Entry) /\ Tail(q) \in Seq(Entry) /\ Head(q) = q[1] /\ 1 \in DOMAIN q /\ q[1] \in Entry
      /\ \A i \in DOMAIN Tail(q) : i + 1 \in DOMAIN q /\ Tail(q)[i] = q[i + 1] /\ i \in Nat
  BY DEF FreshQueue
<1>2. \A i, j \in DOMAIN Tail(q) : i < j => i + 1 < j + 1
  BY <1>1
<1> QED
  BY <1>1, <1>2 DEF FreshQueue

LEMMA FreshConcat ==
    ASSUME NEW q, NEW off, NEW lag, NEW own, NEW fr, NEW n, NEW t \in Nat,
           FreshQueue(q, off, lag, own, fr, n, t),
           NEW s \in Seq(Entry),
           \A i \in DOMAIN s : s[i].at = t /\ Fresh(s[i], off, lag, own, fr, n, t)
    PROVE  FreshQueue(q \o s, off, lag, own, fr, n, t)
<1>1. PICK l \in Nat : l = Len(q) /\ q \in Seq(Entry) /\ DOMAIN q = 1 .. l
  BY DEF FreshQueue
<1>2. /\ q \o s \in Seq(Entry)
      /\ \A i \in DOMAIN (q \o s) : i \in Nat
      /\ \A i \in DOMAIN (q \o s) : i \in DOMAIN q => (q \o s)[i] = q[i]
      /\ \A i \in DOMAIN (q \o s) : i \notin DOMAIN q =>
            i > l /\ i - l \in DOMAIN s /\ (q \o s)[i] = s[i - l]
  BY <1>1
<1>3. PICK z : z = q \o s
  OBVIOUS
<1>4. \A i \in DOMAIN z : Fresh(z[i], off, lag, own, fr, n, t)
  BY <1>2, <1>3 DEF FreshQueue
<1>5. ASSUME NEW i \in DOMAIN z, NEW j \in DOMAIN z, i < j
      PROVE  z[i].at <= z[j].at
  <2>1. CASE j \in DOMAIN q
    BY <1>1, <1>2, <1>3, <1>5, <2>1 DEF FreshQueue
  <2>2. CASE j \notin DOMAIN q
    BY <1>2, <1>3, <1>4, <2>2 DEF Fresh
  <2> QED
    BY <2>1, <2>2
<1> QED
  BY <1>2, <1>3, <1>4, <1>5 DEF FreshQueue

LEMMA FreshAppend ==
    ASSUME NEW q, NEW off, NEW lag, NEW own, NEW fr, NEW n, NEW t \in Nat,
           FreshQueue(q, off, lag, own, fr, n, t),
           NEW e \in Entry, e.at = t, Fresh(e, off, lag, own, fr, n, t)
    PROVE  FreshQueue(Append(q, e), off, lag, own, fr, n, t)
<1>1. <<e>> \in Seq(Entry) /\ \A i \in DOMAIN <<e>> : <<e>>[i] = e
  OBVIOUS
<1>2. FreshQueue(q \o <<e>>, off, lag, own, fr, n, t)
  BY <1>1, FreshConcat
<1>3. q \o <<e>> = Append(q, e)
  BY DEF FreshQueue
<1> QED
  BY <1>2, <1>3

-----------------------------------------------------------------------------
(* The list of connections: its operations are those of the allocator. *)
ListStep ==
    \/ \E k \in Conn : SvcList!RecordNew(k) \/ SvcList!RecordReuse(k)
    \/ \E c \in Cid : SvcList!Erase(c)
    \/ UNCHANGED list_vars

LEMMA ListKept ==
    ASSUME ListInv, ListStep \/ SvcList!Tick
    PROVE  ListInv'
<1>1. [ListProofs!Next]_ListProofs!vars
  BY DEF ListStep, ListProofs!Next, ListProofs!vars, list_vars,
         SvcList!RecordNew, SvcList!RecordReuse, SvcList!Erase, SvcList!Tick, SvcList!Cid,
         SvcList!Reusable, SvcList!Cooled, ListProofs!Reusable, ListProofs!Cooled, Cid,
         ListProofs!RecordNew, ListProofs!RecordReuse, ListProofs!Erase, ListProofs!Tick, ListProofs!Cid
<1>2. SvcList!TypeOK <=> ListProofs!TypeOK
  BY DEF SvcList!TypeOK, ListProofs!TypeOK, SvcList!Release, ListProofs!Release, SvcList!Cid, ListProofs!Cid
<1>3. SvcList!TypeOK' <=> ListProofs!TypeOK'
  BY DEF SvcList!TypeOK, ListProofs!TypeOK, SvcList!Release, ListProofs!Release, SvcList!Cid, ListProofs!Cid
<1>4. ListProofs!TypeOK /\ ListProofs!Accounted
  BY <1>2 DEF ListInv
<1>5. ListProofs!TypeOK'
  BY <1>1, <1>4, ListProofs!TypeKept, DropsAssumption
<1>6. ListProofs!Accounted'
  BY <1>1, <1>4, ListProofs!AccountedKept, DropsAssumption
<1> QED
  BY <1>3, <1>5, <1>6 DEF ListInv

LEMMA ListTypes ==
    ASSUME ListInv
    PROVE  /\ owner \in [Cid -> Conn \cup {NoConn}] /\ now \in Nat /\ size \in Nat
           /\ \A c \in Cid : c \in Nat
           /\ \A c \in Cid : owner[c] # NoConn => c < size
           /\ \A i \in DOMAIN free : free[i].cid \in Cid /\ free[i].at \in Nat
           /\ \A i \in DOMAIN free : owner[free[i].cid] = NoConn
           /\ free # <<>> => Head(free) = free[1] /\ 1 \in DOMAIN free
           /\ free # <<>> => \A i \in DOMAIN Tail(free) : i + 1 \in DOMAIN free /\ Tail(free)[i] = free[i + 1]
           /\ free \in Seq(SvcList!Release)
           /\ size < MaxSize => size \in Cid
<1>1. /\ owner \in [Cid -> Conn \cup {NoConn}] /\ now \in Nat /\ size \in Nat /\ size >= 2
      /\ free \in Seq(SvcList!Release) /\ \A c \in Cid : c \in Nat
  BY DropsAssumption DEF ListInv, SvcList!TypeOK, Cid, SvcList!Cid
<1>2. ASSUME NEW i \in DOMAIN free PROVE free[i].cid \in Cid /\ free[i].at \in Nat
  <2>1. free[i] \in SvcList!Release
    BY <1>1
  <2> QED
    BY <2>1 DEF SvcList!Release, Cid
<1>3. DOMAIN free = 1 .. Len(free)
  BY <1>1
<1>4. \A c \in Cid : c \in ListProofs!Cid
  BY DEF Cid, SvcList!Cid, ListProofs!Cid
<1>5. \A c \in Cid : owner[c] # NoConn => c < size
  BY <1>1, <1>4 DEF ListInv, ListProofs!Accounted, ListProofs!InUse
<1>6. \A i \in DOMAIN free : free[i].cid \in ListProofs!CidsOf(free)
  BY <1>3 DEF ListProofs!CidsOf
<1>7. \A i \in DOMAIN free : owner[free[i].cid] = NoConn
  BY <1>1, <1>2, <1>4, <1>6 DEF ListInv, ListProofs!Accounted, ListProofs!InUse
<1>8. /\ free # <<>> => Head(free) = free[1] /\ 1 \in DOMAIN free
      /\ free # <<>> => \A i \in DOMAIN Tail(free) : i + 1 \in DOMAIN free /\ Tail(free)[i] = free[i + 1]
  BY <1>1
<1>9. size < MaxSize => size \in Cid
  BY <1>1, DropsAssumption DEF Cid, SvcList!Cid
<1> QED
  BY <1>1, <1>2, <1>5, <1>7, <1>8, <1>9

(* No operation of the list makes an entry stale: a cid is handed out again only when it has *)
(* cooled down, and by then every entry that knows it is gone.                               *)
LEMMA FreshStays ==
    ASSUME ListInv, ListStep, NEW off \in Nat, NEW lag \in Nat, off + lag <= DropDelay + 4 * MaxLag,
           NEW e \in Entry, Fresh(e, off, lag, owner, free, size, now)
    PROVE  Fresh(e, off, lag, owner', free', size', now')
<1>1. /\ e.cid \in Cid /\ e.at \in Nat /\ e.conn \in Conn
      /\ e.cid < size /\ e.at <= now /\ now - e.at <= lag
      /\ owner[e.cid] \in {e.conn, NoConn}
      /\ \A i \in DOMAIN free : free[i].cid = e.cid => e.at <= free[i].at + off
  BY DEF Entry, Fresh
<1>2. ASSUME NEW k \in Conn, SvcList!RecordNew(k) PROVE Fresh(e, off, lag, owner', free', size', now')
  <2>1. owner' = [owner EXCEPT ![size] = k] /\ size' = size + 1 /\ free' = free /\ now' = now
    BY <1>2 DEF SvcList!RecordNew
  <2> QED
    BY <1>1, <2>1, ListTypes DEF Fresh
<1>3. ASSUME NEW k \in Conn, SvcList!RecordReuse(k) PROVE Fresh(e, off, lag, owner', free', size', now')
  <2>1. /\ owner' = [owner EXCEPT ![Head(free).cid] = k] /\ size' = size /\ free' = Tail(free) /\ now' = now
        /\ free # <<>> /\ now - Head(free).at > EraseInterval
    BY <1>3 DEF SvcList!RecordReuse, SvcList!Reusable, SvcList!Cooled
  <2>2. Head(free) = free[1] /\ 1 \in DOMAIN free /\ free[1].at \in Nat /\ free[1].cid \in Cid
    BY <2>1, ListTypes
  <2>3. free[1].cid # e.cid
    <3>1. free[1].cid = e.cid => e.at <= free[1].at + off
      BY <1>1, <2>2
    <3> QED
      BY <1>1, <2>1, <2>2, <3>1, ListTypes, DropsAssumption, CoolingCoversDrops
  <2>4. owner'[e.cid] = owner[e.cid]
    BY <1>1, <2>1, <2>2, <2>3, ListTypes
  <2>5. \A i \in DOMAIN free' : i + 1 \in DOMAIN free /\ free'[i] = free[i + 1]
    BY <2>1, ListTypes
  <2> QED
    BY <1>1, <2>1, <2>4, <2>5 DEF Fresh
<1>4. ASSUME NEW c \in Cid, SvcList!Erase(c) PROVE Fresh(e, off, lag, owner', free', size', now')
  <2> DEFINE r == [cid |-> c, at |-> now]
  <2>1. /\ owner' = [owner EXCEPT ![c] = NoConn] /\ size' = size /\ free' = Append(free, r) /\ now' = now
    BY <1>4 DEF SvcList!Erase
  <2>2. r \in SvcList!Release /\ r.at = now
    BY ListTypes DEF SvcList!Release, Cid
  <2> HIDE DEF r
  <2>3. \A i \in DOMAIN free' : free'[i] = r \/ (i \in DOMAIN free /\ free'[i] = free[i])
    BY <2>1, <2>2, ListTypes
  <2>4. owner'[e.cid] \in {owner[e.cid], NoConn}
    BY <1>1, <2>1, ListTypes
  <2>5. ASSUME NEW i \in DOMAIN free', free'[i].cid = e.cid PROVE e.at <= free'[i].at + off
    <3>1. CASE free'[i] = r
      BY <1>1, <2>2, <3>1, ListTypes
    <3>2. CASE i \in DOMAIN free /\ free'[i] = free[i]
      BY <1>1, <2>5, <3>2
    <3> QED
      BY <2>3, <3>1, <3>2
  <2> QED
    BY <1>1, <2>1, <2>4, <2>5 DEF Fresh
<1>5. CASE UNCHANGED list_vars
  BY <1>5 DEF list_vars
<1> QED
  BY <1>2, <1>3, <1>4, <1>5 DEF ListStep

LEMMA QueueStays ==
    ASSUME ListInv, ListStep, NEW off \in Nat, NEW lag \in Nat, off + lag <= DropDelay + 4 * MaxLag,
           NEW q, FreshQueue(q, off, lag, owner, free, size, now)
    PROVE  FreshQueue(q, off, lag, owner', free', size', now')
<1>1. \A i \in DOMAIN q : q[i] \in Entry
  BY DEF FreshQueue
<1> QED
  BY <1>1, FreshStays DEF FreshQueue

LEMMA QueuesStay ==
    ASSUME IInv, ListStep
    PROVE  /\ FreshQueue(buffer_list, 0, MaxLag, owner', free', size', now')
           /\ FreshQueue(drop_info_list, MaxLag, DropDelay + MaxLag, owner', free', size', now')
           /\ FreshQueue(drop_list, DropDelay + 2 * MaxLag, MaxLag, owner', free', size', now')
           /\ FreshQueue(drop_cid_list, DropDelay + 3 * MaxLag, MaxLag, owner', free', size', now')
<1>1. ListInv
  BY DEF IInv
<1> QED
  BY <1>1, QueueStays, DropsAssumption DEF IInv, QueuesFresh

(* Time passes only while no entry is too old. *)
LEMMA QueueTicks ==
    ASSUME ListInv, SvcList!Tick, NEW off \in Nat, NEW lag \in Nat, NEW q,
           FreshQueue(q, off, lag, owner, free, size, now), InTime(q, lag)
    PROVE  FreshQueue(q, off, lag, owner', free', size', now')
<1>1. owner' = owner /\ free' = free /\ size' = size /\ now' = now + 1 /\ now \in Nat
  BY ListTypes DEF SvcList!Tick
<1>2. ASSUME NEW i \in DOMAIN q PROVE Fresh(q[i], off, lag, owner', free', size', now')
  <2>1. q \in Seq(Entry) /\ q # <<>> /\ q[1] = Head(q) /\ 1 \in DOMAIN q /\ (i = 1 \/ 1 < i)
    BY DEF FreshQueue
  <2>2. q[1] \in Entry /\ q[i] \in Entry
    BY <2>1
  <2>3. now - q[1].at < lag
    BY <2>1 DEF InTime
  <2>4. q[1].at \in Nat /\ q[i].at \in Nat
    BY <2>2 DEF Entry
  <2>5. q[1].at <= q[i].at
    BY <2>1, <2>4 DEF FreshQueue
  <2> QED
    BY <1>1, <2>3, <2>4, <2>5 DEF FreshQueue, Fresh
<1> QED
  BY <1>2 DEF FreshQueue

(* A new entry about a registered connection. *)
LEMMA EntryFresh ==
    ASSUME IInv, NEW k \in registered
    PROVE  /\ EntryFor(k) \in Entry /\ EntryFor(k).at = now
           /\ \A off, lag \in Nat : Fresh(EntryFor(k), off, lag, owner, free, size, now)
<1>1. PICK c \in Cid : owner[c] = k
  BY DEF IInv, Listed
<1>2. CidOf(k) \in Cid /\ owner[CidOf(k)] = k
  BY <1>1 DEF CidOf
<1>3. k \in Conn /\ k # NoConn /\ now \in Nat /\ CidOf(k) < size
  BY <1>2, ListTypes, DropsAssumption DEF IInv, Listed
<1>4. EntryFor(k) \in Entry /\ EntryFor(k).at = now /\ EntryFor(k).cid = CidOf(k)
  BY <1>2, <1>3 DEF EntryFor, Entry
<1>5. \A i \in DOMAIN free : free[i].cid # CidOf(k)
  BY <1>2, <1>3, ListTypes DEF IInv
<1>6. EntryFor(k).conn = k
  BY DEF EntryFor
<1> QED
  BY <1>2, <1>3, <1>4, <1>5, <1>6 DEF Fresh

(* An entry that goes on to the next queue. *)
LEMMA Passed ==
    ASSUME NEW off \in Nat, NEW lag \in Nat, NEW off2 \in Nat, NEW lag2 \in Nat, off2 = off + lag,
           NEW own, NEW fr, NEW n, NEW t \in Nat, \A i \in DOMAIN fr : fr[i].at \in Nat,
           NEW e \in Entry, Fresh(e, off, lag, own, fr, n, t)
    PROVE  /\ [e EXCEPT !.at = t] \in Entry /\ [e EXCEPT !.at = t].at = t
           /\ Fresh([e EXCEPT !.at = t], off2, lag2, own, fr, n, t)
<1>1. PICK d : d = [e EXCEPT !.at = t]
  OBVIOUS
<1>2. d \in Entry /\ d.at = t /\ d.cid = e.cid /\ d.conn = e.conn /\ e.at \in Nat
  BY <1>1 DEF Entry
<1>3. ASSUME NEW i \in DOMAIN fr, fr[i].cid = d.cid PROVE d.at <= fr[i].at + off2
  BY <1>2, <1>3 DEF Fresh
<1>4. Fresh(d, off2, lag2, own, fr, n, t)
  BY <1>2, <1>3 DEF Fresh
<1> QED
  BY <1>1, <1>2, <1>4

(* Closing connections queues their drops. *)
LEMMA Closes ==
    ASSUME IInv, NEW K \in SUBSET registered, HandleClose(K)
    PROVE  /\ FreshQueue(drop_list', DropDelay + 2 * MaxLag, MaxLag, owner, free, size, now)
           /\ \A k \in Conn : closed'[k] <=> closed[k] \/ k \in K
           /\ closed' \in [Conn -> BOOLEAN]
<1>1. Cardinality(K) \in Nat
  BY FS_Subset, FS_CardinalityType DEF IInv, Listed
<1>2. PICK m \in Nat : m = Cardinality(K)
  BY <1>1
<1>3. PICK order \in [1 .. m -> K] : drop_list' = drop_list \o [i \in DOMAIN order |-> EntryFor(order[i])]
  BY <1>2 DEF HandleClose
<1>4. PICK s : s = [i \in DOMAIN order |-> EntryFor(order[i])]
  OBVIOUS
<1>5. \A i \in 1 .. m : order[i] \in registered
  OBVIOUS
<1>6. ASSUME NEW i \in 1 .. m
      PROVE  /\ s[i] \in Entry /\ s[i].at = now
             /\ Fresh(s[i], DropDelay + 2 * MaxLag, MaxLag, owner, free, size, now)
  <2>1. s[i] = EntryFor(order[i]) /\ order[i] \in registered
    BY <1>4, <1>5
  <2>2. DropDelay + 2 * MaxLag \in Nat /\ MaxLag \in Nat
    BY DropsAssumption
  <2> QED
    BY <2>1, <2>2, EntryFresh
<1>7. s \in Seq(Entry) /\ DOMAIN s = 1 .. m
  BY <1>4, <1>6
<1>8. FreshQueue(drop_list, DropDelay + 2 * MaxLag, MaxLag, owner, free, size, now) /\ now \in Nat
  BY ListTypes DEF IInv, QueuesFresh
<1>9. FreshQueue(drop_list', DropDelay + 2 * MaxLag, MaxLag, owner, free, size, now)
  BY <1>3, <1>4, <1>6, <1>7, <1>8, FreshConcat
<1>10. /\ \A k \in Conn : closed'[k] <=> closed[k] \/ k \in K
       /\ closed' \in [Conn -> BOOLEAN]
  BY DEF HandleClose, IInv, Types
<1> QED
  BY <1>9, <1>10

-----------------------------------------------------------------------------
(* The actions. *)
LEMMA PeerShutsKeeps ==
    ASSUME IInv, NEW k \in Conn, PeerShuts(k)
    PROVE  IInv'
<1>1. UNCHANGED <<list_vars, v8_vars, net_vars, closed, alive, registered, last_input>>
  BY DEF PeerShuts
<1>2. ListInv'
  BY <1>1, ListKept DEF IInv, ListStep
<1> QED
  BY <1>1, <1>2 DEF IInv, Listed, QueuesFresh, Types, AliveBit, list_vars, v8_vars, net_vars

LEMMA AcceptSvcKeeps ==
    ASSUME IInv, NEW k \in Conn, AcceptSvc(k)
    PROVE  IInv'
<1>1. /\ SvcList!RecordNew(k) \/ SvcList!RecordReuse(k)
      /\ closed' = [closed EXCEPT ![k] = FALSE] /\ alive' = [alive EXCEPT ![k] = TRUE]
      /\ registered' = registered \cup {k} /\ last_input' = [last_input EXCEPT ![k] = now]
      /\ UNCHANGED <<v8_vars, net_vars>>
  BY DEF AcceptSvc
<1>2. ListStep
  BY <1>1 DEF ListStep
<1>3. ListInv' /\ now' = now /\ now \in Nat
  BY <1>1, <1>2, ListKept, ListTypes DEF IInv, SvcList!RecordNew, SvcList!RecordReuse
<1>4. Listed'
  <2>1. PICK c \in Cid : owner[c] = NoConn /\ owner' = [owner EXCEPT ![c] = k]
    <3>1. CASE SvcList!RecordNew(k)
      <4>1. size \in Cid /\ owner' = [owner EXCEPT ![size] = k] /\ size \in Nat
        BY <3>1, ListTypes DEF IInv, SvcList!RecordNew
      <4>2. owner[size] = NoConn
        BY <4>1, ListTypes DEF IInv
      <4> QED
        BY <4>1, <4>2
    <3>2. CASE SvcList!RecordReuse(k)
      BY <3>2, ListTypes DEF IInv, SvcList!RecordReuse, SvcList!Reusable
    <3> QED
      BY <1>1, <3>1, <3>2
  <2>2. owner \in [Cid -> Conn \cup {NoConn}] /\ NoConn \notin Conn
    BY ListTypes, DropsAssumption DEF IInv
  <2>3. IsFiniteSet(registered')
    BY <1>1, FS_AddElement DEF IInv, Listed
  <2>4. \A r \in registered : r \in Conn /\ \E b \in Cid : owner[b] = r
    BY DEF IInv, Listed
  <2>5. ASSUME NEW r \in registered' PROVE \E b \in Cid : owner'[b] = r
    <3>1. CASE r = k
      BY <2>1, <2>2, <3>1
    <3>2. CASE r \in registered
      BY <2>1, <2>2, <2>4, <3>2
    <3> QED
      BY <1>1, <3>1, <3>2
  <2> QED
    BY <1>1, <2>3, <2>4, <2>5 DEF Listed
<1>5. QueuesFresh'
  BY <1>1, <1>2, QueuesStay DEF QueuesFresh, v8_vars, net_vars
<1>6. Types'
  BY <1>1, <1>3 DEF IInv, Types, net_vars
<1>7. AliveBit'
  BY <1>1, <1>3, DropsAssumption DEF IInv, Types, Listed, AliveBit, net_vars
<1> QED
  BY <1>3, <1>4, <1>5, <1>6, <1>7 DEF IInv

LEMMA HandleInputKeeps ==
    ASSUME IInv, NEW k \in Conn, HandleInput(k)
    PROVE  IInv'
<1>1. /\ k \in registered /\ alive' = [alive EXCEPT ![k] = TRUE]
      /\ last_input' = [last_input EXCEPT ![k] = now]
      /\ buffer_list' = Append(buffer_list, EntryFor(k))
      /\ UNCHANGED <<list_vars, net_vars, closed, registered, drop_cid_list, drop_info_list>>
  BY DEF HandleInput
<1>2. ListInv' /\ now \in Nat
  BY <1>1, ListKept, ListTypes DEF IInv, ListStep
<1>3. FreshQueue(buffer_list', 0, MaxLag, owner, free, size, now)
  <2>1. FreshQueue(buffer_list, 0, MaxLag, owner, free, size, now) /\ 0 \in Nat /\ MaxLag \in Nat
    BY DropsAssumption DEF IInv, QueuesFresh
  <2> QED
    BY <1>1, <1>2, <2>1, EntryFresh, FreshAppend
<1>4. QueuesFresh'
  BY <1>1, <1>3 DEF IInv, QueuesFresh, list_vars, net_vars
<1>5. Types' /\ Listed'
  BY <1>1, <1>2 DEF IInv, Types, Listed, list_vars, net_vars
<1>6. AliveBit'
  BY <1>1, <1>2, DropsAssumption DEF IInv, Types, Listed, AliveBit, list_vars, net_vars
<1> QED
  BY <1>2, <1>4, <1>5, <1>6 DEF IInv

LEMMA ClosingKeeps ==
    ASSUME IInv, NEW k \in registered, HandleClose({k}), alive' \in {alive, [alive EXCEPT ![k] = TRUE]},
           UNCHANGED <<list_vars, v8_vars, registered, last_input, heartbeat_tv>>
    PROVE  IInv'
<1>1. /\ FreshQueue(drop_list', DropDelay + 2 * MaxLag, MaxLag, owner, free, size, now)
      /\ \A c \in Conn : closed'[c] <=> closed[c] \/ c = k
      /\ closed' \in [Conn -> BOOLEAN]
  BY Closes
<1>2. ListInv'
  BY ListKept DEF IInv, ListStep
<1>3. QueuesFresh'
  BY <1>1 DEF IInv, QueuesFresh, list_vars, v8_vars
<1>4. Types' /\ Listed'
  BY <1>1 DEF IInv, Types, Listed, list_vars
<1>5. AliveBit'
  BY <1>1 DEF IInv, Types, Listed, AliveBit, list_vars
<1> QED
  BY <1>2, <1>3, <1>4, <1>5 DEF IInv

LEMMA TimerFiresKeeps ==
    ASSUME IInv, TimerFires
    PROVE  IInv'
<1>1. UNCHANGED <<list_vars, v8_vars, svc_vars, heartbeat_tv, drop_list>>
  BY DEF TimerFires
<1>2. ListInv'
  BY <1>1, ListKept DEF IInv, ListStep
<1> QED
  BY <1>1, <1>2 DEF IInv, Listed, QueuesFresh, Types, AliveBit, list_vars, v8_vars, svc_vars

LEMMA ProcessDropKeeps ==
    ASSUME IInv, ProcessDrop
    PROVE  IInv'
<1>1. PICK d : d = Head(drop_list)
  OBVIOUS
<1>2. /\ drop_list # <<>> /\ drop_list' = Tail(drop_list)
      /\ drop_cid_list' = Append(drop_cid_list, [d EXCEPT !.at = now])
      /\ UNCHANGED <<buffer_list, drop_info_list, alive, last_input, heartbeat_tv>>
      /\ \/ owner[d.cid] = NoConn /\ UNCHANGED <<list_vars, closed, registered>>
         \/ /\ closed' = [closed EXCEPT ![owner[d.cid]] = TRUE]
            /\ registered' = registered \ {owner[d.cid]}
            /\ SvcList!Erase(d.cid)
  BY <1>1 DEF ProcessDrop
<1>3. d \in Entry
  BY <1>1, <1>2, FreshTail DEF IInv, QueuesFresh
<1>4. ListStep /\ now' = now /\ now \in Nat
  BY <1>2, <1>3, ListTypes DEF IInv, ListStep, Entry, list_vars, SvcList!Erase
<1>5. ListInv'
  BY <1>4, ListKept DEF IInv
<1>6. QueuesFresh'
  <2>1. FreshQueue(drop_list, DropDelay + 2 * MaxLag, MaxLag, owner', free', size', now')
    BY <1>4, QueuesStay
  <2>2. /\ FreshQueue(drop_list', DropDelay + 2 * MaxLag, MaxLag, owner', free', size', now')
        /\ Fresh(d, DropDelay + 2 * MaxLag, MaxLag, owner', free', size', now')
    BY <1>1, <1>2, <2>1, FreshTail
  <2>3. /\ DropDelay + 2 * MaxLag \in Nat /\ DropDelay + 3 * MaxLag \in Nat /\ MaxLag \in Nat
        /\ DropDelay + 3 * MaxLag = (DropDelay + 2 * MaxLag) + MaxLag
    BY DropsAssumption
  <2>4. \A i \in DOMAIN free' : free'[i].at \in Nat
    <3>1. free' \in Seq(SvcList!Release)
      BY <1>5 DEF ListInv, SvcList!TypeOK
    <3>2. \A i \in DOMAIN free' : free'[i] \in SvcList!Release
      BY <3>1
    <3> QED
      BY <3>2 DEF SvcList!Release
  <2>5. PICK e : e = [d EXCEPT !.at = now]
    OBVIOUS
  <2>6. /\ e \in Entry /\ e.at = now'
        /\ Fresh(e, DropDelay + 3 * MaxLag, MaxLag, owner', free', size', now')
    BY <1>3, <1>4, <2>2, <2>3, <2>4, <2>5, Passed
  <2>7. FreshQueue(drop_cid_list, DropDelay + 3 * MaxLag, MaxLag, owner', free', size', now')
    BY <1>4, QueuesStay
  <2>8. FreshQueue(drop_cid_list', DropDelay + 3 * MaxLag, MaxLag, owner', free', size', now')
    BY <1>2, <1>4, <2>5, <2>6, <2>7, FreshAppend
  <2> QED
    BY <1>2, <1>4, <2>2, <2>8, QueuesStay DEF QueuesFresh
<1>7. Types' /\ \A k \in registered' : k \in registered /\ (closed'[k] <=> closed[k])
  BY <1>2 DEF IInv, Types, Listed, list_vars
<1>8. Listed'
  <2>1. IsFiniteSet(registered')
    BY <1>2, FS_Subset DEF IInv, Listed
  <2>2. owner \in [Cid -> Conn \cup {NoConn}] /\ d.cid \in Cid
    BY <1>3, ListTypes DEF IInv, Entry
  <2>3. ASSUME NEW k \in registered' PROVE \E c \in Cid : owner'[c] = k
    BY <1>2, <2>2, <2>3 DEF IInv, Listed, list_vars, SvcList!Erase
  <2> QED
    BY <1>2, <2>1, <2>3 DEF IInv, Listed
<1>9. AliveBit'
  BY <1>2, <1>4, <1>7 DEF IInv, AliveBit
<1> QED
  BY <1>5, <1>6, <1>7, <1>8, <1>9 DEF IInv

LEMMA HeartbeatScanKeeps ==
    ASSUME IInv, HeartbeatScan
    PROVE  IInv'
<1>1. UNCHANGED <<list_vars, v8_vars, registered, last_input>>
  BY DEF HeartbeatScan
<1>2. ListInv' /\ now \in Nat
  BY <1>1, ListKept, ListTypes DEF IInv, ListStep
<1>3. CASE ~HeartbeatDue
  BY <1>1, <1>2, <1>3 DEF HeartbeatScan, IInv, Listed, QueuesFresh, Types, AliveBit, list_vars, v8_vars
<1>4. CASE HeartbeatDue
  <2>1. PICK K \in SUBSET registered : K = {k \in registered : ~closed[k] /\ ~alive[k]}
    OBVIOUS
  <2>2. /\ heartbeat_tv' = now + HeartbeatTimeout /\ HandleClose(K)
        /\ alive' = [k \in Conn |-> IF k \in registered /\ ~closed[k] THEN FALSE ELSE alive[k]]
    BY <1>4, <2>1 DEF HeartbeatScan
  <2>3. /\ FreshQueue(drop_list', DropDelay + 2 * MaxLag, MaxLag, owner, free, size, now)
        /\ \A k \in Conn : closed'[k] <=> closed[k] \/ k \in K
        /\ closed' \in [Conn -> BOOLEAN]
    BY <2>2, Closes
  <2>4. QueuesFresh'
    BY <1>1, <2>3 DEF IInv, QueuesFresh, list_vars, v8_vars
  <2>5. Types' /\ Listed'
    <3>1. alive \in [Conn -> BOOLEAN]
      BY DEF IInv, Types
    <3>2. alive' \in [Conn -> BOOLEAN]
      BY <2>2, <3>1
    <3>3. heartbeat_tv' \in Nat
      BY <1>2, <2>2, DropsAssumption
    <3> QED
      BY <1>1, <2>3, <3>2, <3>3 DEF IInv, Types, Listed, list_vars
  <2>6. \A k \in registered : ~closed'[k] => ~closed[k] /\ alive[k] /\ ~alive'[k]
    BY <2>1, <2>2, <2>3 DEF IInv, Listed
  <2>7. AliveBit'
    <3>1. /\ now' = now /\ registered' = registered /\ last_input' = last_input
          /\ heartbeat_tv' = now + HeartbeatTimeout /\ now \in Nat /\ HeartbeatTimeout \in Nat
          /\ MaxLag \in Nat /\ heartbeat_tv \in Nat
      BY <1>1, <1>2, <2>2, DropsAssumption DEF list_vars, IInv, Types
    <3>2. /\ heartbeat_tv <= now /\ HeartbeatTimeout > 0 /\ now <= heartbeat_tv + MaxLag
      BY <1>4 DEF HeartbeatDue, IInv, AliveBit
    <3>3. ASSUME NEW k \in registered'
          PROVE  /\ last_input'[k] <= now'
                 /\ ~closed'[k] => ~alive'[k]
                 /\ ~closed'[k] => last_input'[k] + HeartbeatTimeout <= heartbeat_tv'
                 /\ ~closed'[k] => heartbeat_tv' <= last_input'[k] + 2 * HeartbeatTimeout + MaxLag
      <4>1. k \in registered /\ last_input[k] \in Nat /\ last_input[k] <= now
        BY <3>1, <3>3 DEF IInv, Types, Listed, AliveBit
      <4>2. ~closed'[k] => ~alive'[k] /\ heartbeat_tv <= last_input[k] + HeartbeatTimeout
        BY <2>6, <4>1 DEF IInv, AliveBit
      <4> QED
        BY <3>1, <3>2, <4>1, <4>2
    <3> QED
      BY <3>1, <3>2, <3>3 DEF AliveBit
  <2> QED
    BY <1>2, <2>4, <2>5, <2>7 DEF IInv
<1> QED
  BY <1>3, <1>4

(* The V8 thread leaves the connections alone. *)
LEMMA V8Keeps ==
    ASSUME IInv, QueuesFresh', UNCHANGED <<list_vars, svc_vars, heartbeat_tv>>
    PROVE  IInv'
<1>1. ListInv'
  BY ListKept DEF IInv, ListStep
<1> QED
  BY <1>1 DEF IInv, Listed, Types, AliveBit, list_vars, svc_vars

LEMMA ProcessDropCidKeeps ==
    ASSUME IInv, ProcessDropCid
    PROVE  IInv'
<1>1. /\ drop_cid_list # <<>> /\ drop_cid_list' = Tail(drop_cid_list)
      /\ UNCHANGED <<list_vars, svc_vars, net_vars, buffer_list, drop_info_list>>
  BY DEF ProcessDropCid
<1>2. QueuesFresh'
  BY <1>1, FreshTail DEF IInv, QueuesFresh, list_vars, net_vars
<1> QED
  BY <1>1, <1>2, V8Keeps DEF net_vars

LEMMA FreeTimes ==
    ASSUME IInv
    PROVE  now \in Nat /\ \A i \in DOMAIN free : free[i].at \in Nat
BY ListTypes DEF IInv

LEMMA ProcessBufferKeeps ==
    ASSUME IInv, ProcessBuffer
    PROVE  IInv'
<1>1. PICK d : d = Head(buffer_list)
  OBVIOUS
<1>2. PICK e : e = [d EXCEPT !.at = now]
  OBVIOUS
<1>3. /\ buffer_list # <<>> /\ buffer_list' = Tail(buffer_list)
      /\ UNCHANGED drop_info_list \/ drop_info_list' = Append(drop_info_list, e)
      /\ UNCHANGED <<list_vars, svc_vars, net_vars, drop_cid_list>>
  BY <1>1, <1>2 DEF ProcessBuffer
<1>4. /\ FreshQueue(buffer_list', 0, MaxLag, owner, free, size, now)
      /\ d \in Entry /\ Fresh(d, 0, MaxLag, owner, free, size, now)
  BY <1>1, <1>3, FreshTail DEF IInv, QueuesFresh
<1>5. 0 \in Nat /\ MaxLag \in Nat /\ DropDelay + MaxLag \in Nat /\ MaxLag = 0 + MaxLag
  BY DropsAssumption
<1>6. e \in Entry /\ e.at = now /\ Fresh(e, MaxLag, DropDelay + MaxLag, owner, free, size, now)
  BY <1>2, <1>4, <1>5, FreeTimes, Passed
<1>7. FreshQueue(drop_info_list', MaxLag, DropDelay + MaxLag, owner, free, size, now)
  <2>1. FreshQueue(drop_info_list, MaxLag, DropDelay + MaxLag, owner, free, size, now)
    BY DEF IInv, QueuesFresh
  <2> QED
    BY <1>3, <1>6, <2>1, FreeTimes, FreshAppend
<1>8. QueuesFresh'
  BY <1>3, <1>4, <1>7 DEF IInv, QueuesFresh, list_vars, net_vars
<1> QED
  BY <1>3, <1>8, V8Keeps DEF net_vars

LEMMA DropInfoTickKeeps ==
    ASSUME IInv, DropInfoTick
    PROVE  IInv'
<1>1. PICK d : d = Head(drop_info_list)
  OBVIOUS
<1>2. PICK e : e = [d EXCEPT !.at = now]
  OBVIOUS
<1>3. /\ drop_info_list # <<>> /\ drop_info_list' = Tail(drop_info_list)
      /\ drop_list' = Append(drop_list, e)
      /\ UNCHANGED <<list_vars, svc_vars, heartbeat_tv, drop_cid_list, buffer_list>>
  BY <1>1, <1>2 DEF DropInfoTick
<1>4. /\ FreshQueue(drop_info_list', MaxLag, DropDelay + MaxLag, owner, free, size, now)
      /\ d \in Entry /\ Fresh(d, MaxLag, DropDelay + MaxLag, owner, free, size, now)
  BY <1>1, <1>3, FreshTail DEF IInv, QueuesFresh
<1>5. /\ MaxLag \in Nat /\ DropDelay + MaxLag \in Nat /\ DropDelay + 2 * MaxLag \in Nat
      /\ DropDelay + 2 * MaxLag = MaxLag + (DropDelay + MaxLag)
  BY DropsAssumption
<1>6. e \in Entry /\ e.at = now /\ Fresh(e, DropDelay + 2 * MaxLag, MaxLag, owner, free, size, now)
  BY <1>2, <1>4, <1>5, FreeTimes, Passed
<1>7. FreshQueue(drop_list', DropDelay + 2 * MaxLag, MaxLag, owner, free, size, now)
  <2>1. FreshQueue(drop_list, DropDelay + 2 * MaxLag, MaxLag, owner, free, size, now)
    BY DEF IInv, QueuesFresh
  <2> QED
    BY <1>3, <1>6, <2>1, FreeTimes, FreshAppend
<1>8. QueuesFresh'
  BY <1>3, <1>4, <1>7 DEF IInv, QueuesFresh, list_vars
<1> QED
  BY <1>3, <1>8, V8Keeps

LEMMA TickKeeps ==
    ASSUME IInv, Tick
    PROVE  IInv'
<1>1. /\ InTime(drop_list, MaxLag) /\ InTime(drop_cid_list, MaxLag) /\ InTime(buffer_list, MaxLag)
      /\ InTime(drop_info_list, DropDelay + MaxLag)
      /\ HeartbeatTimeout > 0 => now < heartbeat_tv + MaxLag
      /\ SvcList!Tick /\ UNCHANGED <<v8_vars, svc_vars, net_vars>>
  BY DEF Tick
<1>2. ListInv' /\ ListInv /\ now \in Nat /\ now' = now + 1 /\ owner' = owner
  BY <1>1, ListKept, ListTypes DEF IInv, SvcList!Tick
<1>3. /\ 0 \in Nat /\ MaxLag \in Nat /\ DropDelay + MaxLag \in Nat
      /\ DropDelay + 2 * MaxLag \in Nat /\ DropDelay + 3 * MaxLag \in Nat
  BY DropsAssumption
<1>4. /\ FreshQueue(buffer_list, 0, MaxLag, owner', free', size', now')
      /\ FreshQueue(drop_info_list, MaxLag, DropDelay + MaxLag, owner', free', size', now')
      /\ FreshQueue(drop_list, DropDelay + 2 * MaxLag, MaxLag, owner', free', size', now')
      /\ FreshQueue(drop_cid_list, DropDelay + 3 * MaxLag, MaxLag, owner', free', size', now')
  BY <1>1, <1>2, <1>3, QueueTicks DEF IInv, QueuesFresh
<1>5. QueuesFresh'
  BY <1>1, <1>4 DEF QueuesFresh, v8_vars, net_vars
<1>6. Types' /\ Listed'
  BY <1>1, <1>2 DEF IInv, Types, Listed, svc_vars, net_vars
<1>7. AliveBit'
  BY <1>1, <1>2, DropsAssumption DEF IInv, Types, Listed, AliveBit, svc_vars, net_vars
<1> QED
  BY <1>2, <1>5, <1>6, <1>7 DEF IInv

-----------------------------------------------------------------------------
LEMMA InitInv == Init => IInv
<1> SUFFICES ASSUME Init PROVE IInv
  OBVIOUS
<1>1. owner = [c \in Cid |-> NoConn] /\ free = <<>> /\ size = 2 /\ now = 0
  BY DEF Init, SvcList!Init, Cid
<1>2. SvcList!TypeOK
  BY <1>1, DropsAssumption DEF SvcList!TypeOK, Cid
<1>3. ListProofs!Accounted
  BY <1>1 DEF ListProofs!Accounted, ListProofs!CidsOf, ListProofs!NoCidTwice, ListProofs!InUse,
              ListProofs!Cid, Cid, SvcList!Cid
<1>4. Listed
  BY FS_EmptySet DEF Init, Listed
<1>5. QueuesFresh
  BY DEF Init, QueuesFresh, FreshQueue
<1>6. Types /\ AliveBit
  BY <1>1, DropsAssumption DEF Init, Types, AliveBit
<1> QED
  BY <1>2, <1>3, <1>4, <1>5, <1>6 DEF IInv, ListInv

LEMMA NextInv == IInv /\ [Next]_vars => IInv'
<1> SUFFICES ASSUME IInv, [Next]_vars PROVE IInv'
  OBVIOUS
<1>1. ASSUME NEW k \in Conn, PeerShuts(k) \/ AcceptSvc(k) \/ HandleInput(k) PROVE IInv'
  BY <1>1, PeerShutsKeeps, AcceptSvcKeeps, HandleInputKeeps
<1>2. ASSUME NEW k \in Conn, HandleEof(k) \/ SendListFull(k) PROVE IInv'
  <2>1. k \in registered /\ HandleClose({k}) /\ alive' \in {alive, [alive EXCEPT ![k] = TRUE]}
    BY <1>2 DEF HandleEof, SendListFull
  <2>2. UNCHANGED <<list_vars, v8_vars, registered, last_input, heartbeat_tv>>
    BY <1>2 DEF HandleEof, SendListFull
  <2> QED
    BY <2>1, <2>2, ClosingKeeps
<1>3. CASE TimerFires \/ ProcessDrop \/ HeartbeatScan
  BY <1>3, TimerFiresKeeps, ProcessDropKeeps, HeartbeatScanKeeps
<1>4. CASE ProcessDropCid \/ ProcessBuffer \/ DropInfoTick
  BY <1>4, ProcessDropCidKeeps, ProcessBufferKeeps, DropInfoTickKeeps
<1>5. CASE Tick
  BY <1>5, TickKeeps
<1>6. CASE UNCHANGED vars
  <2>1. QueuesFresh'
    BY <1>6 DEF IInv, QueuesFresh, vars, list_vars, v8_vars, net_vars
  <2> QED
    BY <1>6, <2>1, V8Keeps DEF vars, net_vars
<1> QED
  BY <1>1, <1>2, <1>3, <1>4, <1>5, <1>6 DEF Next

LEMMA InvHolds == Spec => []IInv
BY InitInv, NextInv, PTL DEF Spec

(***************************************************************************)
(* A cid that waits in any queue never comes to mean another client: for   *)
(* any number of connections, any table and any delays that the cooling    *)
(* time covers (process_drop, process_drop_cid, drop_info_tick).           *)
(***************************************************************************)
THEOREM QueuedCidsStayTrue == Spec => []QueuedCidsNeverStale
<1>1. IInv => QueuedCidsNeverStale
  <2> SUFFICES ASSUME IInv,
                      NEW e \in EntriesOf(drop_list) \cup EntriesOf(drop_cid_list)
                                 \cup EntriesOf(buffer_list) \cup EntriesOf(drop_info_list)
               PROVE  owner[e.cid] \in {e.conn, NoConn}
    BY DEF QueuedCidsNeverStale
  <2>1. ASSUME NEW q, NEW off, NEW lag, FreshQueue(q, off, lag, owner, free, size, now), e \in EntriesOf(q)
        PROVE  owner[e.cid] \in {e.conn, NoConn}
    BY <2>1 DEF EntriesOf, FreshQueue, Fresh
  <2> QED
    BY <2>1 DEF IInv, QueuesFresh
<1> QED
  BY <1>1, InvHolds, PTL

(***************************************************************************)
(* The heartbeat closes only connections that were silent for a period,    *)
(* whatever came and went since it marked them (handle_timeout).           *)
(***************************************************************************)
THEOREM OnlySilentClosed == Spec => HeartbeatClosesOnlySilent
<1>1. ASSUME IInv, [Next]_vars, NEW k \in Conn, net = "timer", net' = "loop", ~closed[k], closed'[k]
      PROVE  now - last_input[k] >= HeartbeatTimeout
  <2>1. HeartbeatScan
    BY <1>1 DEF Next, vars, net_vars, PeerShuts, AcceptSvc, HandleInput, HandleEof, SendListFull,
                TimerFires, ProcessDrop, ProcessDropCid, ProcessBuffer, DropInfoTick, Tick
  <2>2. HeartbeatDue
    BY <1>1, <2>1 DEF HeartbeatScan
  <2>3. PICK K \in SUBSET registered : K = {c \in registered : ~closed[c] /\ ~alive[c]}
    OBVIOUS
  <2>4. HandleClose(K)
    BY <2>1, <2>2, <2>3 DEF HeartbeatScan
  <2>5. k \in registered /\ ~alive[k]
    BY <1>1, <2>3, <2>4, Closes
  <2>6. last_input[k] + HeartbeatTimeout <= heartbeat_tv /\ heartbeat_tv <= now
    BY <1>1, <2>2, <2>5 DEF IInv, AliveBit, HeartbeatDue
  <2> QED
    BY <1>1, <2>6, ListTypes, DropsAssumption DEF IInv, Types
<1>2. IInv /\ [Next]_vars =>
        [\A k \in Conn : (net = "timer" /\ net' = "loop" /\ ~closed[k] /\ closed'[k])
            => now - last_input[k] >= HeartbeatTimeout]_vars
  BY <1>1
<1> QED
  BY <1>2, InvHolds, PTL DEF Spec, HeartbeatClosesOnlySilent

(***************************************************************************)
(* No client stays silent for longer than two periods and the delays of    *)
(* the thread that notices: one bit suffices (handle_timeout).             *)
(***************************************************************************)
THEOREM SilentNeverKept == Spec => []SilentClosedInTime
<1>1. IInv => SilentClosedInTime
  <2> SUFFICES ASSUME IInv, HeartbeatTimeout > 0, NEW k \in registered, ~closed[k]
               PROVE  now - last_input[k] <= 2 * (HeartbeatTimeout + MaxLag)
    BY DEF SilentClosedInTime
  <2>1. /\ now <= heartbeat_tv + MaxLag
        /\ heartbeat_tv <= last_input[k] + 2 * HeartbeatTimeout + MaxLag
    BY DEF IInv, AliveBit
  <2>2. now \in Nat /\ last_input[k] \in Nat /\ heartbeat_tv \in Nat
    BY ListTypes DEF IInv, Types, Listed
  <2> QED
    BY <2>1, <2>2, DropsAssumption
<1> QED
  BY <1>1, InvHolds, PTL
=============================================================================
