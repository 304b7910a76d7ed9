------------------------- MODULE CidAllocatorProofs -------------------------
(***************************************************************************)
(* Proofs about the cid allocator, for every set of connections, cooling   *)
(* time, table bound and clock bound.                                      *)
(***************************************************************************)
EXTENDS CidAllocator, SequenceTheorems, TLAPS

(***************************************************************************)
(* Appending to and removing from the free queue, index by index.          *)
(***************************************************************************)
LEMMA FreeAppend ==
    ASSUME NEW s \in Seq(Release), NEW r \in Release
    PROVE  /\ Append(s, r) \in Seq(Release)
           /\ Len(Append(s, r)) = Len(s) + 1
           /\ \A i \in 1 .. Len(s) : Append(s, r)[i] = s[i]
           /\ Append(s, r)[Len(s) + 1] = r
  BY AppendProperties

LEMMA FreeTail ==
    ASSUME NEW s \in Seq(Release), s # <<>>
    PROVE  /\ Len(s) \in Nat \ {0}
           /\ Head(s) = s[1]
           /\ Head(s) \in Release
           /\ Tail(s) \in Seq(Release)
           /\ Len(Tail(s)) = Len(s) - 1
           /\ \A i \in 1 .. Len(Tail(s)) : Tail(s)[i] = s[i + 1]
<1>1. Len(s) \in Nat \ {0}
  BY EmptySeq
<1>2. Head(s) = s[1]
  BY <1>1
<1> QED
  BY <1>1, <1>2, HeadTailProperties

LEMMA FreeElement ==
    ASSUME NEW s \in Seq(Release), NEW i \in 1 .. Len(s)
    PROVE  s[i] \in Release /\ s[i].cid \in Cid /\ s[i].at \in Nat
<1>1. s[i] \in Release
  BY ElementOfSeq
<1> QED
  BY <1>1 DEF Release

(* Every operation keeps the types. *)
LEMMA TypeKept == TypeOK /\ [Next]_vars => TypeOK'
<1> SUFFICES ASSUME TypeOK, [Next]_vars
             PROVE  TypeOK'
  OBVIOUS
<1> USE AllocatorAssumption DEF TypeOK, Cid
<1>1. ASSUME NEW p \in Svc, RecordNew(p)
      PROVE  TypeOK'
  BY <1>1 DEF RecordNew
<1>2. ASSUME NEW p \in Svc, RecordReuse(p)
      PROVE  TypeOK'
  BY <1>2, FreeTail, Head(free).cid \in Cid DEF RecordReuse, Reusable, Release
<1>3. ASSUME NEW c \in Cid, Erase(c)
      PROVE  TypeOK'
  <2>1. [cid |-> c, at |-> now] \in Release
    BY DEF Release
  <2> QED
    BY <1>3, <2>1, FreeAppend DEF Erase
<1>4. CASE Tick
  BY <1>4 DEF Tick
<1>5. CASE UNCHANGED vars
  BY <1>5 DEF vars
<1> QED
  BY <1>1, <1>2, <1>3, <1>4, <1>5 DEF Next

(***************************************************************************)
(* Type correctness of the allocator: a cid handed out is an index of the  *)
(* table and only real connections are recorded (record_svc, erase_svc).   *)
(***************************************************************************)
THEOREM TypeCorrect == Spec => []TypeOK
<1>1. Init => TypeOK
  BY AllocatorAssumption DEF Init, TypeOK
<1>2. TypeOK /\ [Next]_vars => TypeOK'
  BY TypeKept
<1> QED
  BY <1>1, <1>2, PTL DEF Spec

(***************************************************************************)
(* The free queue stays ordered by release time, for any number of         *)
(* connections: erase_svc stamps with the present time and links at the    *)
(* tail, record_svc takes from the head.                                   *)
(***************************************************************************)
THEOREM FreeQueueOrdered == Spec => []OldestFirst
<1>1. Init => OldestFirst
  BY DEF Init, OldestFirst
<1>2. TypeOK /\ OldestFirst /\ [Next]_vars => OldestFirst'
  <2> SUFFICES ASSUME TypeOK, OldestFirst, [Next]_vars
               PROVE  OldestFirst'
    OBVIOUS
  <2>0. free \in Seq(Release) /\ now \in Nat
    BY DEF TypeOK
  <2>1. ASSUME NEW p \in Svc, RecordNew(p)
        PROVE  OldestFirst'
    BY <2>1 DEF RecordNew, OldestFirst
  <2>2. ASSUME NEW p \in Svc, RecordReuse(p)
        PROVE  OldestFirst'
    <3>1. free # <<>> /\ free' = Tail(free) /\ now' = now
      BY <2>2 DEF RecordReuse, Reusable
    <3> QED
      BY <2>0, <3>1, FreeTail, FreeElement DEF OldestFirst
  <2>3. ASSUME NEW c \in Cid, Erase(c)
        PROVE  OldestFirst'
    <3> DEFINE r == [cid |-> c, at |-> now]
    <3>1. r \in Release /\ r.at = now
      BY <2>0 DEF Release
    <3>2. free' = Append(free, r) /\ now' = now
      BY <2>3 DEF Erase
    <3>3. \A i \in 1 .. Len(free') :
             \/ i \in 1 .. Len(free) /\ free'[i] = free[i]
             \/ i = Len(free) + 1 /\ free'[i] = r
      BY <2>0, <3>1, <3>2, FreeAppend
    <3>4. \A i \in 1 .. Len(free) : free[i].at \in Nat /\ free[i].at <= now
      BY <2>0, FreeElement DEF OldestFirst
    <3> HIDE DEF r
    <3>5. ASSUME NEW i \in 1 .. Len(free')
          PROVE  free'[i].at \in Nat /\ free'[i].at <= now'
      BY <2>0, <3>1, <3>2, <3>3, <3>4
    <3>6. ASSUME NEW i \in 1 .. Len(free'), NEW j \in 1 .. Len(free'), i <= j
          PROVE  free'[i].at <= free'[j].at
      <4>1. Len(free) \in Nat
        BY <2>0
      <4>2. CASE j = Len(free) + 1
        BY <2>0, <3>1, <3>2, <3>3, <3>5, <4>2
      <4>3. CASE i \in 1 .. Len(free) /\ j \in 1 .. Len(free)
        BY <3>3, <3>6, <4>3 DEF OldestFirst
      <4> QED
        BY <3>3, <3>6, <4>1, <4>2, <4>3
    <3> QED
      BY <3>5, <3>6 DEF OldestFirst
  <2>4. CASE Tick
    <3>1. free' = free /\ now' = now + 1
      BY <2>4 DEF Tick
    <3>2. \A i \in 1 .. Len(free) : free[i].at \in Nat /\ free[i].at <= now
      BY <2>0, FreeElement DEF OldestFirst
    <3>3. \A i \in 1 .. Len(free') : free'[i].at <= now'
      BY <2>0, <3>1, <3>2
    <3> QED
      BY <3>1, <3>3 DEF OldestFirst
  <2>5. CASE UNCHANGED vars
    BY <2>5 DEF vars, OldestFirst
  <2> QED
    BY <2>1, <2>2, <2>3, <2>4, <2>5 DEF Next
<1> QED
  BY <1>1, <1>2, TypeCorrect, PTL DEF Spec

(***************************************************************************)
(* record_svc grows the table only while no released cid at all has cooled *)
(* down, although it looks at the first one only: the queue is ordered.    *)
(***************************************************************************)
THEOREM TableGrowsOnlyWhenHot == Spec => GrowsOnlyWhenHot
<1>1. ASSUME TypeOK, OldestFirst, [Next]_vars, size' # size,
             NEW i \in 1 .. Len(free)
      PROVE  now - free[i].at <= EraseInterval
  <2>1. PICK p \in Svc : RecordNew(p)
    BY <1>1 DEF Next, vars, RecordReuse, Erase, Tick
  <2>2. free # <<>> /\ Head(free) = free[1] /\ 1 \in 1 .. Len(free)
    BY <1>1, FreeTail DEF TypeOK
  <2>3. ~(now - free[1].at > EraseInterval)
    BY <2>1, <2>2 DEF RecordNew, Reusable, Cooled
  <2>4. free[1].at <= free[i].at
    BY <1>1, <2>2 DEF OldestFirst
  <2>5. now \in Nat /\ free[1].at \in Nat /\ free[i].at \in Nat
    BY <1>1, <2>2, FreeElement DEF TypeOK
  <2> QED
    BY <2>3, <2>4, <2>5, AllocatorAssumption
<1>2. TypeOK /\ OldestFirst /\ [Next]_vars
        => [size' # size =>
              \A i \in 1 .. Len(free) : now - free[i].at <= EraseInterval]_vars
  BY <1>1
<1> QED
  BY <1>2, TypeCorrect, FreeQueueOrdered, PTL DEF Spec, GrowsOnlyWhenHot

(***************************************************************************)
(* The cids of a queue, and what the two queue operations do to them.      *)
(***************************************************************************)
CidsOf(s) == {s[i].cid : i \in 1 .. Len(s)}

NoCidTwice(s) == \A i, j \in 1 .. Len(s) : s[i].cid = s[j].cid => i = j

LEMMA CidsOfTail ==
    ASSUME NEW s \in Seq(Release), s # <<>>, NoCidTwice(s)
    PROVE  /\ CidsOf(Tail(s)) = CidsOf(s) \ {Head(s).cid}
           /\ NoCidTwice(Tail(s))
<1>1. /\ Len(s) \in Nat \ {0} /\ Head(s) = s[1] /\ Len(Tail(s)) = Len(s) - 1
      /\ \A i \in 1 .. Len(Tail(s)) : Tail(s)[i] = s[i + 1]
  BY FreeTail
<1>2. ASSUME NEW c \in CidsOf(Tail(s))
      PROVE  c \in CidsOf(s) \ {Head(s).cid}
  <2>1. PICK i \in 1 .. Len(Tail(s)) : c = Tail(s)[i].cid
    BY <1>2 DEF CidsOf
  <2>2. i + 1 \in 1 .. Len(s) /\ 1 \in 1 .. Len(s) /\ i + 1 # 1
    BY <1>1
  <2>3. c = s[i + 1].cid
    BY <1>1, <2>1
  <2>4. c \in CidsOf(s)
    BY <2>2, <2>3 DEF CidsOf
  <2>5. c # s[1].cid
    BY <2>2, <2>3 DEF NoCidTwice
  <2> QED
    BY <1>1, <2>4, <2>5
<1>3. ASSUME NEW c \in CidsOf(s), c # Head(s).cid
      PROVE  c \in CidsOf(Tail(s))
  <2>1. PICK i \in 1 .. Len(s) : c = s[i].cid
    BY <1>3 DEF CidsOf
  <2>2. i # 1
    BY <1>1, <1>3, <2>1
  <2>3. i - 1 \in 1 .. Len(Tail(s)) /\ (i - 1) + 1 = i
    BY <1>1, <2>2
  <2>4. Tail(s)[i - 1] = s[i]
    BY <1>1, <2>3
  <2> QED
    BY <2>1, <2>3, <2>4 DEF CidsOf
<1>4. NoCidTwice(Tail(s))
  <2> SUFFICES ASSUME NEW i \in 1 .. Len(Tail(s)), NEW j \in 1 .. Len(Tail(s)),
                      Tail(s)[i].cid = Tail(s)[j].cid
               PROVE  i = j
    BY DEF NoCidTwice
  <2>1. i + 1 \in 1 .. Len(s) /\ j + 1 \in 1 .. Len(s)
    BY <1>1
  <2>2. s[i + 1].cid = s[j + 1].cid
    BY <1>1
  <2>3. i + 1 = j + 1
    BY <2>1, <2>2 DEF NoCidTwice
  <2> QED
    BY <2>3
<1> QED
  BY <1>2, <1>3, <1>4

LEMMA CidsOfAppend ==
    ASSUME NEW s \in Seq(Release), NEW r \in Release, NoCidTwice(s),
           r.cid \notin CidsOf(s)
    PROVE  /\ CidsOf(Append(s, r)) = CidsOf(s) \cup {r.cid}
           /\ NoCidTwice(Append(s, r))
<1> DEFINE t == Append(s, r)
<1>1. /\ Len(s) \in Nat /\ Len(t) = Len(s) + 1 /\ t[Len(s) + 1] = r
      /\ \A i \in 1 .. Len(s) : t[i] = s[i]
  BY FreeAppend, LenProperties
<1> HIDE DEF t
<1>2. \A i \in 1 .. Len(t) : i \in 1 .. Len(s) \/ i = Len(s) + 1
  BY <1>1
<1>3. CidsOf(t) = CidsOf(s) \cup {r.cid}
  <2>1. ASSUME NEW c \in CidsOf(t)
        PROVE  c \in CidsOf(s) \cup {r.cid}
    <3>1. PICK i \in 1 .. Len(t) : c = t[i].cid
      BY <2>1 DEF CidsOf
    <3>2. CASE i \in 1 .. Len(s)
      BY <1>1, <3>1, <3>2 DEF CidsOf
    <3>3. CASE i = Len(s) + 1
      BY <1>1, <3>1, <3>3
    <3> QED
      BY <1>2, <3>2, <3>3
  <2>2. ASSUME NEW c \in CidsOf(s)
        PROVE  c \in CidsOf(t)
    <3>1. PICK i \in 1 .. Len(s) : c = s[i].cid
      BY <2>2 DEF CidsOf
    <3>2. i \in 1 .. Len(t) /\ t[i] = s[i]
      BY <1>1
    <3> QED
      BY <3>1, <3>2 DEF CidsOf
  <2>3. r.cid \in CidsOf(t)
    <3>1. Len(s) + 1 \in 1 .. Len(t)
      BY <1>1
    <3> QED
      BY <1>1, <3>1 DEF CidsOf
  <2> QED
    BY <2>1, <2>2, <2>3
<1>4. ASSUME NEW i \in 1 .. Len(t), NEW j \in 1 .. Len(t), t[i].cid = t[j].cid
      PROVE  i = j
  <2>1. CASE i \in 1 .. Len(s) /\ j \in 1 .. Len(s)
    BY <1>1, <1>4, <2>1 DEF NoCidTwice
  <2>2. CASE i \in 1 .. Len(s) /\ j = Len(s) + 1
    BY <1>1, <1>4, <2>2 DEF CidsOf
  <2>3. CASE i = Len(s) + 1 /\ j \in 1 .. Len(s)
    BY <1>1, <1>4, <2>3 DEF CidsOf
  <2> QED
    BY <1>2, <2>1, <2>2, <2>3
<1> QED
  BY <1>3, <1>4 DEF NoCidTwice, t

Accounted ==
    /\ \A c \in Cid : c < size => (InUse(c) <=> c \notin CidsOf(free))
    /\ \A c \in Cid : c >= size => ~InUse(c) /\ c \notin CidsOf(free)
    /\ NoCidTwice(free)

LEMMA AccountedDef == CidsAccountedFor <=> Accounted
BY DEF CidsAccountedFor, Accounted, CidsOf, FreeCids, NoCidTwice

(* Every operation keeps each cid in use or free, and free once. *)
LEMMA AccountedKept == TypeOK /\ Accounted /\ [Next]_vars => Accounted'
<1> SUFFICES ASSUME TypeOK, Accounted, [Next]_vars
             PROVE  Accounted'
  OBVIOUS
<1>0. /\ free \in Seq(Release) /\ owner \in [Cid -> Svc \cup {NoSvc}]
      /\ size \in 2 .. MaxSize /\ \A c \in Cid : c \in Int
  BY DEF TypeOK, Cid
<1>1. ASSUME NEW p \in Svc, RecordNew(p)
      PROVE  Accounted'
  <2>1. /\ free' = free /\ size' = size + 1 /\ size \in Cid
        /\ owner' = [owner EXCEPT ![size] = p] /\ p # NoSvc
    BY <1>0, <1>1, AllocatorAssumption DEF RecordNew, Cid
  <2> QED
    BY <1>0, <2>1 DEF InUse, Accounted
<1>2. ASSUME NEW p \in Svc, RecordReuse(p)
      PROVE  Accounted'
  <2> DEFINE c0 == Head(free).cid
  <2>1. /\ free # <<>> /\ free' = Tail(free) /\ size' = size
        /\ owner' = [owner EXCEPT ![c0] = p] /\ p # NoSvc
    BY <1>2, AllocatorAssumption DEF RecordReuse, Reusable
  <2>2. c0 \in Cid /\ c0 \in CidsOf(free)
    BY <1>0, <2>1, FreeTail, FreeElement DEF CidsOf
  <2>3. CidsOf(free') = CidsOf(free) \ {c0} /\ NoCidTwice(free')
    BY <1>0, <2>1, CidsOfTail DEF Accounted
  <2> HIDE DEF c0
  <2> QED
    BY <1>0, <2>1, <2>2, <2>3 DEF InUse, Accounted
<1>3. ASSUME NEW c \in Cid, Erase(c)
      PROVE  Accounted'
  <2> DEFINE r == [cid |-> c, at |-> now]
  <2>1. r \in Release /\ r.cid = c
    BY DEF Release, TypeOK
  <2>2. /\ InUse(c) /\ free' = Append(free, r) /\ size' = size
        /\ owner' = [owner EXCEPT ![c] = NoSvc]
    BY <1>3 DEF Erase, InUse
  <2>3. c \notin CidsOf(free) /\ c < size
    BY <1>0, <2>2 DEF Accounted
  <2>4. CidsOf(free') = CidsOf(free) \cup {c} /\ NoCidTwice(free')
    BY <1>0, <2>1, <2>2, <2>3, CidsOfAppend DEF Accounted
  <2> HIDE DEF r
  <2> QED
    BY <1>0, <2>2, <2>3, <2>4 DEF InUse, Accounted
<1>4. CASE Tick \/ UNCHANGED vars
  BY <1>4 DEF Tick, vars, InUse, Accounted
<1> QED
  BY <1>1, <1>2, <1>3, <1>4 DEF Next

(***************************************************************************)
(* No cid is lost, and none is in use and free at once, or free twice:     *)
(* what makes a cid name at most one connection at a time.                 *)
(***************************************************************************)
THEOREM CidsNeverShared == Spec => []CidsAccountedFor
<1>1. Init => Accounted
  <2> SUFFICES ASSUME Init PROVE Accounted
    OBVIOUS
  <2>1. CidsOf(free) = {} /\ NoCidTwice(free) /\ size = 2
    BY DEF Init, CidsOf, NoCidTwice
  <2> QED
    BY <2>1 DEF Init, InUse, Cid, Accounted
<1>2. Spec => []Accounted
  BY <1>1, AccountedKept, TypeCorrect, PTL DEF Spec
<1> QED
  BY AccountedDef, <1>2, PTL

(***************************************************************************)
(* No cid is handed out before it has cooled down, whatever the number of  *)
(* connections and the length of the queue.                                *)
(***************************************************************************)
THEOREM CoolingRespected == Spec => NoEarlyReuse
<1>1. ASSUME TypeOK, CidsAccountedFor, [Next]_vars,
             NEW i \in 1 .. Len(free), owner'[free[i].cid] # NoSvc
      PROVE  now - free[i].at > EraseInterval
  <2> DEFINE c == free[i].cid
  <2>1. /\ free \in Seq(Release) /\ owner \in [Cid -> Svc \cup {NoSvc}]
        /\ c \in Cid /\ c \in FreeCids /\ size \in 2 .. MaxSize
    BY <1>1, FreeElement DEF TypeOK, FreeCids
  <2>2. owner[c] = NoSvc /\ c # size
    <3>1. c \in Int
      BY <2>1 DEF Cid
    <3> QED
      BY <1>1, <2>1, <3>1 DEF CidsAccountedFor, InUse
  <2>3. PICK p \in Svc : RecordReuse(p)
    BY <1>1, <2>1, <2>2 DEF Next, RecordNew, Erase, Tick, vars
  <2>4. free # <<>> /\ Head(free) = free[1] /\ 1 \in 1 .. Len(free)
    BY <2>1, <2>3, FreeTail DEF RecordReuse, Reusable
  <2>5. c = free[1].cid
    BY <2>1, <2>2, <2>3, <2>4, <1>1 DEF RecordReuse
  <2>6. i = 1
    BY <1>1, <2>4, <2>5 DEF CidsAccountedFor
  <2> QED
    BY <2>3, <2>4, <2>6 DEF RecordReuse, Reusable, Cooled
<1>2. TypeOK /\ CidsAccountedFor /\ [Next]_vars
        => [\A i \in 1 .. Len(free) :
               owner'[free[i].cid] # NoSvc => now - free[i].at > EraseInterval]_vars
  BY <1>1
<1> QED
  BY <1>2, TypeCorrect, CidsNeverShared, PTL DEF Spec, NoEarlyReuse
=============================================================================
