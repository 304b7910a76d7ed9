------------------------- MODULE SvcStaticListProofs -------------------------
(***************************************************************************)
(* Proofs about the two rings of Svc_Static_List, for every table bound,   *)
(* cooling time and set of connections.                                    *)
(***************************************************************************)
EXTENDS SvcStaticList, FiniteSetTheorems, SequenceTheorems, WellFoundedInduction,
        TLAPS

(***************************************************************************)
(* Writing one, two or three entries of an array keeps its type, and what  *)
(* the array holds afterwards (a later write wins).                        *)
(***************************************************************************)
LEMMA Write2 ==
    ASSUME NEW S, NEW T, NEW f \in [S -> T], NEW a, NEW x \in T, NEW b, NEW y \in T
    PROVE  [f EXCEPT ![a] = x, ![b] = y] \in [S -> T]
  OBVIOUS

LEMMA Write3 ==
    ASSUME NEW S, NEW T, NEW f \in [S -> T], NEW a, NEW x \in T,
           NEW b, NEW y \in T, NEW c, NEW z \in T
    PROVE  [f EXCEPT ![a] = x, ![b] = y, ![c] = z] \in [S -> T]
  OBVIOUS

(***************************************************************************)
(* RingsLinked over given arrays of links, a given set F of the nodes of   *)
(* the free ring and a given size of the vector, so that the state before  *)
(* and the state after an operation can be compared.                       *)
(***************************************************************************)
Rings(pv, nx, F, n) ==
    \A i \in 0 .. (n - 1) :
        /\ nx[i] \in 0 .. (n - 1) /\ pv[i] \in 0 .. (n - 1)
        /\ pv[nx[i]] = i
        /\ nx[pv[i]] = i
        /\ nx[i] \in F <=> i \in F
        /\ pv[i] \in F <=> i \in F

(***************************************************************************)
(* A new node between the head of the used ring and its successor.         *)
(***************************************************************************)
LEMMA PushKeepsRings ==
    ASSUME NEW n \in Nat, n >= 2,
           NEW pv, NEW nx, NEW F, Rings(pv, nx, F, n), 1 \notin F, n \notin F,
           NEW pw, NEW nw,
           \A i \in 0 .. n :
               /\ pw[i] = (IF i = nx[1] THEN n ELSE IF i = n THEN 1 ELSE pv[i])
               /\ nw[i] = (IF i = 1 THEN n ELSE IF i = n THEN nx[1] ELSE nx[i])
    PROVE  Rings(pw, nw, F, n + 1)
<1> DEFINE u == nx[1]
<1>1. u \in 0 .. (n - 1) /\ pv[u] = 1 /\ u \notin F
  BY DEF Rings
<1>2. \A i \in 0 .. (n + 1 - 1) : i \in 0 .. n
  OBVIOUS
<1> HIDE DEF u
<1>3. ASSUME NEW i \in 0 .. n
      PROVE  /\ nw[i] \in 0 .. n /\ pw[i] \in 0 .. n
             /\ pw[nw[i]] = i
             /\ nw[pw[i]] = i
             /\ nw[i] \in F <=> i \in F
             /\ pw[i] \in F <=> i \in F
  <2>1. CASE i = n
    BY <1>1, <2>1 DEF u
  <2>2. CASE i # n
    <3>1. /\ i \in 0 .. (n - 1) /\ nx[i] \in 0 .. (n - 1) /\ pv[i] \in 0 .. (n - 1)
          /\ pv[nx[i]] = i /\ nx[pv[i]] = i
          /\ nx[i] \in F <=> i \in F
          /\ pv[i] \in F <=> i \in F
      BY <2>2 DEF Rings
    <3>2. nw[i] = (IF i = 1 THEN n ELSE nx[i]) /\ pw[i] = (IF i = u THEN n ELSE pv[i])
      BY <2>2 DEF u
    <3>3. (pv[i] = 1 <=> i = u) /\ (nx[i] = u <=> i = 1)
      BY <1>1, <3>1 DEF u
    <3>4. nw[i] \in 0 .. n /\ pw[i] \in 0 .. n
      BY <3>1, <3>2
    <3>5. pw[nw[i]] = i
      BY <1>1, <3>1, <3>2, <3>3 DEF u
    <3>6. nw[pw[i]] = i
      BY <1>1, <3>1, <3>2, <3>3 DEF u
    <3>7. (nw[i] \in F <=> i \in F) /\ (pw[i] \in F <=> i \in F)
      BY <1>1, <3>1, <3>2, <3>3
    <3> QED
      BY <3>4, <3>5, <3>6, <3>7
  <2> QED
    BY <2>1, <2>2
<1> QED
  BY <1>2, <1>3 DEF Rings

(***************************************************************************)
(* A node f moved from between its neighbours in one ring to between c and *)
(* its successor in the other.  Both record_svc's reuse (from the head of  *)
(* the free ring to that of the used ring) and erase_svc (to the tail of   *)
(* the free ring) are such a move.                                         *)
(***************************************************************************)
LEMMA MoveKeepsRings ==
    ASSUME NEW n \in Nat, n >= 2,
           NEW pv, NEW nx, NEW F, Rings(pv, nx, F, n),
           NEW f \in 0 .. (n - 1), NEW c \in 0 .. (n - 1), c \in F <=> f \notin F,
           NEW pw, NEW nw, NEW G,
           \A i \in 0 .. (n - 1) :
               /\ pw[i] = (IF i = f THEN c
                           ELSE IF i = nx[c] THEN f
                           ELSE IF i = nx[f] THEN pv[f] ELSE pv[i])
               /\ nw[i] = (IF i = f THEN nx[c]
                           ELSE IF i = c THEN f
                           ELSE IF i = pv[f] THEN nx[f] ELSE nx[i])
               /\ i # f => (i \in G <=> i \in F),
           f \in G <=> f \notin F
    PROVE  Rings(pw, nw, G, n)
<1> DEFINE a == pv[f]  b == nx[f]  d == nx[c]
<1>1. /\ a \in 0 .. (n - 1) /\ b \in 0 .. (n - 1) /\ d \in 0 .. (n - 1)
      /\ nx[a] = f /\ pv[b] = f /\ pv[d] = c
      /\ a \in F <=> f \in F
      /\ b \in F <=> f \in F
      /\ d \in F <=> c \in F
  BY DEF Rings
<1>2. c # f /\ d # f /\ a # c /\ a # d /\ b # c /\ b # d
  BY <1>1
<1>3. /\ pw[f] = c /\ nw[f] = d /\ pw[d] = f /\ nw[c] = f
      /\ a # f => nw[a] = b
      /\ b # f => pw[b] = a
      /\ f \in G <=> c \in G
      /\ d \in G <=> c \in G
  BY <1>1, <1>2
<1>4. \A i \in 0 .. (n - 1) : pv[i] = f => i = b
  BY DEF Rings
<1>5. \A i \in 0 .. (n - 1) : nx[i] = f => i = a
  BY DEF Rings
<1>6. /\ \A i \in 0 .. (n - 1) : i \notin {f, d, b} => pw[i] = pv[i]
      /\ \A i \in 0 .. (n - 1) : i \notin {f, c, a} => nw[i] = nx[i]
  OBVIOUS
<1>7. \A i \in 0 .. (n - 1) : (nx[i] = d => i = c) /\ (pv[i] = c => i = d)
  BY DEF Rings
<1>8. \A i \in 0 .. (n - 1) : (nx[i] = b => i = f) /\ (pv[i] = a => i = f)
  BY DEF Rings
<1>9. \A i \in 0 .. (n - 1) : i # f => (i \in G <=> i \in F)
  OBVIOUS
<1>10. \A i \in 0 .. (n - 1) :
          /\ nx[i] \in 0 .. (n - 1) /\ pv[i] \in 0 .. (n - 1)
          /\ pv[nx[i]] = i
          /\ nx[pv[i]] = i
          /\ nx[i] \in F <=> i \in F
          /\ pv[i] \in F <=> i \in F
  BY DEF Rings
<1> HIDE DEF a, b, d
<1>11. ASSUME NEW i \in 0 .. (n - 1)
       PROVE  /\ nw[i] \in 0 .. (n - 1) /\ pw[nw[i]] = i
              /\ nw[i] \in G <=> i \in G
  <2>1. CASE i = f
    BY <1>1, <1>3, <2>1
  <2>2. CASE i = c
    BY <1>3, <2>2
  <2>3. CASE i = a /\ i # f
    <3>1. b # f
      BY <1>1, <2>3 DEF a, b
    <3> QED
      BY <1>1, <1>2, <1>3, <1>9, <2>3, <3>1
  <2>4. CASE i \notin {f, c, a}
    <3>1. nw[i] = nx[i] /\ nx[i] \in 0 .. (n - 1) /\ pv[nx[i]] = i
      BY <1>6, <1>10, <2>4
    <3>2. nx[i] \notin {f, d, b}
      BY <1>5, <1>7, <1>8, <2>4
    <3>3. pw[nx[i]] = pv[nx[i]]
      BY <1>6, <3>1, <3>2
    <3> QED
      BY <1>9, <1>10, <2>4, <3>1, <3>2, <3>3
  <2> QED
    BY <2>1, <2>2, <2>3, <2>4
<1>12. ASSUME NEW i \in 0 .. (n - 1)
       PROVE  /\ pw[i] \in 0 .. (n - 1) /\ nw[pw[i]] = i
              /\ pw[i] \in G <=> i \in G
  <2>1. CASE i = f
    BY <1>1, <1>3, <2>1
  <2>2. CASE i = d
    BY <1>1, <1>3, <2>2
  <2>3. CASE i = b /\ i # f
    <3>1. a # f
      BY <1>1, <2>3 DEF a, b
    <3> QED
      BY <1>1, <1>2, <1>3, <1>9, <2>3, <3>1
  <2>4. CASE i \notin {f, d, b}
    <3>1. pw[i] = pv[i] /\ pv[i] \in 0 .. (n - 1) /\ nx[pv[i]] = i
      BY <1>6, <1>10, <2>4
    <3>2. pv[i] \notin {f, c, a}
      BY <1>4, <1>7, <1>8, <2>4
    <3>3. nw[pv[i]] = nx[pv[i]]
      BY <1>6, <3>1, <3>2
    <3> QED
      BY <1>9, <1>10, <2>4, <3>1, <3>2, <3>3
  <2> QED
    BY <2>1, <2>2, <2>3, <2>4
<1> QED
  BY <1>11, <1>12 DEF Rings

(***************************************************************************)
(* The nodes of the free ring: its head, and every index of the table that *)
(* is not in use.                                                          *)
(***************************************************************************)
FreeSet == {i \in Index : InFreeRing(i)}

LEMMA RingsLinkedIsRings ==
    TypeOK => (RingsLinked <=> Rings(prev, next, FreeSet, size))
<1> SUFFICES ASSUME TypeOK
             PROVE  RingsLinked <=> Rings(prev, next, FreeSet, size)
  OBVIOUS
<1>1. size \in 2 .. MaxSize /\ MaxSize \in Nat
  BY ListAssumption DEF TypeOK
<1>2. \A i \in Index : i < size <=> i \in 0 .. (size - 1)
  BY <1>1 DEF Index
<1>3. 0 .. (size - 1) \subseteq Index
  BY <1>1 DEF Index
<1>4. \A i \in Index : i \in FreeSet <=> InFreeRing(i)
  BY DEF FreeSet
<1> QED
  BY <1>2, <1>3, <1>4 DEF RingsLinked, Rings

LEMMA RingsLinkedIsRingsNext ==
    TypeOK' => (RingsLinked' <=> Rings(prev', next', FreeSet', size'))
<1>1. (TypeOK => (RingsLinked <=> Rings(prev, next, FreeSet, size)))'
  BY RingsLinkedIsRings, PTL
<1> QED
  BY <1>1

IInv == TypeOK /\ RingsLinked

LEMMA InitRings == Init => IInv
<1> SUFFICES ASSUME Init PROVE IInv
  OBVIOUS
<1>1. TypeOK
  BY ListAssumption DEF Init, TypeOK, Index, null_ptr
<1>2. RingsLinked
  BY ListAssumption DEF Init, RingsLinked, Index, InFreeRing, free_head
<1> QED
  BY <1>1, <1>2 DEF IInv

(***************************************************************************)
(* record_svc, pushing a new node.                                         *)
(***************************************************************************)
LEMMA RecordNewKeeps ==
    ASSUME IInv, NEW p \in Svc, RecordNew(p)
    PROVE  IInv'
<1> USE DEF free_head, used_head
<1>0. /\ TypeOK /\ Rings(prev, next, FreeSet, size) /\ MaxSize \in Nat
      /\ size \in Index /\ size \in Nat /\ size >= 2 /\ 0 \in Index /\ 1 \in Index
      /\ 0 .. size \subseteq Index
  <2>1. TypeOK /\ Rings(prev, next, FreeSet, size)
    BY RingsLinkedIsRings DEF IInv
  <2>2. size \in 2 .. MaxSize /\ size < MaxSize /\ MaxSize \in Nat
    BY <2>1, ListAssumption DEF TypeOK, RecordNew
  <2> QED
    BY <2>1, <2>2 DEF Index
<1>1. next[1] \in 0 .. (size - 1) /\ next[1] \in Index
  BY <1>0 DEF Rings
<1>2. TypeOK'
  <2> USE <1>0, <1>1 DEF RecordNew, TypeOK
  <2>1. prev' \in [Index -> Index \cup {null_ptr}]
    BY Write2
  <2>2. next' \in [Index -> Index \cup {null_ptr}]
    BY Write2
  <2>3. is_used' \in [Index -> BOOLEAN] /\ node' \in [Index -> Svc \cup {NoSvc}]
    OBVIOUS
  <2>4. size' \in 2 .. MaxSize
    OBVIOUS
  <2> QED
    BY <2>1, <2>2, <2>3, <2>4
<1>3. \A i \in 0 .. size :
         /\ prev'[i] = (IF i = next[1] THEN size ELSE IF i = size THEN 1 ELSE prev[i])
         /\ next'[i] = (IF i = 1 THEN size ELSE IF i = size THEN next[1] ELSE next[i])
  BY <1>0, <1>1 DEF RecordNew, TypeOK
<1> DEFINE F == FreeSet \ {size}
<1>4. Rings(prev, next, F, size)
  <2>1. \A i \in 0 .. (size - 1) : i # size /\ next[i] # size /\ prev[i] # size
    BY <1>0 DEF Rings
  <2> QED
    BY <1>0, <2>1 DEF Rings
<1>5. 1 \notin F /\ size \notin F
  BY DEF FreeSet, InFreeRing
<1>6. FreeSet' = F
  <2>1. \A i \in Index : i # size => is_used'[i] = is_used[i]
    BY <1>0 DEF RecordNew, TypeOK
  <2>2. is_used'[size] = TRUE
    BY <1>0 DEF RecordNew, TypeOK
  <2>3. \A i \in Index : InFreeRing(i)' <=> (i # size /\ InFreeRing(i))
    BY <1>0, <2>1, <2>2 DEF InFreeRing
  <2> QED
    BY <2>3 DEF FreeSet
<1> HIDE DEF F
<1>7. Rings(prev', next', F, size + 1)
  BY <1>0, <1>3, <1>4, <1>5, PushKeepsRings
<1>8. Rings(prev', next', FreeSet', size')
  BY <1>6, <1>7 DEF RecordNew
<1> QED
  BY <1>2, <1>8, RingsLinkedIsRingsNext DEF IInv

(***************************************************************************)
(* record_svc, reusing the first free node.                                *)
(***************************************************************************)
LEMMA RecordReuseKeeps ==
    ASSUME IInv, NEW p \in Svc, RecordReuse(p)
    PROVE  IInv'
<1> USE DEF free_head, used_head
<1> DEFINE f == next[0]
<1>0. /\ TypeOK /\ Rings(prev, next, FreeSet, size) /\ MaxSize \in Nat
      /\ size \in Nat /\ size >= 2 /\ 0 \in Index /\ 1 \in Index
      /\ 0 .. (size - 1) \subseteq Index
  BY ListAssumption, RingsLinkedIsRings DEF IInv, TypeOK, Index
<1>1. 0 \in FreeSet /\ 1 \notin FreeSet
  BY <1>0 DEF FreeSet, InFreeRing
<1>2. /\ f \in 0 .. (size - 1) /\ f \in FreeSet /\ prev[f] = 0 /\ f # 0 /\ f # 1
      /\ next[f] \in 0 .. (size - 1) /\ next[1] \in 0 .. (size - 1)
  BY <1>0, <1>1 DEF Rings, RecordReuse, FreeListEmpty
<1>3. f \in Index /\ next[f] \in Index /\ next[1] \in Index
  BY <1>0, <1>2
<1>4. TypeOK'
  <2> USE <1>0, <1>2, <1>3 DEF RecordReuse, TypeOK
  <2>0. prev[f] \in Index \cup {null_ptr} /\ 1 \in Index \cup {null_ptr}
    OBVIOUS
  <2>1. prev' \in [Index -> Index \cup {null_ptr}]
    BY <2>0, Write3
  <2>2. next' \in [Index -> Index \cup {null_ptr}]
    BY <2>0, Write3
  <2>3. is_used' \in [Index -> BOOLEAN] /\ node' \in [Index -> Svc \cup {NoSvc}]
    OBVIOUS
  <2> QED
    BY <2>1, <2>2, <2>3
<1>5. /\ prev' = [prev EXCEPT ![next[f]] = prev[f], ![next[1]] = f, ![f] = 1]
      /\ next' = [next EXCEPT ![0] = next[f], ![f] = next[1], ![1] = f]
      /\ is_used' = [is_used EXCEPT ![f] = TRUE]
      /\ size' = size
  BY DEF RecordReuse
<1>6. /\ prev \in [Index -> Index \cup {null_ptr}]
      /\ next \in [Index -> Index \cup {null_ptr}]
      /\ is_used \in [Index -> BOOLEAN]
  BY <1>0 DEF TypeOK
<1> HIDE DEF f
<1>7. \A i \in 0 .. (size - 1) :
         /\ prev'[i] = (IF i = f THEN 1
                        ELSE IF i = next[1] THEN f
                        ELSE IF i = next[f] THEN prev[f] ELSE prev[i])
         /\ next'[i] = (IF i = f THEN next[1]
                        ELSE IF i = 1 THEN f
                        ELSE IF i = prev[f] THEN next[f] ELSE next[i])
  BY <1>0, <1>2, <1>3, <1>5, <1>6
<1>8. \A i \in 0 .. (size - 1) : i # f => (i \in FreeSet' <=> i \in FreeSet)
  <2>1. \A i \in Index : i # f => is_used'[i] = is_used[i]
    BY <1>5, <1>6
  <2>2. \A i \in Index : i # f => (InFreeRing(i)' <=> InFreeRing(i))
    BY <2>1 DEF InFreeRing
  <2> QED
    BY <1>0, <2>2 DEF FreeSet
<1>9. f \notin FreeSet'
  <2>1. is_used'[f] = TRUE
    BY <1>3, <1>5, <1>6
  <2> QED
    BY <1>2, <2>1 DEF FreeSet, InFreeRing
<1>10. Rings(prev', next', FreeSet', size)
  BY <1>0, <1>1, <1>2, <1>7, <1>8, <1>9, MoveKeepsRings
<1>11. Rings(prev', next', FreeSet', size')
  BY <1>5, <1>10
<1> QED
  BY <1>4, <1>11, RingsLinkedIsRingsNext DEF IInv

(***************************************************************************)
(* erase_svc: the node goes between the last free node and the free head.  *)
(***************************************************************************)
LEMMA EraseKeeps ==
    ASSUME IInv, NEW f \in Cid, Erase(f)
    PROVE  IInv'
<1> USE DEF free_head, used_head
<1> DEFINE c == prev[0]
<1>0. /\ TypeOK /\ Rings(prev, next, FreeSet, size) /\ MaxSize \in Nat
      /\ size \in Nat /\ size >= 2 /\ 0 \in Index /\ f \in Index
      /\ f \in 0 .. (size - 1) /\ f \in 2 .. (size - 1)
      /\ 0 .. (size - 1) \subseteq Index
  <2>1. TypeOK /\ Rings(prev, next, FreeSet, size)
    BY RingsLinkedIsRings DEF IInv
  <2>2. size \in 2 .. MaxSize /\ MaxSize \in Nat
    BY <2>1, ListAssumption DEF TypeOK
  <2>3. f \in Nat /\ f >= 2 /\ f < size
    BY DEF Cid, Erase, validate_cid
  <2> QED
    BY <2>1, <2>2, <2>3 DEF Index
<1>1. 0 \in FreeSet /\ f \notin FreeSet
  BY <1>0 DEF FreeSet, InFreeRing, Erase
<1>2. /\ c \in 0 .. (size - 1) /\ c \in FreeSet /\ next[c] = 0
      /\ next[f] \in 0 .. (size - 1) /\ prev[f] \in 0 .. (size - 1)
      /\ next[f] \notin FreeSet /\ prev[f] \notin FreeSet
  BY <1>0, <1>1 DEF Rings
<1>3. c \in Index /\ next[f] \in Index /\ prev[f] \in Index
  BY <1>0, <1>2
<1>4. TypeOK'
  <2> USE <1>0, <1>2, <1>3 DEF Erase, TypeOK
  <2>1. prev' \in [Index -> Index \cup {null_ptr}]
    BY Write3
  <2>2. next' \in [Index -> Index \cup {null_ptr}]
    BY Write3
  <2>3. is_used' \in [Index -> BOOLEAN] /\ erase_timestamp' \in [Index -> Nat]
    OBVIOUS
  <2> QED
    BY <2>1, <2>2, <2>3
<1>5. /\ prev' = [prev EXCEPT ![next[f]] = prev[f], ![f] = c, ![0] = f]
      /\ next' = [next EXCEPT ![prev[f]] = next[f], ![f] = 0, ![c] = f]
      /\ is_used' = [is_used EXCEPT ![f] = FALSE]
      /\ size' = size
  BY DEF Erase
<1>6. /\ prev \in [Index -> Index \cup {null_ptr}]
      /\ next \in [Index -> Index \cup {null_ptr}]
      /\ is_used \in [Index -> BOOLEAN]
  BY <1>0 DEF TypeOK
<1> HIDE DEF c
<1>7. \A i \in 0 .. (size - 1) :
         /\ prev'[i] = (IF i = f THEN c
                        ELSE IF i = next[c] THEN f
                        ELSE IF i = next[f] THEN prev[f] ELSE prev[i])
         /\ next'[i] = (IF i = f THEN next[c]
                        ELSE IF i = c THEN f
                        ELSE IF i = prev[f] THEN next[f] ELSE next[i])
  BY <1>0, <1>1, <1>2, <1>3, <1>5, <1>6
<1>8. \A i \in 0 .. (size - 1) : i # f => (i \in FreeSet' <=> i \in FreeSet)
  <2>1. \A i \in Index : i # f => is_used'[i] = is_used[i]
    BY <1>5, <1>6
  <2>2. \A i \in Index : i # f => (InFreeRing(i)' <=> InFreeRing(i))
    BY <2>1 DEF InFreeRing
  <2> QED
    BY <1>0, <2>2 DEF FreeSet
<1>9. f \in FreeSet'
  <2>1. is_used'[f] = FALSE
    BY <1>0, <1>5, <1>6
  <2> QED
    BY <1>0, <2>1 DEF FreeSet, InFreeRing
<1>10. Rings(prev', next', FreeSet', size)
  BY <1>0, <1>1, <1>2, <1>7, <1>8, <1>9, MoveKeepsRings
<1>11. Rings(prev', next', FreeSet', size')
  BY <1>5, <1>10
<1> QED
  BY <1>4, <1>11, RingsLinkedIsRingsNext DEF IInv

(***************************************************************************)
(* Type correctness and well-linked rings hold together: the type of the   *)
(* links an operation writes depends on the links it follows.              *)
(***************************************************************************)
LEMMA Inductive == Spec => []IInv
<1>1. IInv /\ [Next]_vars => IInv'
  <2> SUFFICES ASSUME IInv, [Next]_vars
               PROVE  IInv'
    OBVIOUS
  <2>1. CASE Tick \/ UNCHANGED vars
    BY <2>1 DEF Tick, vars, IInv, TypeOK, RingsLinked, InFreeRing
  <2> QED
    BY <2>1, RecordNewKeeps, RecordReuseKeeps, EraseKeeps DEF Next
<1> QED
  BY <1>1, InitRings, PTL DEF Spec

(***************************************************************************)
(* Type correctness of Svc_Static_List: links stay inside the table, and   *)
(* the vector keeps its two heads.                                         *)
(***************************************************************************)
THEOREM TypeCorrect == Spec => []TypeOK
  BY Inductive, PTL DEF IInv

(***************************************************************************)
(* Every sequence of record_svc and erase_svc calls leaves two disjoint,   *)
(* doubly linked rings, for a table of any size.                           *)
(***************************************************************************)
THEOREM RingsStayLinked == Spec => []RingsLinked
  BY Inductive, PTL DEF IInv

-----------------------------------------------------------------------------
(***************************************************************************)
(* A set of numbers has a least, and induction over numbers from it.       *)
(***************************************************************************)
LEMMA NatMin ==
    ASSUME NEW T, T \subseteq Nat, T # {}
    PROVE  \E n \in T : \A m \in T : n <= m
<1> DEFINE F == {0 .. n : n \in T}
           R == StrictSubsetOrdering(Nat)
           S == FiniteSubsetsOf(Nat)
<1>1. IsWellFoundedOn(R, S)
  BY FS_StrictSubsetOrderingWellFounded
<1>2. F \subseteq S /\ F # {}
  <2>1. \A n \in T : 0 .. n \in SUBSET Nat /\ IsFiniteSet(0 .. n)
    BY FS_Interval
  <2> QED
    BY <2>1 DEF FiniteSubsetsOf
<1>3. \A n, m \in T : m < n => <<0 .. m, 0 .. n>> \in R
  BY DEF StrictSubsetOrdering
<1> HIDE DEF R, S
<1>4. PICK x \in F : \A y \in F : ~ (<<y, x>> \in R)
  <2> HIDE DEF F
  <2> QED
    BY <1>1, <1>2, WFMin
<1>5. PICK n \in T : x = 0 .. n
  OBVIOUS
<1>6. \A m \in T : 0 .. m \in F
  OBVIOUS
<1>7. \A m \in T : ~ (m < n)
  <2> HIDE DEF F
  <2> QED
    BY <1>3, <1>4, <1>5, <1>6
<1> QED
  BY <1>7

LEMMA Induction ==
  ASSUME NEW I, 0 \in I, \A n \in Nat : n \in I => n + 1 \in I
  PROVE  Nat \subseteq I
<1> SUFFICES ASSUME Nat \ I # {} PROVE FALSE
  OBVIOUS
<1>1. PICK n \in Nat \ I : \A m \in Nat \ I : n <= m
  BY NatMin
<1>2. n - 1 \in Nat /\ n - 1 \notin Nat \ I
  BY <1>1
<1> QED
  BY <1>2

-----------------------------------------------------------------------------
(***************************************************************************)
(* q lists the set F of free nodes in the order in which the links nx go   *)
(* round the free ring.                                                    *)
(***************************************************************************)
RingOrder(q, nx, F) ==
    /\ q \in Seq(Cid)
    /\ \A i \in 1 .. Len(q) : q[i] \in F
    /\ \A c \in F : \E i \in 1 .. Len(q) : q[i] = c
    /\ \A i, j \in 1 .. Len(q) : q[i] = q[j] => i = j
    /\ \A i \in 1 .. Len(q) : nx[q[i]] = (IF i = Len(q) THEN 0 ELSE q[i + 1])
    /\ nx[0] = (IF Len(q) = 0 THEN 0 ELSE q[1])

(***************************************************************************)
(* Such a list has as many elements as there are free nodes.               *)
(***************************************************************************)
LEMMA OrderLength ==
    ASSUME NEW q, NEW nx, NEW F, RingOrder(q, nx, F)
    PROVE  Cardinality(F) = Len(q)
<1>1. Len(q) \in Nat /\ q \in [1 .. Len(q) -> F]
  <2>1. Len(q) \in Nat /\ q \in [1 .. Len(q) -> Cid]
    BY LenProperties DEF RingOrder
  <2> QED
    BY <2>1 DEF RingOrder
<1>2. q \in Bijection(1 .. Len(q), F)
  <2>1. q \in Injection(1 .. Len(q), F)
    <3>1. \A i, j \in 1 .. Len(q) : q[i] = q[j] => i = j
      BY DEF RingOrder
    <3> QED
      BY <1>1, <3>1 DEF Injection, IsInjective
  <2>2. q \in Surjection(1 .. Len(q), F)
    BY <1>1 DEF RingOrder, Surjection
  <2> QED
    BY <2>1, <2>2 DEF Bijection
<1>3. ExistsBijection(1 .. Len(q), F)
  BY <1>2 DEF ExistsBijection
<1> QED
  BY <1>1, <1>3, FS_CountingElements

(***************************************************************************)
(* Walking along next_ from the head of the free ring meets its nodes in   *)
(* this order.                                                             *)
(***************************************************************************)
LEMMA WalkMeetsOrder ==
    \A q : RingOrder(q, next, FreeNodes) => FreeRing = q
<1> SUFFICES ASSUME NEW q, RingOrder(q, next, FreeNodes)
             PROVE  FreeRing = q
  OBVIOUS
<1> DEFINE n == Len(q)
           Steps(at) == at = [k \in 0 .. n |-> IF k = 0 THEN 0 ELSE next[at[k - 1]]]
           at0 == CHOOSE at : Steps(at)
           g == [k \in 0 .. n |-> IF k = 0 THEN 0 ELSE q[k]]
<1>1. n \in Nat /\ q \in [1 .. n -> Cid]
  BY LenProperties DEF RingOrder
<1>2. FreeRing = Walk(0, n)
  BY OrderLength DEF FreeRing, free_head
<1>3. Walk(0, n) = [k \in 1 .. n |-> at0[k]]
  BY DEF Walk
<1>4. \A k \in 1 .. n : q[k] = next[g[k - 1]]
  <2> SUFFICES ASSUME NEW k \in 1 .. n PROVE q[k] = next[g[k - 1]]
    OBVIOUS
  <2>1. CASE k = 1
    <3>1. next[0] = q[1]
      <4>1. next[0] = (IF n = 0 THEN 0 ELSE q[1])
        BY DEF RingOrder
      <4>2. n # 0
        BY <1>1, <2>1
      <4> QED
        BY <4>1, <4>2
    <3>2. g[k - 1] = 0
      BY <1>1, <2>1
    <3> QED
      BY <2>1, <3>1, <3>2
  <2>2. CASE k # 1
    <3>1. k - 1 \in 1 .. n /\ k - 1 # n /\ (k - 1) + 1 = k /\ k - 1 \in 0 .. n /\ k - 1 # 0
      BY <1>1, <2>2
    <3>2. g[k - 1] = q[k - 1]
      BY <3>1
    <3>3. next[q[k - 1]] = q[(k - 1) + 1]
      BY <3>1 DEF RingOrder
    <3> QED
      BY <3>1, <3>2, <3>3
  <2> QED
    BY <2>1, <2>2
<1>5. Steps(g)
  BY <1>1, <1>4
<1>6. Steps(at0)
  <2> HIDE DEF Steps, g
  <2> QED
    BY <1>5
<1> DEFINE I == {k \in Nat : k <= n => at0[k] = g[k]}
<1>7. 0 \in I
  <2> HIDE DEF at0
  <2> QED
    BY <1>1, <1>6
<1>8. \A k \in Nat : k \in I => k + 1 \in I
  <2> HIDE DEF at0
  <2> SUFFICES ASSUME NEW k \in Nat, k \in I, k + 1 <= n PROVE at0[k + 1] = g[k + 1]
    OBVIOUS
  <2>1. k \in 0 .. n /\ k + 1 \in 1 .. n /\ k + 1 \in 0 .. n /\ (k + 1) - 1 = k /\ k + 1 # 0
    BY <1>1
  <2>2. at0[k + 1] = next[at0[k]]
    BY <1>6, <2>1
  <2>3. at0[k] = g[k] /\ g[k + 1] = q[k + 1]
    BY <2>1
  <2> HIDE DEF g
  <2> QED
    BY <1>4, <2>1, <2>2, <2>3
<1>9. Nat \subseteq I
  <2> HIDE DEF I
  <2> QED
    BY <1>7, <1>8, Induction
<1>10. \A k \in 1 .. n : at0[k] = q[k]
  <2> HIDE DEF at0
  <2> SUFFICES ASSUME NEW k \in 1 .. n PROVE at0[k] = q[k]
    OBVIOUS
  <2>1. k \in Nat /\ k <= n /\ k # 0 /\ k \in 0 .. n
    BY <1>1
  <2> QED
    BY <1>9, <2>1
<1> HIDE DEF at0
<1>11. [k \in 1 .. n |-> at0[k]] = q
  BY <1>1, <1>10
<1> QED
  BY <1>2, <1>3, <1>11

(***************************************************************************)
(* The order after the first node has been taken, and after a node has     *)
(* been linked behind the last.                                            *)
(***************************************************************************)
LEMMA OrderTail ==
    ASSUME NEW q, NEW nx, NEW nw, NEW F, RingOrder(q, nx, F), Len(q) # 0,
           nw[0] = nx[q[1]], \A c \in F \ {q[1]} : nw[c] = nx[c]
    PROVE  RingOrder(Tail(q), nw, F \ {q[1]})
<1> DEFINE t == Tail(q)  n == Len(q)
<1>1. /\ q \in Seq(Cid) /\ n \in Nat \ {0}
      /\ t \in Seq(Cid) /\ Len(t) = n - 1
      /\ \A i \in 1 .. (n - 1) : t[i] = q[i + 1]
  <2>1. q \in Seq(Cid) /\ n \in Nat /\ q # <<>>
    BY LenProperties, EmptySeq DEF RingOrder
  <2> QED
    BY <2>1, HeadTailProperties
<1>2. \A i, j \in 1 .. n : q[i] = q[j] => i = j
  BY DEF RingOrder
<1>3. \A i \in 1 .. n : q[i] \in F /\ nx[q[i]] = (IF i = n THEN 0 ELSE q[i + 1])
  BY DEF RingOrder
<1>4. \A c \in F : \E i \in 1 .. n : q[i] = c
  BY DEF RingOrder
<1> HIDE DEF t, n
<1>5. \A i \in 1 .. (n - 1) : i + 1 \in 1 .. n /\ i + 1 # 1 /\ 1 \in 1 .. n
  BY <1>1
<1>6. \A i \in 1 .. (n - 1) : t[i] \in F \ {q[1]}
  BY <1>1, <1>2, <1>3, <1>5
<1>7. ASSUME NEW c \in F \ {q[1]} PROVE \E i \in 1 .. (n - 1) : t[i] = c
  <2>1. PICK i \in 1 .. n : q[i] = c
    BY <1>4
  <2>2. i # 1
    BY <2>1
  <2>3. i - 1 \in 1 .. (n - 1) /\ (i - 1) + 1 = i
    BY <1>1, <2>2
  <2>4. t[i - 1] = c
    BY <1>1, <2>1, <2>3
  <2> QED
    BY <2>3, <2>4
<1>8. ASSUME NEW i \in 1 .. (n - 1), NEW j \in 1 .. (n - 1), t[i] = t[j] PROVE i = j
  <2>1. i + 1 = j + 1
    BY <1>1, <1>2, <1>5, <1>8
  <2> QED
    BY <1>1, <2>1
<1>9. ASSUME NEW i \in 1 .. (n - 1)
      PROVE  nw[t[i]] = (IF i = n - 1 THEN 0 ELSE t[i + 1])
  <2>1. nw[t[i]] = nx[q[i + 1]] /\ t[i] = q[i + 1]
    BY <1>1, <1>6
  <2>2. nx[q[i + 1]] = (IF i + 1 = n THEN 0 ELSE q[(i + 1) + 1])
    BY <1>3, <1>5
  <2>3. CASE i = n - 1
    BY <1>1, <2>1, <2>2, <2>3
  <2>4. CASE i # n - 1
    <3>1. i + 1 # n /\ i + 1 \in 1 .. (n - 1)
      BY <1>1, <2>4
    <3>2. t[i + 1] = q[(i + 1) + 1]
      BY <1>1, <3>1
    <3> QED
      BY <2>1, <2>2, <2>4, <3>1, <3>2
  <2> QED
    BY <2>3, <2>4
<1>10. nw[0] = (IF n - 1 = 0 THEN 0 ELSE t[1])
  <2>1. 1 \in 1 .. n /\ nw[0] = (IF 1 = n THEN 0 ELSE q[1 + 1])
    BY <1>1, <1>3
  <2>2. n # 1 => t[1] = q[1 + 1]
    BY <1>1
  <2> QED
    BY <1>1, <2>1, <2>2
<1>11. t \in Seq(Cid) /\ Len(t) = n - 1
  BY <1>1
<1>12. RingOrder(t, nw, F \ {q[1]})
  BY ONLY <1>6, <1>7, <1>8, <1>9, <1>10, <1>11, Zenon DEF RingOrder
<1> QED
  BY <1>12 DEF t

LastNode(q) == IF Len(q) = 0 THEN 0 ELSE q[Len(q)]

LEMMA OrderAppend ==
    ASSUME NEW q, NEW nx, NEW nw, NEW F, RingOrder(q, nx, F), F \subseteq Cid,
           NEW c \in Cid, c \notin F, nw[c] = 0, nw[LastNode(q)] = c,
           \A i \in F \cup {0} : i # LastNode(q) => nw[i] = nx[i]
    PROVE  RingOrder(Append(q, c), nw, F \cup {c})
<1> DEFINE t == Append(q, c)  n == Len(q)
<1>1. /\ q \in Seq(Cid) /\ n \in Nat
      /\ t \in Seq(Cid) /\ Len(t) = n + 1
      /\ \A i \in 1 .. n : t[i] = q[i]
      /\ t[n + 1] = c
  <2>1. q \in Seq(Cid) /\ n \in Nat
    BY LenProperties DEF RingOrder
  <2> QED
    BY <2>1, AppendProperties
<1>2. \A i, j \in 1 .. n : q[i] = q[j] => i = j
  BY DEF RingOrder
<1>3. \A i \in 1 .. n : q[i] \in F /\ nx[q[i]] = (IF i = n THEN 0 ELSE q[i + 1])
  BY DEF RingOrder
<1>4. \A d \in F : \E i \in 1 .. n : q[i] = d
  BY DEF RingOrder
<1>5. nx[0] = (IF n = 0 THEN 0 ELSE q[1])
  BY DEF RingOrder
<1>6. LastNode(q) = (IF n = 0 THEN 0 ELSE q[n])
  BY DEF LastNode
<1> HIDE DEF t, n
<1>7. 0 \notin F
  BY DEF Cid
<1>8. \A i \in 1 .. (n + 1) : i = n + 1 \/ i \in 1 .. n
  BY <1>1
<1>9. \A i \in 1 .. (n + 1) : t[i] \in F \cup {c}
  BY <1>1, <1>3, <1>8
<1>10. ASSUME NEW d \in F \cup {c} PROVE \E i \in 1 .. (n + 1) : t[i] = d
  <2>1. CASE d = c
    <3>1. n + 1 \in 1 .. (n + 1)
      BY <1>1
    <3> QED
      BY <1>1, <2>1, <3>1
  <2>2. CASE d \in F
    <3>1. PICK i \in 1 .. n : q[i] = d
      BY <1>4, <2>2
    <3>2. i \in 1 .. (n + 1) /\ t[i] = d
      BY <1>1, <3>1
    <3> QED
      BY <3>2
  <2> QED
    BY <2>1, <2>2
<1>11. ASSUME NEW i \in 1 .. (n + 1), NEW j \in 1 .. (n + 1), t[i] = t[j] PROVE i = j
  <2>1. \A k \in 1 .. n : t[k] = q[k] /\ q[k] # c
    BY <1>1, <1>3
  <2> QED
    BY <1>1, <1>2, <1>8, <1>11, <2>1
<1>12. ASSUME NEW i \in 1 .. (n + 1)
       PROVE  nw[t[i]] = (IF i = n + 1 THEN 0 ELSE t[i + 1])
  <2>1. CASE i = n + 1
    BY <1>1, <2>1
  <2>2. CASE i = n /\ i # n + 1
    <3>1. i \in 1 .. n /\ n # 0
      BY <1>8, <2>2
    <3>2. t[i] = LastNode(q)
      BY <1>1, <1>6, <2>2, <3>1
    <3> QED
      BY <1>1, <2>2, <3>2
  <2>3. CASE i # n /\ i # n + 1
    <3>1. i \in 1 .. n /\ i + 1 \in 1 .. n /\ n \in 1 .. n /\ n # 0
      BY <1>1, <1>8, <2>3
    <3>2. t[i] = q[i] /\ q[i] \in F /\ q[i] # LastNode(q)
      BY <1>1, <1>2, <1>3, <1>6, <2>3, <3>1
    <3>3. nw[t[i]] = q[i + 1]
      BY <1>3, <2>3, <3>1, <3>2
    <3>4. t[i + 1] = q[i + 1]
      BY <1>1, <3>1
    <3> QED
      BY <2>3, <3>3, <3>4
  <2> QED
    BY <2>1, <2>2, <2>3
<1>13. nw[0] = (IF n + 1 = 0 THEN 0 ELSE t[1])
  <2>1. CASE n = 0
    <3>1. t[1] = c /\ n + 1 # 0
      BY <1>1, <2>1
    <3> QED
      BY <1>6, <2>1, <3>1
  <2>2. CASE n # 0
    <3>1. 1 \in 1 .. n /\ n \in 1 .. n /\ n + 1 # 0
      BY <1>1, <2>2
    <3>2. LastNode(q) # 0
      BY <1>3, <1>6, <1>7, <2>2, <3>1
    <3>3. nw[0] = q[1] /\ t[1] = q[1]
      BY <1>1, <1>5, <2>2, <3>1, <3>2
    <3> QED
      BY <3>1, <3>3
  <2> QED
    BY <2>1, <2>2
<1>14. t \in Seq(Cid) /\ Len(t) = n + 1
  BY <1>1
<1>15. RingOrder(t, nw, F \cup {c})
  BY ONLY <1>9, <1>10, <1>11, <1>12, <1>13, <1>14, Zenon DEF RingOrder
<1> QED
  BY <1>15 DEF t

-----------------------------------------------------------------------------
(***************************************************************************)
(* The free queue of the allocator, read off such an order.                *)
(***************************************************************************)
FreeEntry == [cid : Cid, at : Nat]

QueueOf(q, at) == [k \in 1 .. Len(q) |-> [cid |-> q[k], at |-> at[q[k]]]]

LEMMA QueueType ==
    ASSUME NEW q \in Seq(Cid), NEW at \in [Index -> Nat]
    PROVE  /\ Len(q) \in Nat
           /\ QueueOf(q, at) \in Seq(FreeEntry)
           /\ Len(QueueOf(q, at)) = Len(q)
           /\ \A k \in 1 .. Len(q) : QueueOf(q, at)[k] = [cid |-> q[k], at |-> at[q[k]]]
           /\ (QueueOf(q, at) = <<>>) <=> (Len(q) = 0)
<1> DEFINE n == Len(q)  f == QueueOf(q, at)
<1>1. n \in Nat /\ \A k \in 1 .. n : q[k] \in Cid
  BY LenProperties
<1>2. Cid \subseteq Index
  BY DEF Cid, Index
<1>3. \A k \in 1 .. n : [cid |-> q[k], at |-> at[q[k]]] \in FreeEntry
  BY <1>1, <1>2 DEF FreeEntry
<1> HIDE DEF n
<1>4. f = [k \in 1 .. n |-> [cid |-> q[k], at |-> at[q[k]]]]
  BY DEF n, QueueOf
<1> HIDE DEF f
<1>5. f \in [1 .. n -> FreeEntry]
  BY <1>3, <1>4
<1>6. f \in Seq(FreeEntry)
  BY <1>1, <1>5, SeqDef
<1>7. Len(f) = n
  <2>1. Len(f) \in Nat /\ DOMAIN f = 1 .. Len(f) /\ DOMAIN f = 1 .. n
    BY <1>5, <1>6, LenProperties
  <2>2. \A k \in Nat : k \in 1 .. Len(f) <=> k \in 1 .. n
    BY <2>1
  <2>3. (n \in 1 .. n <=> n # 0) /\ (Len(f) \in 1 .. Len(f) <=> Len(f) # 0)
    BY <1>1, <2>1
  <2>4. n # 0 => n <= Len(f)
    BY <1>1, <2>1, <2>2, <2>3
  <2>5. Len(f) # 0 => Len(f) <= n
    BY <1>1, <2>1, <2>2, <2>3
  <2> DEFINE m == Len(f)
  <2>6. m \in Nat /\ (n # 0 => n <= m) /\ (m # 0 => m <= n)
    BY <2>1, <2>4, <2>5
  <2> HIDE DEF m
  <2>7. m = n
    BY <1>1, <2>6
  <2> QED
    BY <2>7 DEF m
<1>8. f = <<>> <=> n = 0
  <2>1. f = <<>> => n = 0
    BY <1>7, EmptySeq
  <2>2. n = 0 => f = <<>>
    BY <1>6, <1>7, EmptySeq
  <2> QED
    BY <2>1, <2>2
<1>9. \A k \in 1 .. n : f[k] = [cid |-> q[k], at |-> at[q[k]]]
  BY <1>4
<1> QED
  BY <1>1, <1>6, <1>7, <1>8, <1>9 DEF n, f

LEMMA QueueTail ==
    ASSUME NEW q \in Seq(Cid), NEW at \in [Index -> Nat], Len(q) # 0
    PROVE  QueueOf(Tail(q), at) = Tail(QueueOf(q, at))
<1> DEFINE n == Len(q)  t == Tail(q)  f == QueueOf(q, at)
<1>1. /\ n \in Nat \ {0} /\ t \in Seq(Cid) /\ Len(t) = n - 1
      /\ \A i \in 1 .. (n - 1) : t[i] = q[i + 1]
  <2>1. n \in Nat /\ q # <<>>
    BY LenProperties, EmptySeq
  <2> QED
    BY <2>1, HeadTailProperties
<1>2. /\ f \in Seq(FreeEntry) /\ Len(f) = n /\ f # <<>>
      /\ \A k \in 1 .. n : f[k] = [cid |-> q[k], at |-> at[q[k]]]
  BY QueueType
<1>3. /\ Tail(f) \in Seq(FreeEntry) /\ Len(Tail(f)) = n - 1
      /\ \A i \in 1 .. (n - 1) : Tail(f)[i] = f[i + 1]
  BY <1>2, HeadTailProperties
<1>4. /\ QueueOf(t, at) \in Seq(FreeEntry) /\ Len(QueueOf(t, at)) = n - 1
      /\ \A k \in 1 .. (n - 1) : QueueOf(t, at)[k] = [cid |-> t[k], at |-> at[t[k]]]
  <2> HIDE DEF t
  <2> QED
    BY <1>1, QueueType
<1> HIDE DEF n, t, f
<1>5. ASSUME NEW i \in 1 .. (n - 1) PROVE QueueOf(t, at)[i] = Tail(f)[i]
  <2>1. i + 1 \in 1 .. n
    BY <1>1
  <2>2. Tail(f)[i] = [cid |-> q[i + 1], at |-> at[q[i + 1]]]
    BY <1>2, <1>3, <2>1
  <2> QED
    BY <1>1, <1>4, <2>2
<1>6. QueueOf(t, at) = Tail(f)
  BY <1>3, <1>4, <1>5, SeqEqual
<1> QED
  BY <1>6 DEF t, f

LEMMA QueueAppend ==
    ASSUME NEW q \in Seq(Cid), NEW at \in [Index -> Nat], NEW aw \in [Index -> Nat],
           NEW c \in Cid, \A i \in 1 .. Len(q) : aw[q[i]] = at[q[i]]
    PROVE  QueueOf(Append(q, c), aw) = Append(QueueOf(q, at), [cid |-> c, at |-> aw[c]])
<1> DEFINE n == Len(q)  t == Append(q, c)  f == QueueOf(q, at)  e == [cid |-> c, at |-> aw[c]]
<1>1. /\ n \in Nat /\ t \in Seq(Cid) /\ Len(t) = n + 1
      /\ \A i \in 1 .. n : t[i] = q[i]
      /\ t[n + 1] = c
  BY LenProperties, AppendProperties
<1>2. /\ f \in Seq(FreeEntry) /\ Len(f) = n
      /\ \A k \in 1 .. n : f[k] = [cid |-> q[k], at |-> at[q[k]]]
  BY QueueType
<1>3. e \in FreeEntry
  BY DEF FreeEntry, Cid, Index
<1>4. /\ Append(f, e) \in Seq(FreeEntry) /\ Len(Append(f, e)) = n + 1
      /\ \A i \in 1 .. n : Append(f, e)[i] = f[i]
      /\ Append(f, e)[n + 1] = e
  <2> HIDE DEF f, e
  <2> QED
    BY <1>2, <1>3, AppendProperties
<1>5. /\ QueueOf(t, aw) \in Seq(FreeEntry) /\ Len(QueueOf(t, aw)) = n + 1
      /\ \A k \in 1 .. (n + 1) : QueueOf(t, aw)[k] = [cid |-> t[k], at |-> aw[t[k]]]
  <2> HIDE DEF t
  <2> QED
    BY <1>1, QueueType
<1>6. \A i \in 1 .. n : aw[q[i]] = at[q[i]]
  OBVIOUS
<1>7. e = [cid |-> c, at |-> aw[c]]
  OBVIOUS
<1> HIDE DEF n, t, f, e
<1>8. ASSUME NEW i \in 1 .. (n + 1) PROVE QueueOf(t, aw)[i] = Append(f, e)[i]
  <2>1. CASE i = n + 1
    BY <1>1, <1>4, <1>5, <1>7, <2>1
  <2>2. CASE i # n + 1
    <3>1. i \in 1 .. n
      BY <1>1, <2>2
    <3> QED
      BY <1>1, <1>2, <1>4, <1>5, <1>6, <3>1
  <2> QED
    BY <2>1, <2>2
<1>9. QueueOf(t, aw) = Append(f, e)
  BY <1>4, <1>5, <1>8, SeqEqual
<1> QED
  BY <1>9 DEF t, f, e

-----------------------------------------------------------------------------
(***************************************************************************)
(* The nodes of the free ring are in the vector, and are not heads.        *)
(***************************************************************************)
LEMMA FreeNodesInTable ==
    ASSUME TypeOK
    PROVE  /\ size \in 2 .. MaxSize /\ size \in Nat /\ MaxSize \in Nat
           /\ FreeNodes \subseteq Cid
           /\ \A c \in FreeNodes : /\ c \in 0 .. (size - 1) /\ c \in Index
                                   /\ c # 0 /\ c # 1 /\ c # size
                                   /\ c \in FreeSet
           /\ 0 \in FreeSet /\ 1 \notin FreeSet
           /\ 0 .. (size - 1) \subseteq Index
           /\ \A c \in Cid : /\ c \in Nat /\ c \in Index /\ c # 0
                             /\ c \in FreeNodes <=> (c < size /\ ~ is_used[c])
                             /\ c \in UsedNodes <=> (c < size /\ is_used[c])
<1>1. size \in 2 .. MaxSize /\ size \in Nat /\ MaxSize \in Nat
  BY ListAssumption DEF TypeOK
<1> QED
  BY <1>1 DEF FreeNodes, UsedNodes, Cid, Index, FreeSet, InFreeRing, free_head

LEMMA FreeNodesInTableNext ==
    ASSUME TypeOK'
    PROVE  \A c \in Cid : /\ c \in FreeNodes' <=> (c < size' /\ ~ is_used'[c])
                          /\ c \in UsedNodes' <=> (c < size' /\ is_used'[c])
  BY DEF FreeNodes, UsedNodes

(***************************************************************************)
(* The free list is empty exactly when there is no free node, and its last *)
(* node is the predecessor of its head.                                    *)
(***************************************************************************)
LEMMA OrderEnds ==
    ASSUME IInv, NEW q, RingOrder(q, next, FreeNodes)
    PROVE  /\ q \in Seq(Cid) /\ Len(q) \in Nat
           /\ FreeListEmpty <=> Len(q) = 0
           /\ Len(q) # 0 => next[0] = q[1] /\ q[1] \in FreeNodes
           /\ prev[0] = LastNode(q)
<1> USE DEF free_head
<1>1. TypeOK /\ Rings(prev, next, FreeSet, size)
  BY RingsLinkedIsRings DEF IInv
<1>2. q \in Seq(Cid) /\ Len(q) \in Nat
  BY LenProperties DEF RingOrder
<1>3. \A i \in 1 .. Len(q) : q[i] \in FreeNodes /\ next[q[i]] = (IF i = Len(q) THEN 0 ELSE q[i + 1])
  BY DEF RingOrder
<1>4. next[0] = (IF Len(q) = 0 THEN 0 ELSE q[1])
  BY DEF RingOrder
<1>5. Len(q) # 0 => 1 \in 1 .. Len(q) /\ Len(q) \in 1 .. Len(q)
  BY <1>2
<1>6. \A i \in 0 .. (size - 1) : prev[next[i]] = i
  BY <1>1 DEF Rings
<1>7. 0 \in 0 .. (size - 1)
  BY <1>1, FreeNodesInTable
<1>8. CASE Len(q) = 0
  <2>1. next[0] = 0 /\ prev[0] = 0
    BY <1>4, <1>6, <1>7, <1>8
  <2> QED
    BY <1>2, <1>8, <2>1 DEF FreeListEmpty, LastNode
<1>9. CASE Len(q) # 0
  <2>1. /\ q[1] \in FreeNodes /\ q[Len(q)] \in FreeNodes
        /\ next[q[Len(q)]] = 0 /\ next[0] = q[1]
    BY <1>3, <1>4, <1>5, <1>9
  <2>2. prev[0] = q[Len(q)]
    BY <1>1, <1>6, <2>1, FreeNodesInTable
  <2>3. q[1] # 0
    BY <1>1, <2>1, FreeNodesInTable
  <2> QED
    BY <1>2, <1>9, <2>1, <2>2, <2>3 DEF FreeListEmpty, LastNode
<1> QED
  BY <1>8, <1>9

(***************************************************************************)
(* What the operations of the lists do to the order of the free ring.      *)
(***************************************************************************)
LEMMA OrderUnchanged ==
    ASSUME NEW q, NEW nx, NEW nw, NEW F, RingOrder(q, nx, F),
           \A c \in F \cup {0} : nw[c] = nx[c]
    PROVE  RingOrder(q, nw, F)
<1>1. \A i \in 1 .. Len(q) : q[i] \in F
  BY DEF RingOrder
<1>2. \A i \in 1 .. Len(q) : nw[q[i]] = nx[q[i]]
  BY <1>1
<1> QED
  BY <1>2, Zenon DEF RingOrder

LEMMA RecordNewOrder ==
    ASSUME IInv, NEW q, RingOrder(q, next, FreeNodes), NEW p \in Svc, RecordNew(p)
    PROVE  /\ size \in Cid /\ size \notin UsedNodes
           /\ FreeNodes' = FreeNodes
           /\ UsedNodes' = UsedNodes \cup {size}
           /\ RingOrder(q, next', FreeNodes')
<1>1. TypeOK /\ TypeOK'
  BY RecordNewKeeps DEF IInv
<1>2. size \in Cid /\ size \in Index /\ size \in Nat /\ size # 0 /\ size # 1
  BY <1>1, FreeNodesInTable DEF Cid, Index, RecordNew
<1>3. size' = size + 1 /\ is_used' = [is_used EXCEPT ![size] = TRUE]
  BY DEF RecordNew
<1>4. \A c \in Cid : is_used'[c] = (IF c = size THEN TRUE ELSE is_used[c])
  BY <1>1, <1>2, <1>3, FreeNodesInTable DEF TypeOK
<1>5. \A c \in Cid : /\ (c < size' /\ ~ is_used'[c]) <=> (c < size /\ ~ is_used[c])
                     /\ (c < size' /\ is_used'[c]) <=> ((c < size /\ is_used[c]) \/ c = size)
  <2>1. \A c \in Cid : c \in Int /\ (c < size + 1 <=> (c < size \/ c = size))
    BY <1>2 DEF Cid
  <2>2. ~ (size < size)
    BY <1>2
  <2> QED
    BY <1>3, <1>4, <2>1, <2>2
<1>6. \A c \in Cid : /\ c \in FreeNodes' <=> c \in FreeNodes
                     /\ c \in UsedNodes' <=> (c \in UsedNodes \/ c = size)
  BY <1>1, <1>5, FreeNodesInTable, FreeNodesInTableNext
<1>7. /\ FreeNodes \subseteq Cid /\ FreeNodes' \subseteq Cid
      /\ UsedNodes \subseteq Cid /\ UsedNodes' \subseteq Cid
  BY DEF FreeNodes, UsedNodes, Cid
<1>8. FreeNodes' = FreeNodes /\ UsedNodes' = UsedNodes \cup {size}
  BY <1>2, <1>6, <1>7
<1>9. \A c \in FreeNodes \cup {0} : c \in Index /\ c # 1 /\ c # size
  BY <1>1, <1>2, FreeNodesInTable
<1>10. \A c \in FreeNodes \cup {0} : next'[c] = next[c]
  BY <1>1, <1>9 DEF RecordNew, TypeOK, used_head
<1>11. RingOrder(q, next', FreeNodes)
  BY <1>10, OrderUnchanged
<1>12. size \notin UsedNodes
  BY <1>2 DEF UsedNodes
<1> QED
  BY <1>2, <1>8, <1>11, <1>12

LEMMA RecordReuseOrder ==
    ASSUME IInv, NEW q, RingOrder(q, next, FreeNodes), NEW p \in Svc, RecordReuse(p)
    PROVE  /\ Len(q) # 0 /\ next[0] = q[1] /\ q[1] \in FreeNodes
           /\ UsedNodes' = UsedNodes \cup {q[1]}
           /\ RingOrder(Tail(q), next', FreeNodes')
<1> USE DEF free_head, used_head
<1> DEFINE f == q[1]
<1>1. TypeOK /\ TypeOK' /\ Rings(prev, next, FreeSet, size)
  BY RecordReuseKeeps, RingsLinkedIsRings DEF IInv
<1>2. Len(q) # 0 /\ next[0] = f /\ f \in FreeNodes /\ q \in Seq(Cid) /\ Len(q) \in Nat
  BY OrderEnds DEF RecordReuse
<1> HIDE DEF f
<1>3. f \in Cid /\ f \in Index /\ f \in 0 .. (size - 1) /\ f # 0 /\ f # 1
  BY <1>1, <1>2, FreeNodesInTable
<1>4. /\ size' = size /\ is_used' = [is_used EXCEPT ![f] = TRUE]
      /\ next' = [next EXCEPT ![0] = next[f], ![f] = next[1], ![1] = f]
  BY <1>2 DEF RecordReuse
<1>5. \A c \in Cid : is_used'[c] = (IF c = f THEN TRUE ELSE is_used[c])
  BY <1>1, <1>3, <1>4, FreeNodesInTable DEF TypeOK
<1>6. \A c \in Cid : /\ c \in FreeNodes' <=> (c \in FreeNodes /\ c # f)
                     /\ c \in UsedNodes' <=> (c \in UsedNodes \/ c = f)
  <2>1. \A c \in Cid : /\ c \in FreeNodes <=> (c < size /\ ~ is_used[c])
                       /\ c \in UsedNodes <=> (c < size /\ is_used[c])
    BY <1>1, FreeNodesInTable
  <2>2. \A c \in Cid : /\ c \in FreeNodes' <=> (c < size /\ ~ is_used'[c])
                       /\ c \in UsedNodes' <=> (c < size /\ is_used'[c])
    BY <1>1, <1>4, FreeNodesInTableNext
  <2>3. f < size
    BY <1>2, <1>3, <2>1
  <2> QED
    BY <1>5, <2>1, <2>2, <2>3
<1>7. /\ FreeNodes \subseteq Cid /\ FreeNodes' \subseteq Cid
      /\ UsedNodes \subseteq Cid /\ UsedNodes' \subseteq Cid
  BY DEF FreeNodes, UsedNodes, Cid
<1>8. FreeNodes' = FreeNodes \ {f} /\ UsedNodes' = UsedNodes \cup {f}
  BY <1>3, <1>6, <1>7
<1>9. next'[0] = next[f]
  BY <1>1, <1>3, <1>4, FreeNodesInTable DEF TypeOK
<1>10. \A c \in FreeNodes \ {f} : next'[c] = next[c]
  BY <1>1, <1>3, <1>4, FreeNodesInTable DEF TypeOK
<1>11. RingOrder(Tail(q), next', FreeNodes \ {f})
  BY <1>2, <1>9, <1>10, OrderTail DEF f
<1> QED
  BY <1>2, <1>8, <1>11 DEF f

LEMMA EraseOrder ==
    ASSUME IInv, NEW q, RingOrder(q, next, FreeNodes), NEW c \in Cid, Erase(c)
    PROVE  /\ c \in UsedNodes /\ c \notin FreeNodes
           /\ UsedNodes' = UsedNodes \ {c}
           /\ RingOrder(Append(q, c), next', FreeNodes')
<1> USE DEF free_head, used_head
<1> DEFINE l == prev[0]  b == prev[c]
<1>1. TypeOK /\ TypeOK' /\ Rings(prev, next, FreeSet, size)
  BY EraseKeeps, RingsLinkedIsRings DEF IInv
<1>2. l = LastNode(q) /\ q \in Seq(Cid) /\ Len(q) \in Nat
  BY OrderEnds
<1>3. /\ c < size /\ is_used[c] /\ c \in UsedNodes /\ c \notin FreeNodes
      /\ c \in Index /\ c \in 0 .. (size - 1) /\ c \notin FreeSet
  <2>1. c < size /\ is_used[c]
    BY DEF Erase, validate_cid
  <2> QED
    BY <1>1, <2>1, FreeNodesInTable DEF FreeSet, InFreeRing, Cid
<1>4. l \in 0 .. (size - 1) /\ l \in FreeSet /\ b \in 0 .. (size - 1) /\ b \notin FreeSet
  BY <1>1, <1>3, FreeNodesInTable DEF Rings
<1> HIDE DEF l, b
<1>5. /\ size' = size /\ is_used' = [is_used EXCEPT ![c] = FALSE]
      /\ next' = [next EXCEPT ![b] = next[c], ![c] = 0, ![l] = c]
  BY DEF Erase, l, b
<1>6. \A d \in Cid : is_used'[d] = (IF d = c THEN FALSE ELSE is_used[d])
  BY <1>1, <1>3, <1>5, FreeNodesInTable DEF TypeOK
<1>7. \A d \in Cid : /\ d \in FreeNodes' <=> (d \in FreeNodes \/ d = c)
                     /\ d \in UsedNodes' <=> (d \in UsedNodes /\ d # c)
  BY <1>1, <1>3, <1>5, <1>6, FreeNodesInTable, FreeNodesInTableNext
<1>8. /\ FreeNodes \subseteq Cid /\ FreeNodes' \subseteq Cid
      /\ UsedNodes \subseteq Cid /\ UsedNodes' \subseteq Cid
  BY DEF FreeNodes, UsedNodes, Cid
<1>9. FreeNodes' = FreeNodes \cup {c} /\ UsedNodes' = UsedNodes \ {c}
  BY <1>7, <1>8
<1>10. l \in Index /\ b \in Index /\ l # c
  BY <1>1, <1>3, <1>4, FreeNodesInTable
<1>11. next'[c] = 0 /\ next'[l] = c
  BY <1>1, <1>3, <1>5, <1>10 DEF TypeOK
<1>12. \A d \in FreeNodes \cup {0} : d \in Index /\ d # b /\ d # c
  <2>1. \A d \in FreeNodes \cup {0} : d \in FreeSet /\ d \in Index
    <3>1. 0 \in FreeSet /\ 0 \in Index
      BY <1>1, FreeNodesInTable
    <3> QED
      BY <1>1, <3>1, FreeNodesInTable
  <2> QED
    BY <1>3, <1>4, <2>1
<1>13. \A d \in FreeNodes \cup {0} : d # LastNode(q) => next'[d] = next[d]
  <2>1. next \in [Index -> Index \cup {null_ptr}]
    BY <1>1 DEF TypeOK
  <2> QED
    BY <1>2, <1>5, <1>12, <2>1
<1>14. RingOrder(Append(q, c), next', FreeNodes \cup {c})
  <2>1. next'[LastNode(q)] = c
    BY <1>2, <1>11
  <2> QED
    BY <1>3, <1>8, <1>11, <1>13, <2>1, OrderAppend
<1> QED
  BY <1>3, <1>9, <1>14

-----------------------------------------------------------------------------
(***************************************************************************)
(* The refinement.  A node of the used ring holds the connection that was  *)
(* recorded, and the free ring has an order; FreeQueue is read off it.     *)
(***************************************************************************)
UsedHaveOwner == \A c \in UsedNodes : node[c] \in Svc

RInv == IInv /\ UsedHaveOwner /\ \E q : RingOrder(q, next, FreeNodes)

LEMMA QueueIsOrder ==
    \A q : RingOrder(q, next, FreeNodes) => FreeQueue = QueueOf(q, erase_timestamp)
  BY WalkMeetsOrder DEF FreeQueue, QueueOf

LEMMA QueueIsOrderNext ==
    \A q : RingOrder(q, next', FreeNodes') => FreeQueue' = QueueOf(q, erase_timestamp')
<1>1. (\A q : RingOrder(q, next, FreeNodes) => FreeQueue = QueueOf(q, erase_timestamp))'
  BY QueueIsOrder, PTL
<1> QED
  BY <1>1 DEF RingOrder, QueueOf

(***************************************************************************)
(* record_svc tests the links and the first node's stamp; the allocator    *)
(* tests its queue.                                                        *)
(***************************************************************************)
LEMMA SameTest ==
    ASSUME IInv, NEW q, RingOrder(q, next, FreeNodes)
    PROVE  /\ Allocator!Reusable <=> (~ FreeListEmpty /\ FirstFreeCooled)
           /\ Len(q) # 0 => Head(FreeQueue).cid = q[1]
<1> DEFINE f == QueueOf(q, erase_timestamp)
<1>1. FreeQueue = f
  BY QueueIsOrder
<1>2. erase_timestamp \in [Index -> Nat]
  BY DEF IInv, TypeOK
<1>3. /\ q \in Seq(Cid) /\ Len(q) \in Nat
      /\ FreeListEmpty <=> Len(q) = 0
      /\ Len(q) # 0 => next[0] = q[1]
  BY OrderEnds
<1>4. /\ f \in Seq(FreeEntry) /\ Len(f) = Len(q) /\ (f = <<>> <=> Len(q) = 0)
      /\ \A k \in 1 .. Len(q) : f[k] = [cid |-> q[k], at |-> erase_timestamp[q[k]]]
  BY <1>2, <1>3, QueueType
<1> HIDE DEF f
<1>5. ASSUME Len(q) # 0
      PROVE  Head(f) = [cid |-> q[1], at |-> erase_timestamp[q[1]]]
  <2>1. 1 \in 1 .. Len(q)
    BY <1>3, <1>5
  <2>2. Head(f) = f[1]
    BY <1>4, <1>5
  <2> QED
    BY <1>4, <2>1, <2>2
<1>6. Len(q) # 0 => (Allocator!Cooled(Head(f)) <=> FirstFreeCooled)
  BY <1>3, <1>5 DEF Allocator!Cooled, FirstFreeCooled, free_head
<1>7. Allocator!Reusable <=> (f # <<>> /\ Allocator!Cooled(Head(f)))
  BY <1>1 DEF Allocator!Reusable
<1> QED
  BY <1>1, <1>3, <1>4, <1>5, <1>6, <1>7

(***************************************************************************)
(* Each operation of the lists is that operation of the allocator.         *)
(***************************************************************************)
LEMMA RecordNewRefines ==
    ASSUME RInv, NEW p \in Svc, RecordNew(p)
    PROVE  RInv' /\ Allocator!RecordNew(p)
<1>1. IInv /\ IInv' /\ UsedHaveOwner
  BY RecordNewKeeps DEF RInv
<1>2. PICK q : RingOrder(q, next, FreeNodes)
  BY DEF RInv
<1>3. /\ size \in Cid /\ size \notin UsedNodes
      /\ UsedNodes' = UsedNodes \cup {size}
      /\ RingOrder(q, next', FreeNodes')
  BY <1>1, <1>2, RecordNewOrder
<1>4. /\ node' = [node EXCEPT ![size] = p] /\ size' = size + 1 /\ size < MaxSize
      /\ erase_timestamp' = erase_timestamp /\ now' = now
      /\ FreeListEmpty \/ ~ FirstFreeCooled
  BY DEF RecordNew
<1>5. \A c \in Cid : node'[c] = (IF c = size THEN p ELSE node[c])
  BY <1>1, <1>4 DEF IInv, TypeOK, Cid, Index
<1>6. UsedNodes \subseteq Cid
  BY DEF UsedNodes
<1>7. UsedHaveOwner'
  BY <1>1, <1>3, <1>5, <1>6 DEF UsedHaveOwner
<1>8. UsedOwner' = [UsedOwner EXCEPT ![size] = p]
  BY <1>3, <1>5 DEF UsedOwner, Cid
<1>9. FreeQueue' = FreeQueue
  BY <1>2, <1>3, <1>4, QueueIsOrder, QueueIsOrderNext
<1>10. ~ Allocator!Reusable
  BY <1>1, <1>2, <1>4, SameTest
<1>11. Allocator!RecordNew(p)
  BY <1>4, <1>8, <1>9, <1>10 DEF Allocator!RecordNew
<1> QED
  BY <1>1, <1>3, <1>7, <1>11 DEF RInv

LEMMA RecordReuseRefines ==
    ASSUME RInv, NEW p \in Svc, RecordReuse(p)
    PROVE  RInv' /\ Allocator!RecordReuse(p)
<1>1. IInv /\ IInv' /\ UsedHaveOwner
  BY RecordReuseKeeps DEF RInv
<1>2. PICK q : RingOrder(q, next, FreeNodes)
  BY DEF RInv
<1> DEFINE f == q[1]
<1>3. /\ q \in Seq(Cid) /\ Len(q) # 0 /\ next[0] = f /\ f \in FreeNodes /\ f \in Cid
      /\ UsedNodes' = UsedNodes \cup {f}
      /\ RingOrder(Tail(q), next', FreeNodes')
  <2>1. Len(q) # 0 /\ next[0] = f /\ f \in FreeNodes /\ UsedNodes' = UsedNodes \cup {f}
        /\ RingOrder(Tail(q), next', FreeNodes')
    BY <1>1, <1>2, RecordReuseOrder
  <2> QED
    BY <1>2, <2>1 DEF RingOrder, FreeNodes
<1> HIDE DEF f
<1>4. /\ node' = [node EXCEPT ![f] = p] /\ size' = size
      /\ erase_timestamp' = erase_timestamp /\ now' = now
      /\ ~ FreeListEmpty /\ FirstFreeCooled
  BY <1>3 DEF RecordReuse, free_head
<1>5. \A c \in Cid : node'[c] = (IF c = f THEN p ELSE node[c])
  BY <1>1, <1>4 DEF IInv, TypeOK, Cid, Index
<1>6. UsedNodes \subseteq Cid
  BY DEF UsedNodes
<1>7. UsedHaveOwner'
  BY <1>1, <1>3, <1>5, <1>6 DEF UsedHaveOwner
<1>8. UsedOwner' = [UsedOwner EXCEPT ![f] = p]
  BY <1>3, <1>5 DEF UsedOwner, Cid
<1>9. FreeQueue' = Tail(FreeQueue)
  <2>1. erase_timestamp \in [Index -> Nat]
    BY <1>1 DEF IInv, TypeOK
  <2>2. FreeQueue' = QueueOf(Tail(q), erase_timestamp)
    BY <1>3, <1>4, QueueIsOrderNext
  <2> QED
    BY <1>2, <1>3, <2>1, <2>2, QueueIsOrder, QueueTail
<1>10. Allocator!Reusable /\ Head(FreeQueue).cid = f
  BY <1>1, <1>2, <1>3, <1>4, SameTest DEF f
<1>11. Allocator!RecordReuse(p)
  BY <1>4, <1>8, <1>9, <1>10 DEF Allocator!RecordReuse
<1> QED
  BY <1>1, <1>3, <1>7, <1>11 DEF RInv

LEMMA EraseRefines ==
    ASSUME RInv, NEW c \in Cid, Erase(c)
    PROVE  RInv' /\ Allocator!Erase(c)
<1>1. IInv /\ IInv' /\ UsedHaveOwner
  BY EraseKeeps DEF RInv
<1>2. PICK q : RingOrder(q, next, FreeNodes)
  BY DEF RInv
<1>3. /\ c \in UsedNodes /\ c \notin FreeNodes /\ UsedNodes' = UsedNodes \ {c}
      /\ RingOrder(Append(q, c), next', FreeNodes')
  BY <1>1, <1>2, EraseOrder
<1>4. /\ erase_timestamp' = [erase_timestamp EXCEPT ![c] = now]
      /\ node' = node /\ size' = size /\ now' = now
  BY DEF Erase
<1>5. /\ erase_timestamp \in [Index -> Nat] /\ erase_timestamp' \in [Index -> Nat]
      /\ c \in Index
  BY <1>1 DEF IInv, TypeOK, Cid, Index
<1>6. UsedHaveOwner'
  BY <1>1, <1>3, <1>4 DEF UsedHaveOwner
<1>7. UsedOwner[c] # NoSvc
  BY <1>1, <1>3, ListAssumption DEF UsedOwner, UsedHaveOwner
<1>8. UsedOwner' = [UsedOwner EXCEPT ![c] = NoSvc]
  BY <1>3, <1>4 DEF UsedOwner, Cid
<1>9. FreeQueue' = Append(FreeQueue, [cid |-> c, at |-> now])
  <2>1. q \in Seq(Cid) /\ \A i \in 1 .. Len(q) : q[i] \in FreeNodes
    BY <1>2 DEF RingOrder
  <2>2. \A i \in 1 .. Len(q) : q[i] \in Index /\ q[i] # c
    BY <1>3, <2>1 DEF FreeNodes, Cid, Index
  <2>3. \A i \in 1 .. Len(q) : erase_timestamp'[q[i]] = erase_timestamp[q[i]]
    BY <1>4, <1>5, <2>2
  <2>4. QueueOf(Append(q, c), erase_timestamp') =
          Append(QueueOf(q, erase_timestamp), [cid |-> c, at |-> erase_timestamp'[c]])
    BY <1>5, <2>1, <2>3, QueueAppend
  <2>5. erase_timestamp'[c] = now
    BY <1>4, <1>5
  <2>6. FreeQueue' = QueueOf(Append(q, c), erase_timestamp')
    BY <1>3, QueueIsOrderNext
  <2>7. FreeQueue = QueueOf(q, erase_timestamp)
    BY <1>2, QueueIsOrder
  <2> QED
    BY <2>4, <2>5, <2>6, <2>7
<1>10. Allocator!Erase(c)
  BY <1>4, <1>7, <1>8, <1>9 DEF Allocator!Erase
<1> QED
  BY <1>1, <1>3, <1>6, <1>10 DEF RInv

(***************************************************************************)
(* The clock, and steps that change nothing.                               *)
(***************************************************************************)
LEMMA UnchangedRefines ==
    ASSUME RInv, UNCHANGED <<prev, next, erase_timestamp, is_used, node, size>>,
           now' = now \/ Tick
    PROVE  RInv' /\ UNCHANGED <<UsedOwner, FreeQueue, size>>
<1>1. IInv'
  BY DEF RInv, IInv, TypeOK, RingsLinked, InFreeRing, Tick
<1>2. UsedNodes' = UsedNodes /\ FreeNodes' = FreeNodes
  BY DEF UsedNodes, FreeNodes
<1>3. UsedHaveOwner' /\ UsedOwner' = UsedOwner
  BY <1>2 DEF RInv, UsedHaveOwner, UsedOwner
<1>4. PICK q : RingOrder(q, next, FreeNodes)
  BY DEF RInv
<1>5. RingOrder(q, next', FreeNodes')
  BY <1>2, <1>4
<1>6. FreeQueue' = FreeQueue
  BY <1>4, <1>5, QueueIsOrder, QueueIsOrderNext
<1> QED
  BY <1>1, <1>3, <1>5, <1>6 DEF RInv

LEMMA InitRefines == Init => RInv /\ Allocator!Init
<1> SUFFICES ASSUME Init PROVE RInv /\ Allocator!Init
  OBVIOUS
<1>1. IInv
  BY InitRings
<1>2. FreeNodes = {} /\ UsedNodes = {}
  <2>1. \A c \in Cid : ~ (c < size)
    BY DEF Init, Cid
  <2> QED
    BY <2>1 DEF FreeNodes, UsedNodes
<1>3. UsedHaveOwner
  BY <1>2 DEF UsedHaveOwner
<1>4. next[0] = 0
  BY ListAssumption DEF Init, Index
<1>5. <<>> \in Seq(Cid) /\ Len(<<>>) = 0
  BY EmptySeq
<1>6. RingOrder(<<>>, next, FreeNodes)
  BY <1>2, <1>4, <1>5 DEF RingOrder
<1>7. FreeQueue = <<>>
  <2>1. FreeQueue = QueueOf(<<>>, erase_timestamp)
    BY <1>6, QueueIsOrder
  <2>2. erase_timestamp \in [Index -> Nat]
    BY <1>1 DEF IInv, TypeOK
  <2> QED
    BY <1>5, <2>1, <2>2, QueueType
<1>8. UsedOwner = [c \in Cid |-> NoSvc]
  BY <1>2 DEF UsedOwner
<1>9. Allocator!Init
  BY <1>7, <1>8 DEF Init, Allocator!Init, Cid, Allocator!Cid
<1> QED
  BY <1>1, <1>3, <1>6, <1>9 DEF RInv

(***************************************************************************)
(* The linked lists of Svc_Static_List implement the cid allocator: every  *)
(* record_svc and erase_svc, through whatever sequence of calls the rings  *)
(* came about, hands out and takes back the cid that the first-in          *)
(* first-out queue says, for a table of any size.                          *)
(***************************************************************************)
THEOREM ListsImplementAllocator == Spec => ImplementsAllocator
<1>1. RInv /\ [Next]_vars => RInv' /\ [Allocator!Next]_(Allocator!vars)
  <2> SUFFICES ASSUME RInv, [Next]_vars
               PROVE  RInv' /\ [Allocator!Next]_(Allocator!vars)
    OBVIOUS
  <2>1. Allocator!Cid = Cid
    BY DEF Allocator!Cid, Cid
  <2>2. ASSUME NEW p \in Svc, RecordNew(p)
        PROVE  RInv' /\ Allocator!Next
    BY <2>2, RecordNewRefines DEF Allocator!Next
  <2>3. ASSUME NEW p \in Svc, RecordReuse(p)
        PROVE  RInv' /\ Allocator!Next
    BY <2>3, RecordReuseRefines DEF Allocator!Next
  <2>4. ASSUME NEW c \in Cid, Erase(c)
        PROVE  RInv' /\ Allocator!Next
    BY <2>1, <2>4, EraseRefines DEF Allocator!Next
  <2>5. CASE Tick
    <3>1. RInv' /\ UNCHANGED <<UsedOwner, FreeQueue, size>>
      BY <2>5, UnchangedRefines DEF Tick
    <3> QED
      BY <2>5, <3>1 DEF Tick, Allocator!Tick, Allocator!Next
  <2>6. CASE UNCHANGED vars
    <3>1. RInv' /\ UNCHANGED <<UsedOwner, FreeQueue, size>>
      BY <2>6, UnchangedRefines DEF vars
    <3> QED
      BY <2>6, <3>1 DEF vars, Allocator!vars
  <2> QED
    BY <2>2, <2>3, <2>4, <2>5, <2>6 DEF Next
<1> QED
  BY <1>1, InitRefines, PTL DEF Spec, ImplementsAllocator, Allocator!Spec
=============================================================================
