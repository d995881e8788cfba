-------------------------- MODULE BlockCacheProofs --------------------------
(***************************************************************************)
(* Proofs about BlockCache, for every finite set of hashes, every set of   *)
(* blocks, every length and every bound, zero included.                    *)
(*                                                                         *)
(* The running total is compared with the cardinality of HeldBytes, the    *)
(* set of all held bytes, so "sum of the lengths" needs no recursion.      *)
(***************************************************************************)
EXTENDS BlockCacheStore, FiniteSetTheorems, SequenceTheorems, TLAPS

\* The bytes held by a map m: HeldBytes is BytesOf(blocks).
BytesOf(m) ==
  UNION {{h} \X (1 .. LenOf[m[h]]) : h \in {g \in Hashes : m[g] # NoBlock}}

Maps == [Hashes -> Blocks \cup {NoBlock}]

-----------------------------------------------------------------------------

\* One block's bytes: as many as its length.
LEMMA BlockBytes ==
  ASSUME NEW h, NEW n \in Nat
  PROVE  IsFiniteSet({h} \X (1 .. n)) /\ Cardinality({h} \X (1 .. n)) = n
<1>1. IsFiniteSet({h}) /\ Cardinality({h}) = 1
  BY FS_Singleton
<1>2. IsFiniteSet(1 .. n) /\ Cardinality(1 .. n) = n
  BY FS_Interval
<1>3. IsFiniteSet({h} \X (1 .. n))
      /\ Cardinality({h} \X (1 .. n)) = Cardinality({h}) * Cardinality(1 .. n)
  BY <1>1, <1>2, FS_Product, Zenon
<1>4. 1 * n = n
  OBVIOUS
<1> QED
  BY <1>1, <1>2, <1>3, <1>4

\* A map over finitely many hashes holds finitely many bytes.
LEMMA BytesFinite ==
  ASSUME NEW m \in Maps
  PROVE  IsFiniteSet(BytesOf(m))
<1> DEFINE H == {g \in Hashes : m[g] # NoBlock}
           B(h) == {h} \X (1 .. LenOf[m[h]])
           S == {B(h) : h \in H}
<1>1. IsFiniteSet(H)
  BY CacheAssumption, FS_Subset
<1>2. IsFiniteSet(S)
  <2> DEFINE f == [h \in H |-> B(h)]
  <2>1. f \in Surjection(H, S)
    BY DEF Surjection
  <2> QED
    BY <1>1, <2>1, FS_Surjection, Zenon
<1>3. \A h \in H : IsFiniteSet(B(h))
  BY CacheAssumption, BlockBytes DEF Maps
<1>4. \A s \in S : IsFiniteSet(s)
  BY <1>3
<1> HIDE DEF S
<1>5. IsFiniteSet(UNION S)
  BY <1>2, <1>4, FS_UNION
<1> QED
  BY <1>5 DEF S, BytesOf

\* A block stored for a new hash adds exactly its length.
LEMMA BytesAdded ==
  ASSUME NEW m \in Maps, NEW h \in Hashes, NEW b \in Blocks, m[h] = NoBlock
  PROVE  Cardinality(BytesOf([m EXCEPT ![h] = b]))
            = Cardinality(BytesOf(m)) + LenOf[b]
<1> DEFINE New == {h} \X (1 .. LenOf[b])
           n == [m EXCEPT ![h] = b]
<1>1. LenOf[b] \in Nat
  BY CacheAssumption
<1>2. IsFiniteSet(New) /\ Cardinality(New) = LenOf[b]
  BY <1>1, BlockBytes
<1>3. IsFiniteSet(BytesOf(m)) /\ Cardinality(BytesOf(m)) \in Nat
  BY BytesFinite, FS_CardinalityType
<1>4. BytesOf(m) \cap New = {}
  BY DEF BytesOf
<1>5. BytesOf(n) = BytesOf(m) \cup New
  <2>1. {g \in Hashes : n[g] # NoBlock} = {g \in Hashes : m[g] # NoBlock} \cup {h}
    BY CacheAssumption DEF Maps
  <2>2. n[h] = b /\ \A g \in Hashes \ {h} : n[g] = m[g]
    BY DEF Maps
  <2>3. ASSUME NEW e PROVE e \in BytesOf(n) <=> e \in BytesOf(m) \cup New
    <3>1. e \in BytesOf(n) <=>
            \E g \in {g \in Hashes : n[g] # NoBlock} : e \in {g} \X (1 .. LenOf[n[g]])
      BY DEF BytesOf
    <3>2. e \in BytesOf(m) <=>
            \E g \in {g \in Hashes : m[g] # NoBlock} : e \in {g} \X (1 .. LenOf[m[g]])
      BY DEF BytesOf
    <3> QED
      BY <2>1, <2>2, <3>1, <3>2
  <2> QED
    BY <2>3
<1>6. Cardinality({}) = 0
  BY FS_EmptySet
<1>7. Cardinality(BytesOf(m) \cup New) = Cardinality(BytesOf(m)) + Cardinality(New)
                                  - Cardinality(BytesOf(m) \cap New)
  BY <1>2, <1>3, FS_Union, Zenon
<1>8. Cardinality(BytesOf(m) \cap New) = 0
  BY <1>4, <1>6, Zenon
<1> HIDE DEF New, n
<1>9. Cardinality(BytesOf(m) \cup New) = Cardinality(BytesOf(m)) + LenOf[b]
  BY <1>1, <1>2, <1>3, <1>7, <1>8
<1>10. Cardinality(BytesOf(n)) = Cardinality(BytesOf(m)) + LenOf[b]
  BY <1>5, <1>9, Zenon
<1> QED
  BY <1>10 DEF n

\* A block removed takes away exactly its length.
LEMMA BytesRemoved ==
  ASSUME NEW m \in Maps, NEW h \in Hashes, m[h] # NoBlock
  PROVE  Cardinality(BytesOf([m EXCEPT ![h] = NoBlock]))
            = Cardinality(BytesOf(m)) - LenOf[m[h]]
<1> DEFINE n == [m EXCEPT ![h] = NoBlock]
<1>1. n \in Maps /\ n[h] = NoBlock /\ m[h] \in Blocks
  BY DEF Maps
<1>2. [n EXCEPT ![h] = m[h]] = m
  BY DEF Maps
<1>3. Cardinality(BytesOf(m)) = Cardinality(BytesOf(n)) + LenOf[m[h]]
  BY <1>1, <1>2, BytesAdded
<1>4. Cardinality(BytesOf(n)) \in Nat /\ Cardinality(BytesOf(m)) \in Nat
  BY <1>1, BytesFinite, FS_CardinalityType
<1>5. LenOf[m[h]] \in Nat
  BY <1>1, CacheAssumption
<1> QED
  BY <1>3, <1>4, <1>5

-----------------------------------------------------------------------------
(* The inductive invariant. *)

\* The mutex is held by an eviction loop exactly while the total is too large.
EvictingIffOver == evicting <=> bytes > MaxBytes

\* Nothing larger than the whole cache is ever held.
EachFits == \A h \in Held : LenOf[blocks[h]] <= MaxBytes

\* The queue is in order of use.
QueueInOrderOfUse ==
  \A i, j \in 1 .. Len(order) : i < j => <<order[i], order[j]>> \in usedAfter

IInv ==
  /\ TypeOK
  /\ Accounting
  /\ QueueMatchesMap
  /\ EvictingIffOver
  /\ EachFits
  /\ QueueInOrderOfUse

\* With nothing held there are no bytes.
LEMMA InitIInv == Init => IInv
<1> SUFFICES ASSUME Init PROVE IInv
  OBVIOUS
<1> USE CacheAssumption DEF Init
<1>1. Held = {}
  BY DEF Held
<1>2. TypeOK
  <2>1. blocks \in [Hashes -> Blocks \cup {NoBlock}]
    OBVIOUS
  <2>2. order \in Seq(Hashes) /\ bytes \in Nat /\ usedAfter \subseteq Hashes \X Hashes
    OBVIOUS
  <2>3. evicting \in BOOLEAN
    OBVIOUS
  <2> QED
    BY <2>1, <2>2, <2>3, Zenon DEF TypeOK
<1>3. Accounting
  <2>1. HeldBytes = {}
    BY <1>1 DEF HeldBytes
  <2>2. Cardinality({}) = 0
    BY FS_EmptySet
  <2> QED
    BY <2>1, <2>2 DEF Accounting
<1>4. QueueMatchesMap
  BY <1>1 DEF QueueMatchesMap, IsInjective, Range
<1>5. EvictingIffOver
  BY DEF EvictingIffOver
<1>6. EachFits
  BY <1>1 DEF EachFits
<1>7. QueueInOrderOfUse
  BY DEF QueueInOrderOfUse
<1> QED
  BY <1>2, <1>3, <1>4, <1>5, <1>6, <1>7 DEF IInv

\* The first n elements of f are all different.
Distinct(f, n) == \A i, j \in 1 .. n : f[i] = f[j] => i = j

\* r is q with its p-th element moved to the n-th and last place.
Rotation(q, p, n, r) ==
  \A i \in 1 .. n : r[i] = IF i < p THEN q[i] ELSE IF i < n THEN q[i+1] ELSE q[p]

\* In r the p-th element of q comes last and the others keep their order.
OrderKept(q, p, n, r) ==
  \A i, j \in 1 .. n : i < j =>
    /\ r[i] # q[p]
    /\ r[j] = q[p] \/ \E k, l \in 1 .. n : k < l /\ r[i] = q[k] /\ r[j] = q[l]

\* Moving an element to the end keeps the elements, each once, and the order of
\* the others.
LEMMA Rotated ==
  ASSUME NEW n \in Nat, NEW p \in 1 .. n, NEW q, NEW r,
         Distinct(q, n), Rotation(q, p, n, r)
  PROVE  /\ Distinct(r, n)
         /\ {r[i] : i \in 1 .. n} = {q[i] : i \in 1 .. n}
         /\ OrderKept(q, p, n, r)
<1> DEFINE from(i) == IF i < p THEN i ELSE IF i < n THEN i + 1 ELSE p
<1>1. \A i \in 1 .. n : from(i) \in 1 .. n /\ r[i] = q[from(i)]
  BY DEF Rotation
<1>2. \A i, j \in 1 .. n : from(i) = from(j) => i = j
  OBVIOUS
<1>3. \A i, j \in 1 .. n : i < j => from(i) # p /\ (from(j) = p \/ from(i) < from(j))
  OBVIOUS
<1>4. \A k \in 1 .. n : \E i \in 1 .. n : from(i) = k
  <2> TAKE k \in 1 .. n
  <2>1. CASE k < p
    BY <2>1
  <2>2. CASE k = p
    <3>1. from(n) = k /\ n \in 1 .. n
      BY <2>2
    <3> QED
      BY <3>1
  <2>3. CASE k > p
    <3>1. from(k-1) = k /\ k-1 \in 1 .. n
      BY <2>3
    <3> QED
      BY <3>1
  <2> QED
    BY <2>1, <2>2, <2>3
<1> HIDE DEF from
<1>5. Distinct(r, n)
  BY <1>1, <1>2 DEF Distinct
<1>6. {r[i] : i \in 1 .. n} = {q[i] : i \in 1 .. n}
  <2>1. {r[i] : i \in 1 .. n} \subseteq {q[i] : i \in 1 .. n}
    BY <1>1
  <2>2. ASSUME NEW k \in 1 .. n PROVE q[k] \in {r[i] : i \in 1 .. n}
    BY <1>1, <1>4
  <2> QED
    BY <2>1, <2>2
<1>7. OrderKept(q, p, n, r)
  <2> SUFFICES ASSUME NEW i \in 1 .. n, NEW j \in 1 .. n, i < j
               PROVE  /\ r[i] # q[p]
                      /\ r[j] = q[p] \/ \E k, l \in 1 .. n :
                                          k < l /\ r[i] = q[k] /\ r[j] = q[l]
    BY DEF OrderKept
  <2>1. from(i) # p /\ (from(j) = p \/ from(i) < from(j))
    BY <1>3
  <2>2. r[i] # q[p]
    BY <1>1, <2>1 DEF Distinct
  <2> QED
    BY <1>1, <2>1, <2>2
<1> QED
  BY <1>5, <1>6, <1>7

\* A sequence without its p-th element, element by element.
LEMMA RemovedAt ==
  ASSUME NEW S, NEW q \in Seq(S), NEW p \in 1 .. Len(q)
  PROVE  /\ RemoveAt(q, p) \in Seq(S)
         /\ Len(RemoveAt(q, p)) = Len(q) - 1
         /\ \A k \in 1 .. Len(q) - 1 :
              RemoveAt(q, p)[k] = IF k < p THEN q[k] ELSE q[k+1]
<1> DEFINE n == Len(q)
           front == SubSeq(q, 1, p-1)
           back == SubSeq(q, p+1, n)
<1>1. n \in Nat /\ p \in 1 .. n /\ \A k \in 1 .. n : q[k] \in S
  BY LenProperties, ElementOfSeq
<1>2. /\ front \in Seq(S) /\ Len(front) = p - 1
      /\ \A k \in 1 .. p-1 : front[k] = q[k]
  BY <1>1, SubSeqProperties
<1>3. /\ back \in Seq(S) /\ Len(back) = n - p
      /\ \A k \in 1 .. n - p : back[k] = q[p+k]
  BY <1>1, SubSeqProperties
<1>4. RemoveAt(q, p) = front \o back
  BY DEF RemoveAt
<1> HIDE DEF n, front, back
<1>5. /\ front \o back \in Seq(S)
      /\ Len(front \o back) = Len(front) + Len(back)
      /\ \A k \in 1 .. Len(front) + Len(back) :
            (front \o back)[k] = IF k <= Len(front) THEN front[k]
                                 ELSE back[k - Len(front)]
  BY <1>2, <1>3, ConcatProperties, Zenon
<1>6. (p - 1) + (n - p) = n - 1
  BY <1>1
<1>7. \A k \in 1 .. n - 1 :
         (front \o back)[k] = IF k <= p - 1 THEN front[k] ELSE back[k - (p - 1)]
  BY <1>2, <1>3, <1>5, <1>6, Zenon
<1>8. ASSUME NEW k \in 1 .. n - 1
      PROVE  (front \o back)[k] = IF k < p THEN q[k] ELSE q[k+1]
  <2>1. CASE k <= p - 1
    <3>1. (front \o back)[k] = front[k]
      BY <1>7, <2>1, Zenon
    <3>2. k \in 1 .. p-1 /\ k < p
      BY <1>1, <2>1
    <3> QED
      BY <1>2, <3>1, <3>2, Zenon
  <2>2. CASE ~(k <= p - 1)
    <3>1. k - (p-1) \in 1 .. n - p /\ p + (k - (p-1)) = k + 1 /\ ~(k < p)
      BY <1>1, <2>2
    <3>2. (front \o back)[k] = back[k - (p-1)]
      BY <1>7, <2>2
    <3> QED
      BY <1>3, <3>1, <3>2, Zenon
  <2> QED
    BY <2>1, <2>2
<1>9. Len(front \o back) = n - 1
  BY <1>2, <1>3, <1>5, <1>6, Zenon
<1> QED
  BY <1>4, <1>5, <1>8, <1>9, Zenon DEF n

\* Moving a hash that occurs once to the back.
LEMMA MovedToBack ==
  ASSUME NEW q \in Seq(Hashes), IsInjective(q), NEW h \in Range(q)
  PROVE  /\ MoveToBack(q, h) \in Seq(Hashes)
         /\ Len(MoveToBack(q, h)) = Len(q)
         /\ IsInjective(MoveToBack(q, h))
         /\ Range(MoveToBack(q, h)) = Range(q)
         /\ \A i, j \in 1 .. Len(q) : i < j =>
              /\ MoveToBack(q, h)[i] # h
              /\ \/ MoveToBack(q, h)[j] = h
                 \/ \E k, l \in 1 .. Len(q) :
                      k < l /\ MoveToBack(q, h)[i] = q[k] /\ MoveToBack(q, h)[j] = q[l]
<1> DEFINE p == Position(q, h)
           r == MoveToBack(q, h)
           w == RemoveAt(q, p)
           n == Len(q)
<1>1. n \in Nat /\ DOMAIN q = 1 .. n /\ q \in [1 .. n -> Hashes]
  BY LenProperties
<1>2. Distinct(q, n)
  BY <1>1, Zenon DEF IsInjective, Distinct
<1>3. p \in 1 .. n /\ q[p] = h
  <2>1. PICK i \in 1 .. n : q[i] = h
    BY <1>1 DEF Range
  <2>2. \A j \in 1 .. i-1 : q[j] # h
    BY <1>1, <1>2, <2>1 DEF Distinct
  <2> QED
    BY <1>1, <2>1, <2>2 DEF Position
<1>4. r = Append(w, h)
  BY DEF MoveToBack
<1>5. h \in Hashes
  BY <1>1, <1>3
<1> HIDE DEF p
<1>6. /\ w \in Seq(Hashes) /\ Len(w) = n - 1
      /\ \A k \in 1 .. n - 1 : w[k] = IF k < p THEN q[k] ELSE q[k+1]
  BY <1>3, RemovedAt
<1> HIDE DEF w, r
<1>7. /\ r \in Seq(Hashes) /\ Len(r) = n
      /\ \A k \in 1 .. n - 1 : r[k] = w[k]
      /\ r[n] = h
  <2>1. /\ Append(w, h) \in Seq(Hashes) /\ Len(Append(w, h)) = Len(w) + 1
        /\ \A k \in 1 .. Len(w) : Append(w, h)[k] = w[k]
        /\ Append(w, h)[Len(w) + 1] = h
    BY <1>5, <1>6, AppendProperties
  <2>2. (n - 1) + 1 = n
    BY <1>1
  <2> QED
    BY <1>4, <1>6, <2>1, <2>2, Zenon
<1> HIDE DEF n
<1>8. DOMAIN r = 1 .. n /\ r \in [1 .. n -> Hashes]
  BY <1>7, LenProperties
<1>9. Rotation(q, p, n, r)
  BY <1>1, <1>3, <1>6, <1>7 DEF Rotation
<1>10. /\ Distinct(r, n)
       /\ {r[i] : i \in 1 .. n} = {q[i] : i \in 1 .. n}
       /\ OrderKept(q, p, n, r)
  BY <1>1, <1>2, <1>3, <1>9, Rotated
<1>11. IsInjective(r)
  BY <1>8, <1>10, Zenon DEF IsInjective, Distinct
<1>12. Range(r) = Range(q)
  BY <1>1, <1>8, <1>10 DEF Range
<1> QED
  BY <1>3, <1>7, <1>10, <1>11, <1>12, Zenon DEF r, n, OrderKept

\* A `get`: a hit moves the hash to the back, a miss changes nothing.
LEMMA GetIInv ==
  ASSUME IInv, NEW h \in Hashes, Get(h)
  PROVE  IInv'
<1> USE CacheAssumption DEF IInv
<1>1. UNCHANGED <<blocks, bytes, evicting>>
  BY DEF Get
<1>2. Held' = Held /\ HeldBytes' = HeldBytes
  BY <1>1 DEF Held, HeldBytes
<1>3. Accounting' /\ EvictingIffOver' /\ EachFits'
  BY <1>1, <1>2 DEF Accounting, EvictingIffOver, EachFits
<1>4. CASE Lookup(h) = NoBlock
  <2>1. UNCHANGED cacheVars
    BY <1>4 DEF Get, cacheVars
  <2> QED
    BY <2>1, <1>2, <1>3 DEF TypeOK, QueueMatchesMap, QueueInOrderOfUse, cacheVars
<1>5. CASE Lookup(h) # NoBlock
  <2>1. h \in Held
    BY <1>5 DEF Lookup, Held
  <2>2. order' = MoveToBack(order, h) /\ usedAfter' = Touched(h)
    BY <1>5 DEF Get
  <2>3. order \in Seq(Hashes) /\ IsInjective(order) /\ Range(order) = Held
    BY DEF TypeOK, QueueMatchesMap
  <2>4. /\ order' \in Seq(Hashes) /\ Len(order') = Len(order)
        /\ IsInjective(order') /\ Range(order') = Held
        /\ \A i, j \in 1 .. Len(order) : i < j =>
             /\ order'[i] # h
             /\ \/ order'[j] = h
                \/ \E k, l \in 1 .. Len(order) :
                      k < l /\ order'[i] = order[k] /\ order'[j] = order[l]
    <3> DEFINE r == MoveToBack(order, h)
    <3>1. /\ r \in Seq(Hashes) /\ Len(r) = Len(order)
          /\ IsInjective(r) /\ Range(r) = Range(order)
          /\ \A i, j \in 1 .. Len(order) : i < j =>
               /\ r[i] # h
               /\ \/ r[j] = h
                  \/ \E k, l \in 1 .. Len(order) :
                        k < l /\ r[i] = order[k] /\ r[j] = order[l]
      BY <2>1, <2>3, MovedToBack
    <3> HIDE DEF r
    <3> QED
      BY <2>2, <2>3, <3>1 DEF r
  <2>5. QueueMatchesMap'
    BY <1>2, <2>4 DEF QueueMatchesMap
  <2>6. TypeOK'
    <3>1. usedAfter' \subseteq Hashes \X Hashes
      BY <2>2 DEF TypeOK, Touched, Held
    <3> QED
      BY <1>1, <2>4, <3>1 DEF TypeOK
  <2>7. QueueInOrderOfUse'
    <3> SUFFICES ASSUME NEW i \in 1 .. Len(order), NEW j \in 1 .. Len(order), i < j
                 PROVE  <<order'[i], order'[j]>> \in Touched(h)
      BY <2>2, <2>4, Zenon DEF QueueInOrderOfUse
    <3>1. order'[i] # h
      BY <2>4, Zenon
    <3>2. order'[i] \in Held
      <4>1. DOMAIN order' = 1 .. Len(order)
        BY <2>4, LenProperties
      <4> QED
        BY <2>4, <4>1, Zenon DEF Range
    <3>3. CASE order'[j] = h
      BY <3>1, <3>2, <3>3, Zenon DEF Touched
    <3>4. CASE order'[j] # h
      <4>1. <<order'[i], order'[j]>> \in usedAfter
        <5>1. PICK k \in 1 .. Len(order), l \in 1 .. Len(order) :
                 k < l /\ order'[i] = order[k] /\ order'[j] = order[l]
          BY <2>4, <3>4, Zenon
        <5>2. <<order[k], order[l]>> \in usedAfter
          BY <5>1 DEF QueueInOrderOfUse
        <5> QED
          BY <5>1, <5>2
      <4> QED
        BY <3>1, <4>1 DEF Touched
    <3> QED
      BY <3>3, <3>4, Zenon
  <2> QED
    BY <1>3, <2>5, <2>6, <2>7
<1> QED
  BY <1>4, <1>5

\* An `insert`: early returns change nothing, otherwise a new block joins the back.
LEMMA InsertIInv ==
  ASSUME IInv, NEW h \in Hashes, NEW b \in Blocks, Insert(h, b)
  PROVE  IInv'
<1> USE CacheAssumption DEF IInv
<1>1. CASE ~Insertable(h, b)
  <2>1. UNCHANGED cacheVars
    BY <1>1 DEF Insert
  <2> QED
    BY <2>1 DEF cacheVars, TypeOK, Accounting, QueueMatchesMap, EvictingIffOver,
                EachFits, QueueInOrderOfUse, Held, HeldBytes
<1>2. CASE Insertable(h, b)
  <2>1. /\ bytes' = bytes + LenOf[b]
        /\ blocks' = [blocks EXCEPT ![h] = b]
        /\ order' = Append(order, h)
        /\ usedAfter' = Touched(h)
        /\ evicting' = (bytes + LenOf[b] > MaxBytes)
    BY <1>2 DEF Insert, Over
  <2>2. blocks[h] = NoBlock /\ LenOf[b] <= MaxBytes /\ LenOf[b] \in Nat
    BY <1>2 DEF Insertable
  <2>3. blocks \in Maps /\ order \in Seq(Hashes) /\ bytes \in Nat
    BY DEF TypeOK, Maps
  <2>4. Held' = Held \cup {h} /\ h \notin Held
    BY <2>1, <2>2, <2>3 DEF Held, Maps
  <2>5. /\ order' \in Seq(Hashes) /\ Len(order') = Len(order) + 1
        /\ \A i \in 1 .. Len(order) : order'[i] = order[i]
        /\ order'[Len(order) + 1] = h
    BY <2>1, <2>3, AppendProperties
  <2>6. /\ Len(order) \in Nat /\ DOMAIN order = 1 .. Len(order)
        /\ DOMAIN order' = 1 .. Len(order) + 1
    BY <2>3, <2>5, LenProperties
  <2>7. \A i \in 1 .. Len(order) : order[i] \in Held
    BY <2>6 DEF QueueMatchesMap, Range
  <2>8. TypeOK'
    <3>1. usedAfter' \subseteq Hashes \X Hashes
      BY <2>1 DEF TypeOK, Touched, Held
    <3>2. blocks' \in [Hashes -> Blocks \cup {NoBlock}]
      BY <2>1, <2>3 DEF Maps
    <3>3. bytes' \in Nat
      BY <2>1, <2>2, <2>3
    <3>4. evicting' \in BOOLEAN
      BY <2>1
    <3> QED
      BY <2>5, <3>1, <3>2, <3>3, <3>4, Zenon DEF TypeOK
  <2>9. Accounting'
    <3>1. Cardinality(BytesOf(blocks')) = Cardinality(BytesOf(blocks)) + LenOf[b]
      BY <2>1, <2>2, <2>3, BytesAdded
    <3>2. HeldBytes = BytesOf(blocks) /\ HeldBytes' = BytesOf(blocks')
      BY DEF HeldBytes, BytesOf, Held
    <3> QED
      BY <2>1, <3>1, <3>2, Zenon DEF Accounting
  <2>10. QueueMatchesMap'
    <3>1. IsInjective(order')
      <4> SUFFICES ASSUME NEW i \in 1 .. Len(order) + 1, NEW j \in 1 .. Len(order) + 1,
                          order'[i] = order'[j]
                   PROVE  i = j
        BY <2>6 DEF IsInjective
      <4>1. IsInjective(order)
        BY DEF QueueMatchesMap
      <4> QED
        BY <2>4, <2>5, <2>6, <2>7, <4>1 DEF IsInjective
    <3>2. Range(order') = Range(order) \cup {h}
      <4>1. Range(order') = {order'[i] : i \in 1 .. Len(order) + 1}
        BY <2>6 DEF Range
      <4>2. Range(order) = {order[i] : i \in 1 .. Len(order)}
        BY <2>6 DEF Range
      <4>3. 1 .. Len(order) + 1 = (1 .. Len(order)) \cup {Len(order) + 1}
        BY <2>6
      <4> QED
        BY <2>5, <4>1, <4>2, <4>3
    <3> QED
      BY <2>4, <3>1, <3>2 DEF QueueMatchesMap
  <2>11. EvictingIffOver'
    BY <2>1, Zenon DEF EvictingIffOver
  <2>12. EachFits'
    BY <2>1, <2>2, <2>3, <2>4 DEF EachFits, Held, Maps
  <2>13. QueueInOrderOfUse'
    <3> SUFFICES ASSUME NEW i \in 1 .. Len(order) + 1, NEW j \in 1 .. Len(order) + 1, i < j
                 PROVE  <<order'[i], order'[j]>> \in Touched(h)
      BY <2>1, <2>5 DEF QueueInOrderOfUse
    <3>1. i \in 1 .. Len(order)
      BY <2>6
    <3>2. order'[i] = order[i] /\ order[i] \in Held \ {h}
      BY <2>4, <2>5, <2>7, <3>1
    <3>3. CASE j = Len(order) + 1
      BY <2>5, <3>2, <3>3 DEF Touched
    <3>4. CASE j \in 1 .. Len(order)
      <4>1. <<order[i], order[j]>> \in usedAfter
        BY <3>1, <3>4 DEF QueueInOrderOfUse
      <4> QED
        BY <2>5, <3>2, <3>4, <4>1 DEF Touched
    <3> QED
      BY <2>6, <3>3, <3>4
  <2> QED
    BY <2>8, <2>9, <2>10, <2>11, <2>12, <2>13
<1> QED
  BY <1>1, <1>2

\* The head of a queue without repetitions is gone from its tail.
LEMMA EvictFacts ==
  ASSUME IInv, EvictOne
  PROVE  LET e == Head(order) IN
         /\ e \in Held /\ e \in Hashes
         /\ order' \in Seq(Hashes) /\ Len(order) \in Nat /\ Len(order') = Len(order) - 1
         /\ \A i \in 1 .. Len(order) - 1 : order'[i] = order[i+1]
         /\ IsInjective(order')
         /\ Range(order') = Held \ {e}
         /\ blocks' = [blocks EXCEPT ![e] = NoBlock]
         /\ Held' = Held \ {e}
         /\ bytes' = bytes - LenOf[blocks[e]]
         /\ evicting' = (bytes' > MaxBytes)
         /\ \A k \in Held' : <<e, k>> \in usedAfter
<1> DEFINE e == Head(order)
           n == Len(order)
<1> USE CacheAssumption DEF IInv
<1>1. order \in Seq(Hashes) /\ order # <<>> /\ blocks \in Maps
  BY DEF EvictOne, TypeOK, Maps
<1>2. /\ e \in Hashes /\ Tail(order) \in Seq(Hashes) /\ Len(Tail(order)) = n - 1
      /\ \A i \in 1 .. n - 1 : Tail(order)[i] = order[i+1]
  BY <1>1, HeadTailProperties
<1>3. n \in Nat /\ n > 0 /\ DOMAIN order = 1 .. n /\ e = order[1]
  BY <1>1, LenProperties, EmptySeq
<1>4. order' = Tail(order) /\ blocks' = [blocks EXCEPT ![e] = NoBlock]
  BY DEF EvictOne
<1>5. DOMAIN order' = 1 .. n - 1
  BY <1>2, <1>4, LenProperties
<1>6. IsInjective(order) /\ Range(order) = Held
  BY DEF QueueMatchesMap
<1>7. e \in Held
  BY <1>3, <1>6 DEF Range
<1>8. bytes' = bytes - LenOf[blocks[e]] /\ evicting' = (bytes' > MaxBytes)
  BY <1>7 DEF EvictOne, BytesWithout, Over, Held
<1>9. Held' = Held \ {e}
  BY <1>1, <1>4, <1>7 DEF Held, Maps
<1> HIDE DEF e, n
<1>10. \A i \in 1 .. n - 1 : order'[i] = order[i+1]
  BY <1>2, <1>4
<1>11. IsInjective(order')
  <2> SUFFICES ASSUME NEW i \in 1 .. n-1, NEW j \in 1 .. n-1, order'[i] = order'[j]
               PROVE  i = j
    BY <1>5 DEF IsInjective
  <2>1. i+1 \in 1 .. n /\ j+1 \in 1 .. n /\ order[i+1] = order[j+1]
    BY <1>3, <1>10
  <2>2. i + 1 = j + 1
    BY <1>3, <1>6, <2>1, Zenon DEF IsInjective
  <2> QED
    BY <2>2
<1>12. Range(order') = Held \ {e}
  <2>1. Range(order) = {order[i] : i \in 1 .. n}
    BY <1>3 DEF Range
  <2>2. Range(order') = {order'[i] : i \in 1 .. n-1}
    BY <1>5 DEF Range
  <2>3. ASSUME NEW i \in 1 .. n-1 PROVE order'[i] \in Held \ {e}
    <3>1. i+1 \in 1 .. n /\ i+1 # 1 /\ 1 \in 1 .. n
      BY <1>3
    <3>2. order[i+1] # order[1]
      BY <1>3, <1>6, <3>1, Zenon DEF IsInjective
    <3> QED
      BY <1>3, <1>6, <1>10, <2>1, <3>1, <3>2
  <2>4. ASSUME NEW k \in Held \ {e} PROVE k \in Range(order')
    <3>1. PICK i \in 1 .. n : order[i] = k
      BY <1>6, <2>1
    <3>2. i - 1 \in 1 .. n-1 /\ (i-1)+1 = i
      BY <1>3, <3>1
    <3> QED
      BY <1>10, <2>2, <3>1, <3>2
  <2> QED
    BY <2>2, <2>3, <2>4
<1>13. ASSUME NEW k \in Held' PROVE <<e, k>> \in usedAfter
  <2>1. PICK i \in 1 .. n - 1 : order'[i] = k
    BY <1>5, <1>9, <1>12 DEF Range
  <2>2. 1 \in 1 .. n /\ i+1 \in 1 .. n /\ 1 < i+1 /\ order[i+1] = k
    BY <1>3, <1>10, <2>1
  <2> QED
    BY <1>3, <2>2 DEF QueueInOrderOfUse, n
<1> QED
  BY <1>2, <1>3, <1>4, <1>7, <1>8, <1>9, <1>10, <1>11, <1>12, <1>13, Zenon DEF e, n

LEMMA EvictIInv ==
  ASSUME IInv, EvictOne
  PROVE  IInv'
<1> DEFINE e == Head(order)
           n == Len(order)
<1> USE CacheAssumption DEF IInv
<1>1. /\ e \in Held /\ e \in Hashes
      /\ order' \in Seq(Hashes) /\ n \in Nat /\ Len(order') = n - 1
      /\ \A i \in 1 .. n - 1 : order'[i] = order[i+1]
      /\ IsInjective(order')
      /\ Range(order') = Held \ {e}
      /\ blocks' = [blocks EXCEPT ![e] = NoBlock]
      /\ Held' = Held \ {e}
      /\ bytes' = bytes - LenOf[blocks[e]]
      /\ evicting' = (bytes' > MaxBytes)
  BY EvictFacts
<1>2. usedAfter' = {p \in usedAfter : p[1] # e /\ p[2] # e}
  BY DEF EvictOne
<1> HIDE DEF e, n
<1>3. blocks \in Maps /\ blocks' \in Maps /\ blocks[e] # NoBlock
  BY <1>1 DEF TypeOK, Maps, Held
<1>4. Accounting'
  <2>1. Cardinality(BytesOf(blocks')) = Cardinality(BytesOf(blocks)) - LenOf[blocks[e]]
    BY <1>1, <1>3, BytesRemoved
  <2>2. HeldBytes = BytesOf(blocks) /\ HeldBytes' = BytesOf(blocks')
    BY DEF HeldBytes, BytesOf, Held
  <2> QED
    BY <1>1, <2>1, <2>2, Zenon DEF Accounting
<1>5. TypeOK'
  <2>1. bytes' \in Nat
    <3>1. bytes' = Cardinality(BytesOf(blocks'))
      BY <1>4 DEF Accounting, HeldBytes, BytesOf, Held
    <3> QED
      BY <1>3, <3>1, BytesFinite, FS_CardinalityType
  <2>2. usedAfter' \subseteq Hashes \X Hashes
    BY <1>2 DEF TypeOK
  <2>3. evicting' \in BOOLEAN
    BY <1>1
  <2> QED
    BY <1>1, <1>3, <2>1, <2>2, <2>3, Zenon DEF TypeOK, Maps
<1>6. QueueMatchesMap'
  BY <1>1 DEF QueueMatchesMap
<1>7. EvictingIffOver'
  BY <1>1, Zenon DEF EvictingIffOver
<1>8. EachFits'
  BY <1>1, <1>3 DEF EachFits, Held, Maps
<1>9. QueueInOrderOfUse'
  <2> SUFFICES ASSUME NEW i \in 1 .. n - 1, NEW j \in 1 .. n - 1, i < j
               PROVE  <<order'[i], order'[j]>> \in usedAfter'
    BY <1>1 DEF QueueInOrderOfUse
  <2>1. i+1 \in 1 .. n /\ j+1 \in 1 .. n /\ i+1 < j+1
    BY <1>1
  <2>2. <<order[i+1], order[j+1]>> \in usedAfter
    BY <2>1 DEF QueueInOrderOfUse, n
  <2>3. \A k \in 1 .. n - 1 : order'[k] # e
    <3>1. DOMAIN order' = 1 .. n - 1
      BY <1>1, LenProperties
    <3> QED
      BY <1>1, <3>1 DEF Range
  <2> QED
    BY <1>1, <1>2, <2>2, <2>3
<1> QED
  BY <1>4, <1>5, <1>6, <1>7, <1>8, <1>9

LEMMA NextIInv == IInv /\ [Next]_cacheVars => IInv'
<1> SUFFICES ASSUME IInv, [Next]_cacheVars PROVE IInv'
  OBVIOUS
<1>1. CASE \E h \in Hashes : Get(h)
  BY <1>1, GetIInv
<1>2. CASE \E h \in Hashes, b \in Blocks : Insert(h, b)
  BY <1>2, InsertIInv
<1>3. CASE EvictOne
  BY <1>3, EvictIInv
<1>4. CASE UNCHANGED cacheVars
  BY <1>4 DEF cacheVars, IInv, TypeOK, Accounting, QueueMatchesMap, EvictingIffOver,
              EachFits, QueueInOrderOfUse, Held, HeldBytes
<1> QED
  BY <1>1, <1>2, <1>3, <1>4 DEF Next

\* The inductive invariant gives the bound, and a block left to evict: one block
\* alone fits, so a total over the bound means at least two are queued.
LEMMA IInvImplies == IInv => Bounded /\ LoopNeverRunsDry
<1> SUFFICES ASSUME IInv PROVE Bounded /\ LoopNeverRunsDry
  OBVIOUS
<1> USE CacheAssumption DEF IInv
<1>1. blocks \in Maps /\ order \in Seq(Hashes) /\ bytes \in Nat
  BY DEF TypeOK, Maps
<1>2. bytes = Cardinality(HeldBytes)
  BY DEF Accounting
<1>3. Bounded
  BY <1>1, <1>2 DEF Bounded, EvictingIffOver
<1>4. LoopNeverRunsDry
  <2> SUFFICES ASSUME evicting, ~(Len(order) >= 2) PROVE FALSE
    BY DEF LoopNeverRunsDry
  <2>1. Len(order) \in Nat /\ DOMAIN order = 1 .. Len(order)
    BY <1>1, LenProperties
  <2>2. bytes > MaxBytes
    BY DEF EvictingIffOver
  <2>3. Range(order) = Held
    BY DEF QueueMatchesMap
  <2>4. CASE Len(order) = 0
    <3>1. Held = {}
      BY <2>1, <2>3, <2>4 DEF Range
    <3>2. HeldBytes = {}
      BY <3>1 DEF HeldBytes
    <3>3. bytes = 0
      BY <1>2, <3>2, FS_EmptySet, Zenon
    <3> QED
      BY <2>2, <3>3
  <2>5. CASE Len(order) = 1
    <3> DEFINE h == order[1]
    <3>1. Held = {h}
      BY <2>1, <2>3, <2>5 DEF Range
    <3>2. LenOf[blocks[h]] \in Nat /\ LenOf[blocks[h]] <= MaxBytes
      BY <1>1, <3>1 DEF EachFits, Held, Maps
    <3>3. HeldBytes = {h} \X (1 .. LenOf[blocks[h]])
      BY <3>1 DEF HeldBytes
    <3> HIDE DEF h
    <3>4. bytes = LenOf[blocks[h]]
      BY <1>2, <3>2, <3>3, BlockBytes, Zenon
    <3> QED
      BY <1>1, <2>2, <3>2, <3>4
  <2> QED
    BY <2>1, <2>4, <2>5
<1> QED
  BY <1>3, <1>4

LEMMA InvariantIInv == Spec => []IInv
BY InitIInv, NextIInv, PTL DEF Spec

-----------------------------------------------------------------------------
(* The theorems. *)

\* Types.
THEOREM TypeCorrect == Spec => []TypeOK
<1>1. IInv => TypeOK
  BY DEF IInv
<1> QED
  BY <1>1, InvariantIInv, PTL

\* block_cache.rs's three pieces of state never disagree, whatever the sequence of
\* gets and inserts, also between two iterations of the eviction loop.
THEOREM StateAgrees == Spec => []Accounting
<1>1. IInv => Accounting
  BY DEF IInv
<1> QED
  BY <1>1, InvariantIInv, PTL

\* The recency queue and the map name the same hashes, each once.
THEOREM QueueAgrees == Spec => []QueueMatchesMap
<1>1. IInv => QueueMatchesMap
  BY DEF IInv
<1> QED
  BY <1>1, InvariantIInv, PTL

\* `insert` leaves the cache within `max_bytes` whenever it releases the mutex.
THEOREM MemoryBounded == Spec => []Bounded
BY InvariantIInv, IInvImplies, PTL

\* `insert`'s eviction loop always finds a block older than the one just added.
THEOREM NewestSurvives == Spec => []LoopNeverRunsDry
BY InvariantIInv, IInvImplies, PTL

\* Only `insert`'s eviction loop removes a block, and it removes the least
\* recently used one.
THEOREM LeastRecentlyUsedGoes == Spec => EvictsLeastRecentlyUsed
<1> DEFINE Lru == \A h \in Held \ Held' : \A k \in Held' : <<h, k>> \in usedAfter
<1>1. IInv /\ [Next]_cacheVars => [Lru]_cacheVars
  <2> SUFFICES ASSUME IInv, [Next]_cacheVars PROVE Lru \/ UNCHANGED cacheVars
    OBVIOUS
  <2>1. CASE \E h \in Hashes : Get(h)
    <3>1. blocks' = blocks
      BY <2>1 DEF Get
    <3> QED
      BY <3>1 DEF Held
  <2>2. CASE \E h \in Hashes, b \in Blocks : Insert(h, b)
    <3>1. PICK h \in Hashes, b \in Blocks : Insert(h, b)
      BY <2>2
    <3>2. CASE Insertable(h, b)
      <4>1. blocks' = [blocks EXCEPT ![h] = b] /\ b # NoBlock /\ blocks \in Maps
        BY <3>1, <3>2, CacheAssumption DEF Insert, IInv, TypeOK, Maps
      <4>2. Held \subseteq Held'
        BY <4>1 DEF Held, Maps
      <4> QED
        BY <4>2
    <3>3. CASE ~Insertable(h, b)
      BY <3>1, <3>3 DEF Insert
    <3> QED
      BY <3>2, <3>3
  <2>3. CASE EvictOne
    <3>1. Held' = Held \ {Head(order)} /\ \A k \in Held' : <<Head(order), k>> \in usedAfter
      BY <2>3, EvictFacts
    <3> QED
      BY <3>1
  <2> QED
    BY <2>1, <2>2, <2>3 DEF Next
<1> QED
  BY <1>1, InvariantIInv, PTL DEF Spec, EvictsLeastRecentlyUsed

-----------------------------------------------------------------------------
(* BlockCache implements BlockStore. *)

Newest == order[Len(order)]

\* In the loop, what is held is the new block and some of what was held before.
LoopInv == evicting => Newest \in Held /\ Held \subseteq before \cup {Newest}

LEMMA LoopInvNext ==
  ASSUME IInv, LoopInv, StoreNext
  PROVE  LoopInv' /\ (Store!Next \/ UNCHANGED Visible)
<1>0. before' = IF evicting THEN before ELSE Held
  BY DEF StoreNext
<1>1. order \in Seq(Hashes) /\ blocks \in Maps /\ evicting \in BOOLEAN
  BY DEF IInv, TypeOK, Maps
<1>2. ASSUME UNCHANGED <<blocks, evicting>>, ~evicting PROVE LoopInv' /\ UNCHANGED Visible
  BY <1>2 DEF LoopInv, Visible, Held
<1>3. CASE \E h \in Hashes : Get(h)
  BY <1>2, <1>3 DEF Get
<1>4. ASSUME NEW h \in Hashes, NEW b \in Blocks, Insert(h, b), Insertable(h, b)
      PROVE  LoopInv' /\ (Store!Next \/ UNCHANGED Visible)
  <2>1. blocks' = [blocks EXCEPT ![h] = b] /\ b # NoBlock /\ order' = Append(order, h) /\ ~evicting
    BY <1>4, CacheAssumption DEF Insert
  <2>2. Held' = Held \cup {h} /\ Newest' = h
    BY <1>1, <2>1 DEF Held, Maps, Newest
  <2>3. before' = Held /\ Visible = Held
    BY <1>0, <2>1 DEF Visible
  <2>4. LoopInv'
    BY <2>2, <2>3 DEF LoopInv
  <2>5. CASE evicting'
    BY <2>3, <2>4, <2>5 DEF Visible
  <2>6. CASE ~evicting'
    <3>1. Visible' = Visible \cup {h}
      BY <2>2, <2>3, <2>6 DEF Visible
    <3>2. Store!Insert(h)
      BY <3>1 DEF Store!Insert
    <3> QED
      BY <2>4, <3>2 DEF Store!Next
  <2> QED
    BY <2>5, <2>6
<1>5. ASSUME NEW h \in Hashes, NEW b \in Blocks, Insert(h, b), ~Insertable(h, b)
      PROVE  LoopInv' /\ UNCHANGED Visible
  BY <1>2, <1>5 DEF Insert, cacheVars
<1>6. CASE EvictOne
  <2>1. /\ evicting /\ order' = Tail(order) /\ Len(order) \in Nat /\ Len(order) >= 2
        /\ \A i, j \in 1 .. Len(order) : order[i] = order[j] => i = j
    BY <1>1, <1>6, IInvImplies DEF EvictOne, LoopNeverRunsDry, IInv, QueueMatchesMap, IsInjective
  <2>2. Held' = Held \ {Head(order)}
    BY <1>6, EvictFacts
  <2>3. Newest' = Newest /\ Newest # Head(order) /\ Newest \in Hashes
    <3>1. Len(Tail(order)) = Len(order) - 1 /\ Tail(order)[Len(order) - 1] = order[Len(order)]
      BY <1>1, <2>1
    <3>2. Newest' = Newest
      BY <2>1, <3>1 DEF Newest
    <3>3. Newest # Head(order) /\ Newest \in Hashes
      BY <1>1, <2>1 DEF Newest
    <3> QED
      BY <3>2, <3>3
  <2>4. before' = before /\ Visible = before
    BY <1>0, <2>1 DEF Visible
  <2>5. Newest' \in Held' /\ Held' \subseteq before' \cup {Newest'}
    BY <2>1, <2>2, <2>3, <2>4 DEF LoopInv
  <2>6. CASE evicting'
    BY <2>4, <2>5, <2>6 DEF LoopInv, Visible
  <2>7. CASE ~evicting'
    <3>1. Visible' = (Held' \cap before) \cup {Newest}
      BY <2>3, <2>4, <2>5, <2>7 DEF Visible
    <3>2. Store!Insert(Newest)
      BY <2>4, <3>1 DEF Store!Insert
    <3> QED
      BY <2>3, <2>7, <3>2 DEF LoopInv, Store!Next
  <2> QED
    BY <2>6, <2>7
<1> QED
  BY <1>3, <1>4, <1>5, <1>6 DEF StoreNext, Next

\* The cache is to its callers the set that BlockFetch takes it for: an insert happens at
\* one moment, and never gives up its own block.
THEOREM SetOfBlocks == StoreSpec => ImplementsBlockStore
<1>1. StoreInit => IInv /\ LoopInv /\ Store!Init
  BY InitIInv DEF StoreInit, Init, LoopInv, Store!Init, Visible, Held
<1>2. IInv /\ LoopInv /\ [StoreNext]_storeVars => IInv' /\ LoopInv' /\ [Store!Next]_Visible
  <2> SUFFICES ASSUME IInv, LoopInv, [StoreNext]_storeVars
               PROVE  IInv' /\ LoopInv' /\ [Store!Next]_Visible
    OBVIOUS
  <2>1. CASE StoreNext
    BY <2>1, LoopInvNext, NextIInv DEF StoreNext
  <2>2. CASE UNCHANGED storeVars
    <3>1. UNCHANGED cacheVars /\ UNCHANGED before
      BY <2>2 DEF storeVars
    <3>2. IInv'
      BY <3>1, NextIInv
    <3> QED
      BY <3>1, <3>2 DEF cacheVars, LoopInv, Newest, Held, Visible
  <2> QED
    BY <2>1, <2>2
<1> QED
  BY <1>1, <1>2, PTL DEF StoreSpec, ImplementsBlockStore, Store!Spec

=============================================================================
