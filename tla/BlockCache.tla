----------------------------- MODULE BlockCache -----------------------------
(***************************************************************************)
(* The bounded in-memory cache of peer-fetched blocks                      *)
(* (src/src/block_cache.rs).                                               *)
(*                                                                         *)
(* `Inner` is a map from hash to bytes, a recency queue and a running byte *)
(* total, all behind one mutex.  A `get`, and an `insert` that evicts      *)
(* nothing, is one critical section and one action.  An `insert` that goes *)
(* over the bound keeps the mutex through its eviction loop: Insert leaves *)
(* `evicting` set, each iteration of the loop is an EvictOne step, and no  *)
(* other operation is enabled until the loop has let go of the mutex.      *)
(*                                                                         *)
(* The loop's `None => break` arm has no action: EvictOne needs a hash in  *)
(* the queue, and LoopNeverRunsDry says there always is one.               *)
(*                                                                         *)
(* A block is known by its length only: LenOf[b] is `block.len()`.         *)
(***************************************************************************)
EXTENDS Naturals, FiniteSets, Sequences, SequencesExt

CONSTANTS
  Hashes,    \* the block hashes that may be asked for
  Blocks,    \* the serialized blocks that may be stored
  LenOf,     \* LenOf[b]: the length of serialized block b in bytes
  MaxBytes,  \* `max_bytes`, the bound; zero turns the cache off
  NoBlock    \* `None`

ASSUME CacheAssumption ==
  /\ IsFiniteSet(Hashes)
  /\ LenOf \in [Blocks -> Nat]
  /\ MaxBytes \in Nat
  /\ NoBlock \notin Blocks

VARIABLES
  blocks,    \* `inner.blocks`: what is held for each hash, or NoBlock
  order,     \* `inner.order`: held hashes, least recently used first
  bytes,     \* `inner.bytes`: the running total
  evicting,  \* an insert holds the mutex and is in its eviction loop
  usedAfter  \* history: <<a, b>> when held b was last used after held a

cacheVars == <<blocks, order, bytes, evicting, usedAfter>>

Held == {h \in Hashes : blocks[h] # NoBlock}

-----------------------------------------------------------------------------
(* The operations. *)

Init ==
  /\ blocks = [h \in Hashes |-> NoBlock]
  /\ order = <<>>
  /\ bytes = 0
  /\ evicting = FALSE
  /\ usedAfter = {}

Enabled == MaxBytes > 0

\* History only: h becomes the most recently used of the held hashes.
Touched(h) ==
  {p \in usedAfter : p[1] # h} \cup {<<a, h>> : a \in Held \ {h}}

\* `order.iter().position(..)`: the first place of h in the queue.
Position(q, h) ==
  CHOOSE i \in DOMAIN q : q[i] = h /\ \A j \in 1 .. i-1 : q[j] # h

\* Slip: a hit does not count as use.
MoveToBackForgotten(q, h) == q

\* `order.remove(pos)` then `order.push_back(hash)`; an absent hash moves nothing.
MoveToBack(q, h) ==
  IF h \in Range(q) THEN Append(RemoveAt(q, Position(q, h)), h) ELSE q

\* What `get` returns, with the cache off or the hash absent: NoBlock.
Lookup(h) == IF Enabled THEN blocks[h] ELSE NoBlock

\* `get`: a hit makes the hash the most recently used; a miss changes nothing.
Get(h) ==
  /\ ~evicting
  /\ IF Lookup(h) # NoBlock
     THEN /\ order' = MoveToBack(order, h)
          /\ usedAfter' = Touched(h)
     ELSE UNCHANGED <<order, usedAfter>>
  /\ UNCHANGED <<blocks, bytes, evicting>>

\* Slips: the check for a held hash, or for the size, is missing.
InsertableTwice(h, b) == Enabled /\ LenOf[b] <= MaxBytes
InsertableAnySize(h, b) == Enabled /\ blocks[h] = NoBlock

\* The early returns of `insert`: off, larger than the whole cache, already held.
Insertable(h, b) ==
  /\ Enabled
  /\ LenOf[b] <= MaxBytes
  /\ blocks[h] = NoBlock

\* Slip: the bound is off by one.
OverByTwo(total) == total > MaxBytes + 1

\* The condition of the eviction loop.
Over(total) == total > MaxBytes

\* `insert` up to its eviction loop.
Insert(h, b) ==
  /\ ~evicting
  /\ IF Insertable(h, b)
     THEN /\ bytes' = bytes + LenOf[b]
          /\ blocks' = [blocks EXCEPT ![h] = b]
          /\ order' = Append(order, h)
          /\ usedAfter' = Touched(h)
          /\ evicting' = Over(bytes + LenOf[b])
     ELSE UNCHANGED cacheVars

\* Slips: the evicted block's bytes are not given back, or given back twice.
BytesNeverReturned(h) == bytes
BytesReturnedTwice(h) == bytes - 2 * LenOf[blocks[h]]

\* What the running total becomes when the block held for h is removed.
BytesWithout(h) == IF blocks[h] # NoBlock THEN bytes - LenOf[blocks[h]] ELSE bytes

\* One iteration of `insert`'s eviction loop, and the release of the mutex when
\* the loop condition no longer holds.
EvictOne ==
  /\ evicting
  /\ order # <<>>
  /\ LET evicted == Head(order) IN
       /\ order' = Tail(order)
       /\ blocks' = [blocks EXCEPT ![evicted] = NoBlock]
       /\ bytes' = BytesWithout(evicted)
       /\ evicting' = Over(BytesWithout(evicted))
       /\ usedAfter' = {p \in usedAfter : p[1] # evicted /\ p[2] # evicted}

Next ==
  \/ \E h \in Hashes : Get(h)
  \/ \E h \in Hashes, b \in Blocks : Insert(h, b)
  \/ EvictOne

Spec == Init /\ [][Next]_cacheVars

-----------------------------------------------------------------------------
(* What makes the cache correct. *)

TypeOK ==
  /\ blocks \in [Hashes -> Blocks \cup {NoBlock}]
  /\ order \in Seq(Hashes)
  /\ bytes \in Nat
  /\ evicting \in BOOLEAN
  /\ usedAfter \subseteq Hashes \X Hashes

\* The bytes really held, one element for each.
HeldBytes == UNION {{h} \X (1 .. LenOf[blocks[h]]) : h \in Held}

\* The running total is the number of bytes held, also between two iterations of
\* the eviction loop: `insert` and eviction never let it drift (check_invariants).
Accounting == bytes = Cardinality(HeldBytes)

\* The queue names exactly the hashes the map holds, each once, so that nothing
\* held is out of eviction's reach and nothing is counted twice.
QueueMatchesMap == IsInjective(order) /\ Range(order) = Held

\* No operation ever sees more than `max_bytes` held: whenever the mutex is free
\* the bound holds, however inserts and gets were interleaved.
Bounded == ~evicting => Cardinality(HeldBytes) <= MaxBytes

\* The eviction loop always has an older block left than the one just inserted:
\* an insert never evicts its own block and never reaches the `None` arm.
LoopNeverRunsDry == evicting => Len(order) >= 2

\* A block leaves the cache only when every block that stays was used later:
\* `get` and `insert` both count as use.
EvictsLeastRecentlyUsed ==
  [][\A h \in Held \ Held' : \A k \in Held' : <<h, k>> \in usedAfter]_cacheVars

=============================================================================
