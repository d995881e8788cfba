----------------------------- MODULE BlockStore -----------------------------
(***************************************************************************)
(* What the block cache (src/src/block_cache.rs) is to its callers: a set  *)
(* of hashes.  An insert, at one moment, does nothing, or adds its hash    *)
(* and makes room by giving up any of the others.  A lookup changes        *)
(* nothing.                                                                *)
(***************************************************************************)
CONSTANT Hashes

VARIABLE store  \* the hashes whose blocks are held

Init == store = {}

Insert(h) == store' \in {store} \cup {S \cup {h} : S \in SUBSET store}

Next == \E h \in Hashes : Insert(h)

Spec == Init /\ [][Next]_store

=============================================================================
