----------------------------- MODULE BlockQuery -----------------------------
(***************************************************************************)
(* What `fetch_block_raw` (src/src/fetch_blocks.rs) promises its callers,  *)
(* with no word about the cache, the peers or the network parameters: a    *)
(* query ends with the bytes of the block it wants, with an error, or with *)
(* nothing if bitcoind has pruned the block.  The caller may drop it.      *)
(***************************************************************************)
CONSTANTS
  Calls,     \* the queries
  Hashes,    \* block hashes
  Bytes(_),  \* Bytes(h): the serialized block of hash h
  Errors,    \* the errors a query may end with
  Pruned,    \* `Ok(None)`
  None       \* not ended

VARIABLES
  stored,    \* the hashes of the blocks bitcoind has not pruned
  want,      \* the hash each query is for
  status,    \* "asking", "done" or "dropped"
  outcome    \* what the query has returned

queryVars == <<stored, want, status, outcome>>

Init ==
  /\ stored \in SUBSET Hashes
  /\ want \in [Calls -> Hashes]
  /\ status = [c \in Calls |-> "asking"]
  /\ outcome = [c \in Calls |-> None]

\* bitcoind prunes a block.
Prune(h) ==
  /\ stored' = stored \ {h}
  /\ UNCHANGED <<want, status, outcome>>

Answer(c, r) ==
  /\ status[c] = "asking"
  /\ r \in {Bytes(want[c])} \cup Errors \/ (r = Pruned /\ want[c] \notin stored)
  /\ status' = [status EXCEPT ![c] = "done"]
  /\ outcome' = [outcome EXCEPT ![c] = r]
  /\ UNCHANGED <<stored, want>>

Drop(c) ==
  /\ status[c] = "asking"
  /\ status' = [status EXCEPT ![c] = "dropped"]
  /\ UNCHANGED <<stored, want, outcome>>

Next ==
  \/ \E h \in Hashes : Prune(h)
  \/ \E c \in Calls :
       Drop(c) \/ \E r \in {Bytes(want[c]), Pruned} \cup Errors : Answer(c, r)

Spec == Init /\ [][Next]_queryVars

=============================================================================
