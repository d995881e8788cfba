----------------------------- MODULE PeerQuery -----------------------------
(***************************************************************************)
(* What `fetch_block_from_peers` (src/src/fetch_blocks.rs) promises its    *)
(* caller, with no word about connections, peers or channels: a query is   *)
(* asked, and answered with the valid block of the hash asked for, or with *)
(* nothing; never with nothing once a valid block has come in.  The caller *)
(* may drop the query at any time.                                         *)
(***************************************************************************)
CONSTANTS
  Fetches,  \* the queries
  HashOf,   \* HashOf[f]: the block hash query f asks for
  Valid(_), \* Valid(h): the block that hashes to h and passes every check
  NoBlock   \* `None`

VARIABLES
  status,   \* "idle", "asking", "done" or "dropped"
  found,    \* a valid block has come in for the query
  answer    \* what the query returned

queryVars == <<status, found, answer>>

Init ==
  /\ status = [f \in Fetches |-> "idle"]
  /\ found = [f \in Fetches |-> FALSE]
  /\ answer = [f \in Fetches |-> NoBlock]

Ask(f) ==
  /\ status[f] = "idle"
  /\ status' = [status EXCEPT ![f] = "asking"]
  /\ UNCHANGED <<found, answer>>

Find(f) ==
  /\ status[f] = "asking"
  /\ found' = [found EXCEPT ![f] = TRUE]
  /\ UNCHANGED <<status, answer>>

Answer(f) ==
  /\ status[f] = "asking"
  /\ status' = [status EXCEPT ![f] = "done"]
  /\ answer' = [answer EXCEPT ![f] = IF found[f] THEN Valid(HashOf[f]) ELSE NoBlock]
  /\ UNCHANGED found

\* The caller stops waiting.
Drop(f) ==
  /\ status[f] = "asking"
  /\ status' = [status EXCEPT ![f] = "dropped"]
  /\ UNCHANGED <<found, answer>>

Next == \E f \in Fetches : Ask(f) \/ Find(f) \/ Answer(f) \/ Drop(f)

Spec == Init /\ [][Next]_queryVars

=============================================================================
