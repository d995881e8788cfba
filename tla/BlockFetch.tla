----------------------------- MODULE BlockFetch -----------------------------
(***************************************************************************)
(* `fetch_block_raw` (src/src/fetch_blocks.rs) and what it shares with its *)
(* other callers: the block cache, the peer list that `State::get_peers`   *)
(* refreshes in the background, and the network parameters that            *)
(* `State::network_params` asks bitcoind for once (src/src/state.rs).      *)
(*                                                                         *)
(* A call looks in the cache, then asks bitcoind, then gets the peer list, *)
(* then asks the peers.  The last part is PeerQuery, which PeerFetch       *)
(* implements: its actions are used here as they are, and a block can only *)
(* come in once the network parameters are known.                          *)
(*                                                                         *)
(* bitcoind only ever loses blocks, and any call to it may fail.  A list   *)
(* of peers is known by when it was fetched and how many it lists.         *)
(* The cache is BlockStore, which BlockCache implements.                   *)
(***************************************************************************)
EXTENDS Integers

CONSTANTS
  Calls,    \* calls of fetch_block_raw
  Hashes,   \* block hashes
  HashOf,   \* HashOf[c]: the hash call c is for
  MaxAge,   \* `max_peer_age`
  MaxPeers, \* bound on how many peers a list has
  MaxTime,  \* bound on the clock
  None      \* no block, no outcome

Never == MaxTime + 1   \* `fetched: None`

Lists == [fetched : 0 .. MaxTime + 1, size : 0 .. MaxPeers]
NoList == [fetched |-> Never, size |-> 0]   \* `Peers::new()`

\* The block of hash h; its bytes, as `consensus_encode` or bitcoind writes them, and
\* the other ends a call may come to.
Valid(h) == <<"block", h>>
Bytes(h) == <<"bytes", h>>
SelfError == <<"error", "getblock failed">>
ListError == <<"error", "getpeerinfo failed">>
Pruned == <<"none", "no peer had it">>

ASSUME CallAssumption ==
  /\ HashOf \in [Calls -> Hashes]
  /\ MaxAge \in Nat
  /\ MaxPeers \in Nat
  /\ MaxTime \in Nat
  /\ None \notin {SelfError, ListError, Pruned}

VARIABLES
  clock,     \* now
  stored,    \* the hashes of the blocks bitcoind has not pruned
  cache,     \* the hashes the block cache holds
  peers,     \* `State::peers`
  network,   \* `State::network` has been filled in
  pc,        \* where each call is
  refresh,   \* where the refresh task is that the call has spawned, if any
  news,      \* the list that task has got from bitcoind
  list,      \* the list the call takes its handles from
  looked,    \* history: when the call looked at the list of the state
  params,    \* where the query is with the network parameters
  left,      \* the peers it has not failed on for want of them
  outcome,   \* what the call has returned
  status, found, answer  \* the query of the peers (PeerQuery)

queryVars == <<status, found, answer>>
sharedVars == <<stored, cache, peers, network>>
callVars == <<pc, refresh, news, list, looked, params, left, outcome>>
vars == <<clock, sharedVars, callVars, queryVars>>

Query == INSTANCE PeerQuery WITH Fetches <- Calls, NoBlock <- None
Store == INSTANCE BlockStore WITH store <- cache

-----------------------------------------------------------------------------

Init ==
  /\ clock = 0
  /\ stored \in SUBSET Hashes
  /\ Store!Init
  /\ peers = NoList
  /\ network = FALSE
  /\ pc = [c \in Calls |-> "start"]
  /\ refresh = [c \in Calls |-> "none"]
  /\ news = [c \in Calls |-> NoList]
  /\ list = [c \in Calls |-> NoList]
  /\ looked = [c \in Calls |-> 0]
  /\ params = [c \in Calls |-> "none"]
  /\ left = [c \in Calls |-> 0]
  /\ outcome = [c \in Calls |-> None]
  /\ Query!Init

Tick ==
  /\ clock < MaxTime
  /\ clock' = clock + 1
  /\ UNCHANGED <<sharedVars, callVars, queryVars>>

\* bitcoind prunes a block.
Prune(h) ==
  /\ h \in stored
  /\ stored' = stored \ {h}
  /\ UNCHANGED <<clock, cache, peers, network, callVars, queryVars>>

Return(c, r) ==
  /\ pc' = [pc EXCEPT ![c] = "done"]
  /\ outcome' = [outcome EXCEPT ![c] = r]

\* `block_cache.get`.
Lookup(c) ==
  /\ pc[c] = "start"
  /\ \/ /\ HashOf[c] \in cache
        /\ Return(c, Bytes(HashOf[c]))
     \/ /\ HashOf[c] \notin cache
        /\ pc' = [pc EXCEPT ![c] = "self"]
        /\ UNCHANGED outcome
  /\ UNCHANGED <<clock, sharedVars, refresh, news, list, looked, params, left, queryVars>>

\* Slip: any error from bitcoind sends the call to the peers.
SelfOnAnyError(c) ==
  /\ pc[c] = "self"
  /\ \/ /\ HashOf[c] \in stored
        /\ Return(c, Bytes(HashOf[c]))
     \/ /\ pc' = [pc EXCEPT ![c] = "peers"]
        /\ UNCHANGED outcome
  /\ UNCHANGED <<clock, sharedVars, refresh, news, list, looked, params, left, queryVars>>

\* `fetch_block_from_self`: bitcoind has the block, or answers that it is pruned, or
\* the call fails.
Self(c) ==
  /\ pc[c] = "self"
  /\ \/ /\ HashOf[c] \in stored
        /\ Return(c, Bytes(HashOf[c]))
     \/ /\ HashOf[c] \notin stored
        /\ pc' = [pc EXCEPT ![c] = "peers"]
        /\ UNCHANGED outcome
     \/ Return(c, SelfError)
  /\ UNCHANGED <<clock, sharedVars, refresh, news, list, looked, params, left, queryVars>>

Stale(l) == l.fetched = Never \/ clock - l.fetched > MaxAge

\* Slip: a stale list is used while it is refreshed even if nobody is on it.
MustWaitNever(l) == FALSE

\* A stale list without a peer is no use while it is refreshed.
MustWait(l) == Stale(l) /\ l.size = 0

\* `peers.handles()`, and the query of the peers begins.
Handles(c, l) ==
  /\ pc' = [pc EXCEPT ![c] = "query"]
  /\ list' = [list EXCEPT ![c] = l]
  /\ left' = [left EXCEPT ![c] = l.size]
  /\ Query!Ask(c)

\* `get_peers`: a stale list has a refresh task spawned.
GetPeers(c) ==
  /\ pc[c] = "peers"
  /\ looked' = [looked EXCEPT ![c] = clock]
  /\ refresh' = [refresh EXCEPT ![c] = IF Stale(peers) THEN "asking" ELSE "none"]
  /\ \/ /\ MustWait(peers)
        /\ pc' = [pc EXCEPT ![c] = "await"]
        /\ UNCHANGED <<list, left, queryVars>>
     \/ ~MustWait(peers) /\ Handles(c, peers)
  /\ UNCHANGED <<clock, sharedVars, news, params, outcome>>

\* The refresh task, `Peers::updated`: bitcoind lists its peers, or the call fails.
RefreshAnswered(c) ==
  /\ refresh[c] = "asking"
  /\ \/ \E n \in 0 .. MaxPeers :
          /\ news' = [news EXCEPT ![c] = [fetched |-> clock, size |-> n]]
          /\ refresh' = [refresh EXCEPT ![c] = "writing"]
     \/ /\ refresh' = [refresh EXCEPT ![c] = "failed"]
        /\ UNCHANGED news
  /\ UNCHANGED <<clock, sharedVars, pc, list, looked, params, left, outcome, queryVars>>

\* The refresh task gets the write lock.
RefreshStored(c) ==
  /\ refresh[c] = "writing"
  /\ peers' = news[c]
  /\ refresh' = [refresh EXCEPT ![c] = "stored"]
  /\ UNCHANGED <<clock, stored, cache, network, pc, news, list, looked, params, left, outcome,
                 queryVars>>

\* `handle.await??`.
Awaited(c) ==
  /\ pc[c] = "await"
  /\ \/ /\ refresh[c] = "stored"
        /\ Handles(c, news[c])
        /\ UNCHANGED outcome
     \/ /\ refresh[c] = "failed"
        /\ Return(c, ListError)
        /\ UNCHANGED <<list, left, queryVars>>
  /\ UNCHANGED <<clock, sharedVars, refresh, news, looked, params>>

\* Slip: every query asks bitcoind for the parameters itself.
MayAskAlways == TRUE

\* `OnceCell::get_or_try_init` lets one caller in; the others queue.
MayAsk == \A c \in Calls : params[c] # "asking"

\* Slip: the parameters are asked for before it is known that there is a peer.
ParamsWithoutPeer(c) ==
  /\ pc[c] = "query"
  /\ params[c] = "none"
  /\ ~network /\ MayAsk
  /\ params' = [params EXCEPT ![c] = "asking"]
  /\ UNCHANGED <<clock, sharedVars, pc, refresh, news, list, looked, left, outcome, queryVars>>

\* `network_params`, the first thing the work on any peer needs.
Params(c) ==
  /\ pc[c] = "query" /\ left[c] > 0
  /\ params[c] = "none"
  /\ \/ /\ network
        /\ params' = [params EXCEPT ![c] = "known"]
     \/ /\ ~network /\ MayAsk
        /\ params' = [params EXCEPT ![c] = "asking"]
  /\ UNCHANGED <<clock, sharedVars, pc, refresh, news, list, looked, left, outcome, queryVars>>

\* bitcoind answers `getblockchaininfo`, or the call or `from_blockchain_info` fails,
\* and the work on this peer with it.
ParamsAnswered(c) ==
  /\ pc[c] = "query" /\ params[c] = "asking"
  /\ \/ /\ network' = TRUE
        /\ params' = [params EXCEPT ![c] = "known"]
        /\ UNCHANGED left
     \/ /\ params' = [params EXCEPT ![c] = "none"]
        /\ left' = [left EXCEPT ![c] = left[c] - 1]
        /\ UNCHANGED network
  /\ UNCHANGED <<clock, stored, cache, peers, pc, refresh, news, list, looked, outcome, queryVars>>

\* A peer sends the block.
Find(c) ==
  /\ pc[c] = "query" /\ params[c] = "known"
  /\ ~found[c]
  /\ Query!Find(c)
  /\ UNCHANGED <<clock, sharedVars, callVars>>

\* The query ends, and the call with it: the block is serialized and cached.
Answer(c) ==
  /\ pc[c] = "query"
  /\ params[c] = "known" \/ left[c] = 0
  /\ Query!Answer(c)
  /\ \/ /\ found[c]
        /\ Return(c, Bytes(HashOf[c]))
        /\ Store!Insert(HashOf[c])
     \/ /\ ~found[c]
        /\ Return(c, Pruned)
        /\ UNCHANGED cache
  /\ UNCHANGED <<clock, stored, peers, network, refresh, news, list, looked, params, left>>

\* Slip: the refresh is part of the call and goes with it.
DropWithRefresh(c) ==
  /\ pc[c] \in {"self", "peers", "await", "query"}
  /\ pc' = [pc EXCEPT ![c] = "dropped"]
  /\ params' = [params EXCEPT ![c] = "none"]
  /\ refresh' = [refresh EXCEPT ![c] = "none"]
  /\ IF pc[c] = "query" THEN Query!Drop(c) ELSE UNCHANGED queryVars
  /\ UNCHANGED <<clock, sharedVars, news, list, looked, left, outcome>>

\* Slip: an initialiser that goes away does not let the next one in.
DropWithPermit(c) ==
  /\ pc[c] \in {"self", "peers", "await", "query"}
  /\ pc' = [pc EXCEPT ![c] = "dropped"]
  /\ IF pc[c] = "query" THEN Query!Drop(c) ELSE UNCHANGED queryVars
  /\ UNCHANGED <<clock, sharedVars, refresh, news, list, looked, params, left, outcome>>

\* The call's future is dropped at an await, and with it its place at the OnceCell;
\* the refresh task is not.
Drop(c) ==
  /\ pc[c] \in {"self", "peers", "await", "query"}
  /\ pc' = [pc EXCEPT ![c] = "dropped"]
  /\ params' = [params EXCEPT ![c] = "none"]
  /\ IF pc[c] = "query" THEN Query!Drop(c) ELSE UNCHANGED queryVars
  /\ UNCHANGED <<clock, sharedVars, refresh, news, list, looked, left, outcome>>

\* What waits for bitcoind, and what is only a matter of being polled.
Answered(c) == Self(c) \/ RefreshAnswered(c) \/ ParamsAnswered(c)
Working(c) == Lookup(c) \/ GetPeers(c) \/ Awaited(c) \/ Params(c) \/ Answer(c)

Next ==
  \/ Tick
  \/ \E h \in Hashes : Prune(h)
  \/ \E c \in Calls : Answered(c) \/ RefreshStored(c) \/ Working(c) \/ Find(c) \/ Drop(c)

Spec == Init /\ [][Next]_vars

\* tokio polls what has been woken, and the peers' timeouts fire.  Of bitcoind nothing is
\* assumed: calls to it have no timeout.
Fairness == \A c \in Calls : WF_vars(RefreshStored(c)) /\ WF_vars(Working(c))

FairSpec == Spec /\ Fairness

-----------------------------------------------------------------------------

Outcomes ==
  {Bytes(h) : h \in Hashes} \cup {None, SelfError, ListError, Pruned}

TypeOK ==
  /\ clock \in 0 .. MaxTime
  /\ stored \subseteq Hashes /\ cache \subseteq Hashes
  /\ peers \in Lists /\ network \in BOOLEAN
  /\ pc \in [Calls -> {"start", "self", "peers", "await", "query", "done", "dropped"}]
  /\ refresh \in [Calls -> {"none", "asking", "writing", "stored", "failed"}]
  /\ news \in [Calls -> Lists] /\ list \in [Calls -> Lists]
  /\ looked \in [Calls -> 0 .. MaxTime]
  /\ params \in [Calls -> {"none", "asking", "known"}]
  /\ left \in [Calls -> 0 .. MaxPeers]
  /\ outcome \in [Calls -> Outcomes]

\* The cache is asked ahead of bitcoind because it "only holds blocks bitcoind did not
\* have", and a failure to list the peers "can only ever affect blocks Core no longer
\* has" (fetch_blocks.rs): only blocks that bitcoind has pruned get anywhere near peers.
PeersOnlyForPruned ==
  /\ cache \cap stored = {}
  /\ \A c \in Calls :
       \/ pc[c] \in {"peers", "await", "query"}
       \/ refresh[c] # "none"
       \/ outcome[c] \in {ListError, Pruned}
       => HashOf[c] \notin stored

\* A query without a single peer to ask, which can only fail, goes by a list that was
\* no older than max_peer_age when the call looked for one: an empty list that is stale
\* is never used, whichever of several concurrent refreshes stored it and however late.
NoPeersIsRecentNews ==
  \A c \in Calls :
    pc[c] = "query" /\ list[c].size = 0 =>
      list[c].fetched # Never /\ looked[c] <= list[c].fetched + MaxAge

\* "Concurrent first fetches queue on the OnceCell rather than each issuing the call",
\* and "by the time this runs bitcoind has answered twice" (state.rs, network_params).
ParamsAskedOnceAndLate ==
  \A c \in Calls :
    params[c] = "asking" =>
      /\ ~network
      /\ \A d \in Calls : params[d] = "asking" => d = c
      /\ HashOf[c] \notin stored
      /\ list[c].fetched # Never

\* What `fetch_block_raw` promises its callers (BlockQuery): the block asked for, an error,
\* or nothing; and nothing only if bitcoind has pruned the block, whichever way through
\* cache, peer list, network parameters and peers the call has gone.
Promise ==
  INSTANCE BlockQuery WITH
    want <- HashOf, Errors <- {SelfError, ListError},
    status <- [c \in Calls |-> IF pc[c] \in {"done", "dropped"} THEN pc[c] ELSE "asking"]

ImplementsBlockQuery == Promise!Spec

\* The answer of bitcoind that holds call c up: to its own getblock, to the getpeerinfo it
\* awaits, or to the getblockchaininfo of whoever is let in at the OnceCell.
HeldUp(c) ==
  \/ pc[c] = "self"
  \/ pc[c] = "await" /\ refresh[c] = "asking"
  \/ pc[c] = "query" /\ \E d \in Calls : pc[d] = "query" /\ params[d] = "asking"

\* Every call ends, unless bitcoind leaves it, or the call ahead of it at the OnceCell,
\* without an answer for ever: no peer, no failure or drop of another call and no refresh
\* it does not await can hold it up.
EveryCallEnds ==
  \A c \in Calls : pc[c] # "start" ~> (pc[c] \in {"done", "dropped"} \/ []HeldUp(c))

\* A refresh that bitcoind answers is carried through although the call that wanted it has
\* gone on with the stale list, has ended or has been dropped.
EveryRefreshEnds ==
  \A c \in Calls :
    refresh[c] = "asking" ~> (refresh[c] \in {"stored", "failed"} \/ [](refresh[c] = "asking"))

=============================================================================
