----------------------------- MODULE PeerFetch -----------------------------
(***************************************************************************)
(* Fetching a block from bitcoind's own peers (src/src/fetch_blocks.rs,    *)
(* `Peer` to `fetch_block_from_peers`).                                    *)
(*                                                                         *)
(* A fetch gets hold of the current peer list (`State::get_peers`), takes  *)
(* a handle on every peer of it, and with the handle the peer's pooled     *)
(* connection if there is one; the list may have been replaced by then.    *)
(* It then lets `runner` and the receiver of a channel race in `select!`.  *)
(* `runner` is a `then` stream: it works on one peer at a time, and        *)
(* whenever a peer is done with, well or badly, it turns to the next one   *)
(* in the same poll.  A valid block sends the connection back to the pool  *)
(* and the block down the channel.                                         *)
(*                                                                         *)
(* A pool is a channel: closed once the list, with the receivers, is gone, *)
(* but what is queued in it stays until the last sender is gone too.       *)
(* Senders are in the list, in the handles, and with every connection in   *)
(* use, also one that a job on a blocking thread still holds after the     *)
(* fetch has given up waiting for it.                                      *)
(*                                                                         *)
(* A connection is known by the requests its peer has been sent and has    *)
(* not answered: that is what may still come out of it.  Any peer may send *)
(* a ping or stall; an honest one sends no block but the answers to the    *)
(* requests, in order; any other may send any block at any time.  Messages *)
(* that are neither blocks nor pings are logged and change nothing.        *)
(***************************************************************************)
EXTENDS Naturals, Sequences, FiniteSets

CONSTANTS
  Peers,         \* the peers bitcoind may list
  Honest,        \* those that answer each request with the block asked for
  Hashes,        \* block hashes
  Fetches,       \* calls of fetch_block_from_peers
  HashOf,        \* HashOf[f]: the hash fetch f asks for
  MaxRefreshes,  \* bound on how often the peer list is replaced
  NoConn, NoPeer, NoBlock

ASSUME FetchAssumption ==
  /\ Honest \subseteq Peers
  /\ HashOf \in [Fetches -> Hashes]
  /\ MaxRefreshes \in Nat
  /\ NoConn \notin Seq(Hashes)
  /\ NoPeer \notin Peers
  /\ NoBlock \notin [hash : Hashes, merkle : BOOLEAN, witness : BOOLEAN]

VARIABLES
  generation,  \* how often the list has been replaced
  lists,       \* lists[g]: the peers of the g-th list
  pool,        \* pool[g][p]: the pooled connection of a `Peer` of the g-th list
  pc,          \* where each fetch is
  born,        \* the list it got hold of
  handle,      \* `PeerHandle::conn` of each handle
  todo,        \* peers `runner` has not turned to yet
  cur, conn,   \* the peer it is working on, and the connection in use
  jobs,        \* <<f, p>>: a blocking job of f left behind with its connection to p
  chan,        \* the blocks sent down the channel and not received
  result,      \* what the fetch returned
  found        \* history: the fetch has accepted a block

fetchVars == <<pc, born, handle, todo, cur, conn, jobs, chan, result, found>>
vars == <<generation, lists, pool, fetchVars>>

BlockMsg == [hash : Hashes, merkle : BOOLEAN, witness : BOOLEAN]
Valid(h) == [hash |-> h, merkle |-> TRUE, witness |-> TRUE]

\* A fresh connection, after the handshake: nothing asked, nothing owed.
Idle == <<>>

AtPeer == {"connect", "request", "read", "pong"}
NoHandles == [p \in Peers |-> NoConn]
Generations == 0 .. MaxRefreshes

\* Fetches that hold the `Arc` of the g-th list and have not taken handles yet.
Holders(g) == {f \in Fetches : pc[f] = "list" /\ born[f] = g}

\* The list is the state's, or somebody's: the receivers of its pools exist.
Alive(g) == g = generation \/ Holders(g) # {}

\* Fetches with a sender of the pool of p: in a handle, with the connection in use, or
\* with one left behind.
Senders(g, p) ==
  {f \in Fetches : born[f] = g /\ (p \in todo[f] \cup {cur[f]} \/ <<f, p>> \in jobs)}

\* The step leaves pl in the pools, but for those it took the last end of.
Pooled(pl) ==
  pool' = [g \in Generations |-> [p \in Peers |->
             IF (Alive(g) \/ Senders(g, p) # {})' THEN pl[g][p] ELSE NoConn]]

-----------------------------------------------------------------------------

Init ==
  /\ generation = 0
  /\ lists \in {[g \in Generations |-> IF g = 0 THEN L ELSE {}] : L \in SUBSET Peers}
  /\ pool = [g \in Generations |-> NoHandles]
  /\ pc = [f \in Fetches |-> "idle"]
  /\ born = [f \in Fetches |-> 0]
  /\ handle = [f \in Fetches |-> NoHandles]
  /\ todo = [f \in Fetches |-> {}]
  /\ cur = [f \in Fetches |-> NoPeer]
  /\ conn = [f \in Fetches |-> NoConn]
  /\ jobs = {}
  /\ chan = [f \in Fetches |-> <<>>]
  /\ result = [f \in Fetches |-> NoBlock]
  /\ found = [f \in Fetches |-> FALSE]

\* `runner` turns to its next peer, of those in S whose handles are hs: `connect`
\* takes the handle's connection or opens one.  With no peer left it is over.
NextPeer(f, S, hs) ==
  \/ /\ S = {}
     /\ pc' = [pc EXCEPT ![f] = "over"]
     /\ cur' = [cur EXCEPT ![f] = NoPeer]
     /\ conn' = [conn EXCEPT ![f] = NoConn]
     /\ todo' = [todo EXCEPT ![f] = {}]
     /\ handle' = [handle EXCEPT ![f] = NoHandles]
  \/ \E p \in S :
       /\ pc' = [pc EXCEPT ![f] = IF hs[p] = NoConn THEN "connect" ELSE "request"]
       /\ cur' = [cur EXCEPT ![f] = p]
       /\ conn' = [conn EXCEPT ![f] = hs[p]]
       /\ todo' = [todo EXCEPT ![f] = S \ {p}]
       /\ handle' = [handle EXCEPT ![f] = [hs EXCEPT ![p] = NoConn]]

\* `get_peers` clones the list, or its own refresh has just stored it.
GetList(f) ==
  /\ pc[f] = "idle"
  /\ pc' = [pc EXCEPT ![f] = "list"]
  /\ born' = [born EXCEPT ![f] = generation]
  /\ UNCHANGED <<generation, lists, pool, handle, todo, cur, conn, jobs, chan, result, found>>

\* `peers.handles()` and the first poll: the pooled connections of all peers of the
\* list leave their pools at once.
Start(f) ==
  LET g == born[f]
      hs == [p \in Peers |-> IF p \in lists[g] THEN pool[g][p] ELSE NoConn]
  IN /\ pc[f] = "list"
     /\ pool' = [pool EXCEPT ![g] = [p \in Peers |-> IF p \in lists[g] THEN NoConn
                                                    ELSE pool[g][p]]]
     /\ NextPeer(f, lists[g], hs)
     /\ UNCHANGED <<generation, lists, born, jobs, chan, result, found>>

\* BitcoinPeerConnection::connect: dial, directly or by proxy, and shake hands.
Connect(f) ==
  /\ pc[f] = "connect"
  /\ conn' = [conn EXCEPT ![f] = Idle]
  /\ pc' = [pc EXCEPT ![f] = "request"]
  /\ UNCHANGED <<generation, lists, pool, born, handle, todo, cur, jobs, chan, result, found>>

\* `getdata` is written to the connection.
Request(f) ==
  /\ pc[f] = "request"
  /\ conn' = [conn EXCEPT ![f] = Append(conn[f], HashOf[f])]
  /\ pc' = [pc EXCEPT ![f] = "read"]
  /\ UNCHANGED <<generation, lists, pool, born, handle, todo, cur, jobs, chan, result, found>>

\* Slip: timeouts cover dialling and writing only.
GivesUpExceptReading(f) == pc[f] \in {"connect", "request"}

\* An error, or `peer_timeout` has run out, at any point of the work on a peer.
GivesUp(f) == pc[f] \in AtPeer

\* What the fetch waits for is not waited for any more: if it is a job that has the
\* connection, a write or a read on its socket, the job stays.
Abandon(f) ==
  \/ UNCHANGED jobs
  \/ pc[f] \in AtPeer \ {"connect"} /\ jobs' = jobs \cup {<<f, cur[f]>>}

\* Slip: a connection goes back to its pool even when the work on it failed.
GiveUpRecycled(f) ==
  /\ GivesUp(f)
  /\ NextPeer(f, todo[f], handle[f])
  /\ UNCHANGED <<generation, lists, born, jobs, chan, result, found>>
  /\ Pooled(IF conn[f] # NoConn /\ Alive(born[f])
            THEN [pool EXCEPT ![born[f]][cur[f]] = conn[f]] ELSE pool)

\* The work on the peer failed: the connection is dropped with all it is owed, or, after
\* a timeout, left to the job that has it.
GiveUp(f) ==
  /\ GivesUp(f)
  /\ NextPeer(f, todo[f], handle[f])
  /\ Abandon(f)
  /\ UNCHANGED <<generation, lists, born, chan, result, found>>
  /\ Pooled(pool)

\* A job left behind ends, if its peer sends something or hangs up; nobody waits for
\* what it returns, and its connection is dropped.
JobEnds(f, p) ==
  /\ <<f, p>> \in jobs
  /\ jobs' = jobs \ {<<f, p>>}
  /\ UNCHANGED <<generation, lists, pc, born, handle, todo, cur, conn, chan, result, found>>
  /\ Pooled(pool)

\* The blocks that may come out of the connection to p now.
Readable(p, c) ==
  IF p \in Honest
  THEN {Valid(c[i]) : i \in {j \in DOMAIN c : j = 1}}
  ELSE BlockMsg

\* Slip: a block is taken for the one asked for whatever its hash.
AcceptableByChecksOnly(f, b) == b.merkle /\ b.witness

\* The match on hash, merkle root and witness commitment.
Acceptable(f, b) == b.hash = HashOf[f] /\ b.merkle /\ b.witness

\* Slip: a connection goes to the current list's pool, whichever list it came from.
RecycledToCurrentList(f, c) ==
  IF pool[generation][cur[f]] = NoConn
  THEN [pool EXCEPT ![generation][cur[f]] = c] ELSE pool

\* `recycle`: `try_send` to the connection's own pool, which is closed when the list is
\* gone and full when another fetch was first; then the connection drops.
Recycled(f, c) ==
  IF Alive(born[f]) /\ pool[born[f]][cur[f]] = NoConn
  THEN [pool EXCEPT ![born[f]][cur[f]] = c] ELSE pool

\* `send.clone().try_send(block)`: each clone of the sender has a slot of its own.
Sent(f, b) == [chan EXCEPT ![f] = Append(chan[f], b)]

\* A block is read.  Accepted, it ends the work on this peer well; a block that
\* fails a check ends it badly.
ReadBlock(f) ==
  /\ pc[f] = "read"
  /\ NextPeer(f, todo[f], handle[f])
  /\ UNCHANGED <<generation, lists, born, jobs, result>>
  /\ \E b \in Readable(cur[f], conn[f]) :
       \/ /\ Acceptable(f, b)
          /\ Pooled(Recycled(f, Tail(conn[f])))
          /\ chan' = Sent(f, b)
          /\ found' = [found EXCEPT ![f] = TRUE]
       \/ /\ ~Acceptable(f, b)
          /\ Pooled(pool)
          /\ UNCHANGED <<chan, found>>

\* A ping is read, and answered.
ReadPing(f) ==
  /\ pc[f] = "read"
  /\ pc' = [pc EXCEPT ![f] = "pong"]
  /\ UNCHANGED <<generation, lists, pool, born, handle, todo, cur, conn, jobs, chan, result, found>>

Pong(f) ==
  /\ pc[f] = "pong"
  /\ pc' = [pc EXCEPT ![f] = "read"]
  /\ UNCHANGED <<generation, lists, pool, born, handle, todo, cur, conn, jobs, chan, result, found>>

\* The fetch is over for its caller: everything it still holds is dropped, but for what
\* a job has.
End(f, r, how) ==
  /\ result' = [result EXCEPT ![f] = r]
  /\ pc' = [pc EXCEPT ![f] = how]
  /\ cur' = [cur EXCEPT ![f] = NoPeer]
  /\ conn' = [conn EXCEPT ![f] = NoConn]
  /\ todo' = [todo EXCEPT ![f] = {}]
  /\ handle' = [handle EXCEPT ![f] = NoHandles]
  /\ chan' = [chan EXCEPT ![f] = <<>>]
  /\ Abandon(f)
  /\ UNCHANGED <<generation, lists, born, found>>
  /\ Pooled(pool)

\* `select!` sees the channel first.
SelectBlock(f) ==
  /\ pc[f] \in AtPeer
  /\ chan[f] # <<>>
  /\ End(f, Head(chan[f]), "done")

\* Slip: when `runner` is over first, the channel is not looked at again.
LastPollSkipped(f) == NoBlock

\* The last `poll!` of the channel.
LastPoll(f) == IF chan[f] # <<>> THEN Head(chan[f]) ELSE NoBlock

\* `select!` sees the end of `runner` first.
SelectRunner(f) ==
  /\ pc[f] = "over"
  /\ End(f, LastPoll(f), "done")

\* The caller's connection is gone and the future is dropped at an await.
Cancel(f) ==
  /\ pc[f] \in AtPeer
  /\ End(f, NoBlock, "dropped")

\* The same while `get_peers` still waits for its refresh: the list is let go of.
Forget(f) ==
  /\ pc[f] = "list"
  /\ pc' = [pc EXCEPT ![f] = "dropped"]
  /\ UNCHANGED <<generation, lists, born, handle, todo, cur, conn, jobs, chan, result, found>>
  /\ Pooled(pool)

\* A refresh stores a new list; the old one goes, unless somebody holds it.
Refresh ==
  /\ generation < MaxRefreshes
  /\ generation' = generation + 1
  /\ \E L \in SUBSET Peers : lists' = [lists EXCEPT ![generation + 1] = L]
  /\ UNCHANGED fetchVars
  /\ Pooled(pool)

Next ==
  \/ Refresh
  \/ \E f \in Fetches :
       \/ GetList(f) \/ Forget(f) \/ Start(f) \/ Connect(f) \/ Request(f) \/ GiveUp(f)
       \/ ReadBlock(f) \/ ReadPing(f) \/ Pong(f)
       \/ SelectBlock(f) \/ SelectRunner(f) \/ Cancel(f)
       \/ \E p \in Peers : JobEnds(f, p)

Spec == Init /\ [][Next]_vars

\* tokio's timers fire, and a task that has been woken is polled.
Fairness ==
  \A f \in Fetches : /\ WF_vars(GiveUp(f))
                     /\ WF_vars(Start(f) \/ SelectBlock(f) \/ SelectRunner(f))

FairSpec == Spec /\ Fairness

-----------------------------------------------------------------------------

Conns == Seq(Hashes) \cup {NoConn}

TypeOK ==
  /\ generation \in Generations
  /\ lists \in [Generations -> SUBSET Peers]
  /\ pool \in [Generations -> [Peers -> Conns]]
  /\ pc \in [Fetches -> AtPeer \cup {"idle", "list", "over", "done", "dropped"}]
  /\ born \in [Fetches -> Generations]
  /\ handle \in [Fetches -> [Peers -> Conns]]
  /\ todo \in [Fetches -> SUBSET Peers]
  /\ cur \in [Fetches -> Peers \cup {NoPeer}]
  /\ conn \in [Fetches -> Conns]
  /\ jobs \in SUBSET (Fetches \X Peers)
  /\ chan \in [Fetches -> Seq(BlockMsg)]
  /\ result \in [Fetches -> BlockMsg \cup {NoBlock}]
  /\ found \in [Fetches -> BOOLEAN]

\* An honest peer is never blamed for the answer to an older question: the block
\* it sends is always the one this fetch asked for, although connections pass from
\* fetch to fetch through the pool and fetches time out or are cancelled halfway.
HonestAnswersMatch ==
  \A f \in Fetches :
    pc[f] = "read" /\ cur[f] \in Honest =>
      \A b \in Readable(cur[f], conn[f]) : Acceptable(f, b)

\* Whatever is pooled is a connection to a peer of that list and owes no answer.  It can
\* still be taken, or it is kept by a fetch that began with that list: one that has yet
\* to finish with that peer, or has left a job on a connection to it.
PooledIsIdleAndHeld ==
  \A g \in Generations, p \in Peers :
    pool[g][p] # NoConn =>
      p \in lists[g] /\ pool[g][p] = Idle /\ (Alive(g) \/ Senders(g, p) # {})

\* A list that has been replaced keeps no connection open for good, although its pools
\* are filled by fetches that began with it and outlive it: in the end they are empty,
\* but for peers on whose sockets a job is left behind.
ReplacedPoolsDrain ==
  \A g \in Generations, p \in Peers :
    g < generation ~> [](pool[g][p] = NoConn \/ \E f \in Fetches : born[f] = g /\ <<f, p>> \in jobs)

\* The query a caller sees, in the terms of PeerQuery.
StatusOf(f) ==
  IF pc[f] \in AtPeer \cup {"list", "over"} THEN "asking" ELSE pc[f]

Query == INSTANCE PeerQuery WITH
  status <- [f \in Fetches |-> StatusOf(f)],
  answer <- result

\* fetch_block_from_peers implements PeerQuery: peers that send wrong, invalid or
\* unsolicited blocks, stall or hang up never make it return anything but the valid
\* block asked for, and a block that has been accepted is never lost, also not when
\* `runner` ends in the same poll.
ImplementsPeerQuery == Query!Spec

\* Every fetch ends, even if every peer stalls or pings for ever.
EveryFetchEnds ==
  \A f \in Fetches : pc[f] # "idle" ~> pc[f] \in {"done", "dropped"}

\* README.md and config_spec.toml of max_peer_concurrency: peers are asked for the
\* same block at once, every eligible one when it is unset; so when the fetch waits
\* for a peer's answer every listed peer has been turned to.
EveryPeerIsAskedAtOnce == \A f \in Fetches : pc[f] = "read" => todo[f] = {}

=============================================================================
