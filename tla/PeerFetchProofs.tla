-------------------------- MODULE PeerFetchProofs --------------------------
(***************************************************************************)
(* PeerFetch, for any peers, honest or not, any fetches and any number of  *)
(* refreshes of the peer list: it implements PeerQuery, the pools hold     *)
(* only idle connections that somebody can take or still keeps open, and   *)
(* honest answers match.  And                                              *)
(* WitnessCheck, for any transactions, outputs and items: the check that   *)
(* stands behind `witness` accepts what is mined and tells witnesses apart.*)
(***************************************************************************)
EXTENDS PeerFetch, WitnessCheck, SequenceTheorems, TLAPS

\* The connections that change hands owe nothing.
HandleInv(f) == \A p \in Peers : handle[f][p] \in {NoConn, Idle}

\* The connection in use owes the answer to this fetch's request and no other.
ConnInv(f) ==
  /\ pc[f] \in AtPeer => cur[f] \in Peers
  /\ pc[f] = "request" => conn[f] = Idle
  /\ pc[f] \in {"read", "pong"} => conn[f] = <<HashOf[f]>>

\* The handles are on peers of the list they came from.
BornInv(f) ==
  /\ born[f] <= generation
  /\ pc[f] \in AtPeer => cur[f] \in lists[born[f]] /\ todo[f] \subseteq lists[born[f]]

\* The channel holds the valid block, from the first acceptance to the end.
ChanInv(f) ==
  /\ pc[f] \in {"idle", "list"} => ~found[f] /\ chan[f] = <<>>
  /\ pc[f] \in AtPeer \cup {"over"} => (found[f] <=> chan[f] # <<>>) /\ result[f] = NoBlock
  /\ chan[f] # <<>> => Head(chan[f]) = Valid(HashOf[f])
  /\ pc[f] \in {"idle", "list"} => result[f] = NoBlock

\* Before it takes its handles a fetch has no sender of any pool.
HoldInv(f) ==
  pc[f] \in {"idle", "list"} =>
    todo[f] = {} /\ cur[f] = NoPeer /\ \A p \in Peers : <<f, p>> \notin jobs

FetchInv(f) == HandleInv(f) /\ ConnInv(f) /\ BornInv(f) /\ ChanInv(f) /\ HoldInv(f)

IInv ==
  /\ TypeOK
  /\ PooledIsIdleAndHeld
  /\ \A f \in Fetches : FetchInv(f)

-----------------------------------------------------------------------------

LEMMA ValidIsBlock == \A h \in Hashes : Valid(h) \in BlockMsg /\ Valid(h).hash = h
BY DEF Valid, BlockMsg

LEMMA ConnFacts ==
  /\ Idle \in Conns /\ NoConn \in Conns /\ Idle # NoConn
  /\ NoHandles \in [Peers -> Conns]
  /\ \A f \in Fetches : <<HashOf[f]>> \in Conns /\ <<HashOf[f]>> # NoConn
<1>1. Idle \in Seq(Hashes)
  BY DEF Idle
<1>2. \A f \in Fetches : <<HashOf[f]>> \in Seq(Hashes)
  BY FetchAssumption
<1>3. NoConn \notin Seq(Hashes)
  BY FetchAssumption
<1> QED
  BY <1>1, <1>2, <1>3 DEF Conns, NoHandles

LEMMA InitIInv == Init => IInv
<1> SUFFICES ASSUME Init PROVE IInv
  OBVIOUS
<1> USE FetchAssumption DEF Init
<1>1. TypeOK
  <2>1. <<>> \in Seq(BlockMsg)
    OBVIOUS
  <2>2. 0 \in Generations
    BY DEF Generations
  <2>3. lists \in [Generations -> SUBSET Peers]
    OBVIOUS
  <2>4. pool \in [Generations -> [Peers -> Conns]]
    BY ConnFacts
  <2> QED
    BY <2>1, <2>2, <2>3, <2>4, ConnFacts DEF TypeOK
<1>2. PooledIsIdleAndHeld
  BY DEF PooledIsIdleAndHeld, NoHandles
<1>3. ASSUME NEW f \in Fetches PROVE FetchInv(f)
  BY DEF FetchInv, HandleInv, ConnInv, BornInv, ChanInv, HoldInv, NoHandles, AtPeer
<1> QED
  BY <1>1, <1>2, <1>3 DEF IInv

\* What turning to the next peer establishes.
LEMMA NextPeerFacts ==
  ASSUME TypeOK, NEW f \in Fetches, NEW S \in SUBSET Peers, NEW hs \in [Peers -> Conns],
         \A p \in Peers : hs[p] \in {NoConn, Idle}, NextPeer(f, S, hs)
  PROVE  /\ pc' \in [Fetches -> AtPeer \cup {"idle", "list", "over", "done", "dropped"}]
         /\ handle' \in [Fetches -> [Peers -> Conns]]
         /\ todo' \in [Fetches -> SUBSET Peers]
         /\ cur' \in [Fetches -> Peers \cup {NoPeer}]
         /\ conn' \in [Fetches -> Conns]
         /\ HandleInv(f)' /\ ConnInv(f)'
         /\ pc'[f] \in {"connect", "request", "over"}
         /\ pc'[f] # "over" => cur'[f] \in S /\ todo'[f] \subseteq S
         /\ \A g \in Fetches : g # f =>
              /\ pc'[g] = pc[g] /\ handle'[g] = handle[g] /\ todo'[g] = todo[g]
              /\ cur'[g] = cur[g] /\ conn'[g] = conn[g]
<1> USE ConnFacts DEF TypeOK, AtPeer
<1>1. CASE /\ S = {}
           /\ pc' = [pc EXCEPT ![f] = "over"]
           /\ cur' = [cur EXCEPT ![f] = NoPeer]
           /\ conn' = [conn EXCEPT ![f] = NoConn]
           /\ todo' = [todo EXCEPT ![f] = {}]
           /\ handle' = [handle EXCEPT ![f] = NoHandles]
  BY <1>1 DEF HandleInv, ConnInv, NoHandles
<1>2. ASSUME NEW p \in S,
             pc' = [pc EXCEPT ![f] = IF hs[p] = NoConn THEN "connect" ELSE "request"],
             cur' = [cur EXCEPT ![f] = p],
             conn' = [conn EXCEPT ![f] = hs[p]],
             todo' = [todo EXCEPT ![f] = S \ {p}],
             handle' = [handle EXCEPT ![f] = [hs EXCEPT ![p] = NoConn]]
      PROVE  /\ pc' \in [Fetches -> AtPeer \cup {"idle", "list", "over", "done", "dropped"}]
             /\ handle' \in [Fetches -> [Peers -> Conns]]
             /\ todo' \in [Fetches -> SUBSET Peers]
             /\ cur' \in [Fetches -> Peers \cup {NoPeer}]
             /\ conn' \in [Fetches -> Conns]
             /\ HandleInv(f)' /\ ConnInv(f)'
             /\ pc'[f] \in {"connect", "request", "over"}
             /\ pc'[f] # "over" => cur'[f] \in S /\ todo'[f] \subseteq S
             /\ \A g \in Fetches : g # f =>
                  /\ pc'[g] = pc[g] /\ handle'[g] = handle[g] /\ todo'[g] = todo[g]
                  /\ cur'[g] = cur[g] /\ conn'[g] = conn[g]
  BY <1>2 DEF HandleInv, ConnInv
<1> QED
  BY <1>1, <1>2 DEF NextPeer

\* The other fetches' invariants survive a step that leaves the list alone and
\* touches none of their variables.
LEMMA OthersKept ==
  ASSUME NEW g \in Fetches, FetchInv(g), generation' = generation, lists' = lists,
         pc'[g] = pc[g], handle'[g] = handle[g], todo'[g] = todo[g], cur'[g] = cur[g],
         conn'[g] = conn[g], born'[g] = born[g], chan'[g] = chan[g],
         result'[g] = result[g], found'[g] = found[g],
         \A p \in Peers : <<g, p>> \in jobs' => <<g, p>> \in jobs
  PROVE  FetchInv(g)'
BY DEF FetchInv, HandleInv, ConnInv, BornInv, ChanInv, HoldInv

\* What a step leaves in the pools, if it is idle and at its list's peers, stays so.
LEMMA PooledMade ==
  ASSUME NEW pl \in [Generations -> [Peers -> Conns]], Pooled(pl),
         \A g \in Generations, p \in Peers :
           pl[g][p] # NoConn => p \in lists'[g] /\ pl[g][p] = Idle
  PROVE  pool' \in [Generations -> [Peers -> Conns]] /\ PooledIsIdleAndHeld'
<1>1. pool' = [g \in Generations |-> [p \in Peers |->
                 IF (Alive(g) \/ Senders(g, p) # {})' THEN pl[g][p] ELSE NoConn]]
  BY DEF Pooled
<1>2. pool' \in [Generations -> [Peers -> Conns]]
  BY <1>1, ConnFacts
<1>3. ASSUME NEW g \in Generations, NEW p \in Peers, pool'[g][p] # NoConn
      PROVE  pool'[g][p] = pl[g][p] /\ (Alive(g) \/ Senders(g, p) # {})'
  BY <1>1, <1>3
<1> QED
  BY <1>2, <1>3 DEF PooledIsIdleAndHeld

LEMMA PooledKept ==
  ASSUME TypeOK, PooledIsIdleAndHeld, Pooled(pool), lists' = lists
  PROVE  pool' \in [Generations -> [Peers -> Conns]] /\ PooledIsIdleAndHeld'
<1>1. pool \in [Generations -> [Peers -> Conns]]
  BY DEF TypeOK
<1>2. \A g \in Generations, p \in Peers :
        pool[g][p] # NoConn => p \in lists'[g] /\ pool[g][p] = Idle
  BY DEF PooledIsIdleAndHeld
<1> QED
  BY <1>1, <1>2, PooledMade

\* What a fetch leaves behind is a job on the peer it was at.
LEMMA AbandonFacts ==
  ASSUME TypeOK, NEW f \in Fetches, pc[f] \in AtPeer => cur[f] \in Peers, Abandon(f)
  PROVE  /\ jobs' \in SUBSET (Fetches \X Peers)
         /\ \A g \in Fetches, p \in Peers : g # f /\ <<g, p>> \in jobs' => <<g, p>> \in jobs
BY DEF Abandon, TypeOK

LEMMA GetListIInv ==
  ASSUME IInv, NEW f \in Fetches, GetList(f)
  PROVE  IInv'
<1> USE FetchAssumption DEF IInv
<1>1. /\ pc[f] = "idle" /\ pc' = [pc EXCEPT ![f] = "list"]
      /\ born' = [born EXCEPT ![f] = generation]
      /\ generation' = generation /\ lists' = lists /\ pool' = pool /\ handle' = handle
      /\ todo' = todo /\ cur' = cur /\ conn' = conn /\ chan' = chan /\ result' = result
      /\ found' = found /\ jobs' = jobs
  BY DEF GetList
<1>2. TypeOK'
  BY <1>1 DEF TypeOK
<1>3. ASSUME NEW n PROVE Alive(n) => Alive(n)'
  BY <1>1 DEF Alive, Holders, TypeOK
<1>4. PooledIsIdleAndHeld'
  <2>1. ASSUME NEW n \in Generations, NEW p \in Peers, NEW g \in Senders(n, p)
        PROVE  g \in Senders(n, p)'
    <3>1. g \in Fetches /\ g # f
      BY <1>1, FetchAssumption DEF Senders, FetchInv, HoldInv
    <3> QED
      BY <1>1, <3>1 DEF Senders, TypeOK
  <2> QED
    BY <1>1, <1>3, <2>1 DEF PooledIsIdleAndHeld
<1>5. FetchInv(f)'
  <2>1. HandleInv(f)' /\ ConnInv(f)' /\ ChanInv(f)' /\ HoldInv(f)'
    BY <1>1 DEF FetchInv, HandleInv, ConnInv, ChanInv, HoldInv, AtPeer, TypeOK
  <2>2. BornInv(f)'
    BY <1>1 DEF BornInv, AtPeer, TypeOK, Generations
  <2> QED
    BY <2>1, <2>2 DEF FetchInv
<1>6. ASSUME NEW g \in Fetches, g # f PROVE FetchInv(g)'
  BY <1>1, <1>6, OthersKept DEF TypeOK
<1> QED
  BY <1>2, <1>4, <1>5, <1>6

LEMMA StartIInv ==
  ASSUME IInv, NEW f \in Fetches, Start(f)
  PROVE  IInv'
<1> DEFINE n == born[f]
           hs == [p \in Peers |-> IF p \in lists[n] THEN pool[n][p] ELSE NoConn]
           rest == [p \in Peers |-> IF p \in lists[n] THEN NoConn ELSE pool[n][p]]
<1> USE FetchAssumption DEF IInv
<1>1. /\ pc[f] = "list" /\ pool' = [pool EXCEPT ![n] = rest]
      /\ NextPeer(f, lists[n], hs)
      /\ lists' = lists /\ generation' = generation /\ born' = born
      /\ chan' = chan /\ result' = result /\ found' = found /\ jobs' = jobs
  BY DEF Start
<1>2. /\ n \in Generations /\ lists[n] \in SUBSET Peers
      /\ pool[n] \in [Peers -> Conns]
  BY DEF TypeOK
<1>3. \A p \in Peers : pool[n][p] \in {NoConn, Idle} /\ (pool[n][p] # NoConn => p \in lists[n])
  BY <1>2 DEF PooledIsIdleAndHeld
<1>4. hs \in [Peers -> Conns] /\ \A p \in Peers : hs[p] \in {NoConn, Idle}
  BY <1>2, <1>3, ConnFacts
<1>5. rest = NoHandles
  BY <1>3 DEF NoHandles
<1> HIDE DEF hs, rest, n
<1>6. /\ pc' \in [Fetches -> AtPeer \cup {"idle", "list", "over", "done", "dropped"}]
      /\ handle' \in [Fetches -> [Peers -> Conns]]
      /\ todo' \in [Fetches -> SUBSET Peers]
      /\ cur' \in [Fetches -> Peers \cup {NoPeer}]
      /\ conn' \in [Fetches -> Conns]
      /\ HandleInv(f)' /\ ConnInv(f)'
      /\ pc'[f] \in {"connect", "request", "over"}
      /\ pc'[f] # "over" => cur'[f] \in lists[n] /\ todo'[f] \subseteq lists[n]
      /\ \A g \in Fetches : g # f =>
           /\ pc'[g] = pc[g] /\ handle'[g] = handle[g] /\ todo'[g] = todo[g]
           /\ cur'[g] = cur[g] /\ conn'[g] = conn[g]
  BY <1>1, <1>2, <1>4, NextPeerFacts
<1>7. pool' \in [Generations -> [Peers -> Conns]]
  BY <1>1, <1>2, <1>5, ConnFacts DEF TypeOK
<1>8. TypeOK'
  BY <1>1, <1>6, <1>7 DEF TypeOK
<1>9. PooledIsIdleAndHeld'
  <2>1. ASSUME NEW m \in Generations, m # n PROVE Alive(m) => Alive(m)'
    BY <1>1, <1>6, <2>1 DEF Alive, Holders, n
  <2>2. ASSUME NEW m \in Generations, NEW p \in Peers, pool'[m][p] # NoConn
        PROVE  m # n /\ pool'[m] = pool[m]
    BY <1>1, <1>2, <1>5, <2>2 DEF TypeOK, NoHandles
  <2>3. ASSUME NEW m \in Generations, m # n, NEW p \in Peers, NEW g \in Senders(m, p)
        PROVE  g \in Senders(m, p)'
    <3>1. g \in Fetches /\ g # f
      BY <2>3 DEF Senders, n
    <3> QED
      BY <1>1, <1>6, <3>1 DEF Senders
  <2> QED
    BY <1>1, <2>1, <2>2, <2>3 DEF PooledIsIdleAndHeld
<1>10. BornInv(f)'
  BY <1>1, <1>6 DEF BornInv, FetchInv, AtPeer, n
<1>11. ChanInv(f)' /\ HoldInv(f)'
  BY <1>1, <1>6 DEF ChanInv, HoldInv, FetchInv, AtPeer
<1>12. ASSUME NEW g \in Fetches, g # f PROVE FetchInv(g)'
  BY <1>1, <1>6, <1>12, OthersKept
<1> QED
  BY <1>6, <1>8, <1>9, <1>10, <1>11, <1>12 DEF FetchInv

LEMMA ForgetIInv ==
  ASSUME IInv, NEW f \in Fetches, Forget(f)
  PROVE  IInv'
<1> USE FetchAssumption DEF IInv
<1>1. /\ pc[f] = "list" /\ pc' = [pc EXCEPT ![f] = "dropped"] /\ Pooled(pool)
      /\ generation' = generation /\ lists' = lists /\ born' = born /\ handle' = handle
      /\ todo' = todo /\ cur' = cur /\ conn' = conn /\ chan' = chan /\ result' = result
      /\ found' = found /\ jobs' = jobs
  BY DEF Forget
<1>2. pool' \in [Generations -> [Peers -> Conns]] /\ PooledIsIdleAndHeld'
  BY <1>1, PooledKept
<1>3. TypeOK'
  BY <1>1, <1>2 DEF TypeOK
<1>4. FetchInv(f)'
  BY <1>1 DEF FetchInv, HandleInv, ConnInv, BornInv, ChanInv, HoldInv, AtPeer, TypeOK
<1>5. ASSUME NEW g \in Fetches, g # f PROVE FetchInv(g)'
  BY <1>1, <1>5, OthersKept DEF TypeOK
<1> QED
  BY <1>2, <1>3, <1>4, <1>5

\* A job left behind ends: its sender may have been the last of its pool.
LEMMA JobEndsIInv ==
  ASSUME IInv, NEW f \in Fetches, NEW p \in Peers, JobEnds(f, p)
  PROVE  IInv'
<1> USE FetchAssumption DEF IInv
<1>1. /\ jobs' = jobs \ {<<f, p>>} /\ Pooled(pool) /\ pc' = pc
      /\ generation' = generation /\ lists' = lists /\ born' = born /\ handle' = handle
      /\ todo' = todo /\ cur' = cur /\ conn' = conn /\ chan' = chan /\ result' = result
      /\ found' = found
  BY DEF JobEnds
<1>2. pool' \in [Generations -> [Peers -> Conns]] /\ PooledIsIdleAndHeld'
  BY <1>1, PooledKept
<1>3. TypeOK'
  BY <1>1, <1>2 DEF TypeOK
<1>4. ASSUME NEW g \in Fetches PROVE FetchInv(g)'
  BY <1>1, OthersKept
<1> QED
  BY <1>2, <1>3, <1>4

\* Connect, Request, ReadPing, Pong: one fetch moves on within the work on a peer.
LEMMA WithinPeerIInv ==
  ASSUME IInv, NEW f \in Fetches, Connect(f) \/ Request(f) \/ ReadPing(f) \/ Pong(f)
  PROVE  IInv'
<1> USE FetchAssumption DEF IInv
<1>1. /\ lists' = lists /\ generation' = generation /\ pool' = pool /\ born' = born
      /\ handle' = handle /\ todo' = todo /\ cur' = cur /\ chan' = chan
      /\ result' = result /\ found' = found /\ jobs' = jobs
  BY DEF Connect, Request, ReadPing, Pong
<1>2. \/ /\ pc[f] = "connect" /\ pc' = [pc EXCEPT ![f] = "request"]
         /\ conn' = [conn EXCEPT ![f] = Idle]
      \/ /\ pc[f] = "request" /\ pc' = [pc EXCEPT ![f] = "read"]
         /\ conn' = [conn EXCEPT ![f] = <<HashOf[f]>>]
      \/ pc[f] = "read" /\ pc' = [pc EXCEPT ![f] = "pong"] /\ conn' = conn
      \/ pc[f] = "pong" /\ pc' = [pc EXCEPT ![f] = "read"] /\ conn' = conn
  <2>1. Append(Idle, HashOf[f]) = <<HashOf[f]>>
    BY DEF Idle
  <2>2. pc[f] = "request" => conn[f] = Idle
    BY DEF FetchInv, ConnInv
  <2> QED
    BY <2>1, <2>2 DEF Connect, Request, ReadPing, Pong
<1>3. /\ pc[f] \in AtPeer /\ pc'[f] \in AtPeer
      /\ \A g \in Fetches : g # f => pc'[g] = pc[g] /\ conn'[g] = conn[g]
  BY <1>2 DEF AtPeer, TypeOK
<1>4. TypeOK'
  <2>1. pc' \in [Fetches -> AtPeer \cup {"idle", "list", "over", "done", "dropped"}]
    BY <1>2 DEF TypeOK, AtPeer
  <2>2. conn' \in [Fetches -> Conns]
    <3>1. conn \in [Fetches -> Conns] /\ Idle \in Conns /\ <<HashOf[f]>> \in Conns
      BY ConnFacts DEF TypeOK
    <3>2. \/ conn' = conn \/ conn' = [conn EXCEPT ![f] = Idle]
          \/ conn' = [conn EXCEPT ![f] = <<HashOf[f]>>]
      BY <1>2, Zenon
    <3>3. \A c \in Conns : [conn EXCEPT ![f] = c] \in [Fetches -> Conns]
      BY <3>1
    <3> QED
      BY <3>1, <3>2, <3>3, Zenon
  <2> QED
    BY <1>1, <2>1, <2>2 DEF TypeOK
<1>5. PooledIsIdleAndHeld'
  <2>1. \A n \in Generations : Alive(n)' <=> Alive(n)
    BY <1>1, <1>3 DEF Alive, Holders, AtPeer
  <2>2. \A n \in Generations, p \in Peers : Senders(n, p)' = Senders(n, p)
    BY <1>1 DEF Senders
  <2> QED
    BY <1>1, <2>1, <2>2 DEF PooledIsIdleAndHeld
<1>6. HandleInv(f)' /\ BornInv(f)'
  BY <1>1, <1>3 DEF FetchInv, HandleInv, BornInv
<1>7. ConnInv(f)'
  <2>1. cur[f] \in Peers
    BY <1>3 DEF FetchInv, ConnInv
  <2> QED
    BY <1>1, <1>2, <2>1 DEF FetchInv, ConnInv, AtPeer, TypeOK
<1>8. ChanInv(f)' /\ HoldInv(f)'
  BY <1>1, <1>3 DEF FetchInv, ChanInv, HoldInv, AtPeer
<1>9. ASSUME NEW g \in Fetches, g # f PROVE FetchInv(g)'
  BY <1>1, <1>3, <1>9, OthersKept
<1> QED
  BY <1>4, <1>5, <1>6, <1>7, <1>8, <1>9 DEF FetchInv

\* GiveUp, and a block that fails a check: the next peer, and nothing else.
LEMMA MoveOnIInv ==
  ASSUME IInv, NEW f \in Fetches, pc[f] \in AtPeer, NextPeer(f, todo[f], handle[f]),
         UNCHANGED <<generation, lists, born, chan, result, found>>,
         Pooled(pool), Abandon(f)
  PROVE  IInv'
<1> USE FetchAssumption DEF IInv
<1>1. /\ todo[f] \in SUBSET Peers /\ handle[f] \in [Peers -> Conns]
      /\ \A p \in Peers : handle[f][p] \in {NoConn, Idle}
  BY DEF TypeOK, FetchInv, HandleInv
<1>2. /\ pc' \in [Fetches -> AtPeer \cup {"idle", "list", "over", "done", "dropped"}]
      /\ handle' \in [Fetches -> [Peers -> Conns]]
      /\ todo' \in [Fetches -> SUBSET Peers]
      /\ cur' \in [Fetches -> Peers \cup {NoPeer}]
      /\ conn' \in [Fetches -> Conns]
      /\ HandleInv(f)' /\ ConnInv(f)'
      /\ pc'[f] \in {"connect", "request", "over"}
      /\ pc'[f] # "over" => cur'[f] \in todo[f] /\ todo'[f] \subseteq todo[f]
      /\ \A g \in Fetches : g # f =>
           /\ pc'[g] = pc[g] /\ handle'[g] = handle[g] /\ todo'[g] = todo[g]
           /\ cur'[g] = cur[g] /\ conn'[g] = conn[g]
  BY <1>1, NextPeerFacts
<1>8. /\ jobs' \in SUBSET (Fetches \X Peers)
      /\ \A g \in Fetches, p \in Peers : g # f /\ <<g, p>> \in jobs' => <<g, p>> \in jobs
  BY AbandonFacts DEF FetchInv, ConnInv
<1>4. pool' \in [Generations -> [Peers -> Conns]] /\ PooledIsIdleAndHeld'
  BY PooledKept
<1>3. TypeOK'
  BY <1>2, <1>4, <1>8 DEF TypeOK
<1>5. BornInv(f)'
  BY <1>2 DEF FetchInv, BornInv, AtPeer
<1>6. ChanInv(f)' /\ HoldInv(f)'
  BY <1>2 DEF FetchInv, ChanInv, HoldInv, AtPeer
<1>7. ASSUME NEW g \in Fetches, g # f PROVE FetchInv(g)'
  BY <1>2, <1>7, <1>8, OthersKept
<1> QED
  BY <1>2, <1>3, <1>4, <1>5, <1>6, <1>7 DEF FetchInv

\* A block that passes the checks: its connection is recycled and it is sent.
LEMMA AcceptIInv ==
  ASSUME IInv, NEW f \in Fetches, NEW b \in BlockMsg,
         pc[f] = "read", NextPeer(f, todo[f], handle[f]), Acceptable(f, b),
         Pooled(Recycled(f, Tail(conn[f]))), chan' = Sent(f, b),
         found' = [found EXCEPT ![f] = TRUE],
         UNCHANGED <<generation, lists, born, jobs, result>>
  PROVE  IInv'
<1> USE FetchAssumption DEF IInv
<1>1. /\ todo[f] \in SUBSET Peers /\ handle[f] \in [Peers -> Conns]
      /\ \A p \in Peers : handle[f][p] \in {NoConn, Idle}
  BY DEF TypeOK, FetchInv, HandleInv
<1>2. /\ pc' \in [Fetches -> AtPeer \cup {"idle", "list", "over", "done", "dropped"}]
      /\ handle' \in [Fetches -> [Peers -> Conns]]
      /\ todo' \in [Fetches -> SUBSET Peers]
      /\ cur' \in [Fetches -> Peers \cup {NoPeer}]
      /\ conn' \in [Fetches -> Conns]
      /\ HandleInv(f)' /\ ConnInv(f)'
      /\ pc'[f] \in {"connect", "request", "over"}
      /\ pc'[f] # "over" => cur'[f] \in todo[f] /\ todo'[f] \subseteq todo[f]
      /\ \A g \in Fetches : g # f =>
           /\ pc'[g] = pc[g] /\ handle'[g] = handle[g] /\ todo'[g] = todo[g]
           /\ cur'[g] = cur[g] /\ conn'[g] = conn[g]
  BY <1>1, NextPeerFacts
<1>3. Tail(conn[f]) = Idle /\ cur[f] \in Peers
  <2>1. conn[f] = <<HashOf[f]>> /\ cur[f] \in Peers
    BY DEF FetchInv, ConnInv, AtPeer
  <2>2. Tail(<<HashOf[f]>>) = Idle
    BY DEF Idle
  <2> QED
    BY <2>1, <2>2
<1>4. b = Valid(HashOf[f])
  BY DEF Acceptable, Valid, BlockMsg
<1>5. chan[f] \in Seq(BlockMsg)
  BY DEF TypeOK
<1>6. /\ Append(chan[f], b) \in Seq(BlockMsg) /\ Append(chan[f], b) # <<>>
      /\ Head(Append(chan[f], b)) = IF chan[f] = <<>> THEN b ELSE Head(chan[f])
  <2>1. Append(chan[f], b) \in Seq(BlockMsg) /\ Append(chan[f], b) # <<>>
    BY <1>5, AppendProperties
  <2>2. CASE chan[f] = <<>>
    BY <2>1, <2>2
  <2>3. CASE chan[f] # <<>>
    <3>1. Len(chan[f]) \in Nat \ {0}
      BY <1>5, <2>3, EmptySeq
    <3>2. Append(chan[f], b)[1] = chan[f][1]
      BY <1>5, <3>1, AppendProperties
    <3> QED
      BY <1>5, <2>1, <2>3, <3>2
  <2> QED
    BY <2>1, <2>2, <2>3
<1>7. chan' = [chan EXCEPT ![f] = Append(chan[f], b)]
  BY DEF Sent
<1>8. chan'[f] # <<>> /\ Head(chan'[f]) = Valid(HashOf[f]) /\ chan' \in [Fetches -> Seq(BlockMsg)]
  <2>1. chan'[f] = Append(chan[f], b) /\ chan' \in [Fetches -> Seq(BlockMsg)]
    BY <1>6, <1>7 DEF TypeOK
  <2>2. chan[f] # <<>> => Head(chan[f]) = Valid(HashOf[f])
    BY DEF FetchInv, ChanInv
  <2> QED
    BY <1>4, <1>6, <2>1, <2>2
<1>9. pool' \in [Generations -> [Peers -> Conns]] /\ PooledIsIdleAndHeld'
  <2> DEFINE n == born[f]
             pl == Recycled(f, Tail(conn[f]))
  <2>1. /\ n \in Generations /\ pool \in [Generations -> [Peers -> Conns]] /\ Idle \in Conns
        /\ cur[f] \in lists[n]
    BY ConnFacts DEF TypeOK, FetchInv, BornInv, AtPeer
  <2>2. /\ pl \in [Generations -> [Peers -> Conns]]
        /\ \A m \in Generations, p \in Peers :
             pl[m][p] # NoConn => p \in lists'[m] /\ pl[m][p] = Idle
    <3>1. CASE Alive(n) /\ pool[n][cur[f]] = NoConn
      <4>1. pl = [pool EXCEPT ![n][cur[f]] = Idle]
        BY <1>3, <3>1 DEF Recycled
      <4> HIDE DEF pl, n
      <4>2. /\ pl \in [Generations -> [Peers -> Conns]]
            /\ \A m \in Generations, p \in Peers :
                 pl[m][p] = IF m = n /\ p = cur[f] THEN Idle ELSE pool[m][p]
        BY <1>3, <2>1, <4>1
      <4> QED
        BY <2>1, <4>2 DEF PooledIsIdleAndHeld
    <3>2. CASE ~(Alive(n) /\ pool[n][cur[f]] = NoConn)
      BY <2>1, <3>2 DEF Recycled, PooledIsIdleAndHeld
    <3> QED
      BY <3>1, <3>2
  <2> QED
    BY <2>2, PooledMade
<1>10. TypeOK'
  BY <1>2, <1>8, <1>9 DEF TypeOK
<1>11. BornInv(f)'
  BY <1>2 DEF FetchInv, BornInv, AtPeer
<1>14. HoldInv(f)'
  BY <1>2 DEF HoldInv
<1>12. ChanInv(f)'
  <2>1. found'[f] /\ result'[f] = NoBlock
    BY DEF TypeOK, FetchInv, ChanInv, AtPeer
  <2> QED
    BY <1>2, <1>8, <2>1 DEF ChanInv
<1>13. ASSUME NEW g \in Fetches, g # f PROVE FetchInv(g)'
  <2>1. chan'[g] = chan[g] /\ found'[g] = found[g] /\ born'[g] = born[g] /\ result'[g] = result[g]
    BY <1>7, <1>13 DEF TypeOK
  <2> QED
    BY <1>2, <1>13, <2>1, OthersKept
<1> QED
  BY <1>2, <1>9, <1>10, <1>11, <1>12, <1>13, <1>14 DEF FetchInv

LEMMA ReadBlockIInv ==
  ASSUME IInv, NEW f \in Fetches, ReadBlock(f)
  PROVE  IInv'
<1>1. PICK b \in Readable(cur[f], conn[f]) :
        \/ /\ Acceptable(f, b)
           /\ Pooled(Recycled(f, Tail(conn[f])))
           /\ chan' = Sent(f, b)
           /\ found' = [found EXCEPT ![f] = TRUE]
        \/ /\ ~Acceptable(f, b)
           /\ Pooled(pool)
           /\ UNCHANGED <<chan, found>>
  BY DEF ReadBlock
<1>2. pc[f] = "read" /\ NextPeer(f, todo[f], handle[f])
      /\ UNCHANGED <<generation, lists, born, jobs, result>>
  BY DEF ReadBlock
<1>3. b \in BlockMsg
  <2>1. conn[f] = <<HashOf[f]>>
    BY <1>2 DEF IInv, FetchInv, ConnInv
  <2> QED
    BY <1>1, <2>1, FetchAssumption, ValidIsBlock DEF Readable
<1>4. CASE Acceptable(f, b)
  BY <1>1, <1>2, <1>3, <1>4, AcceptIInv
<1>5. CASE ~Acceptable(f, b)
  BY <1>1, <1>2, <1>5, MoveOnIInv DEF AtPeer, Abandon
<1> QED
  BY <1>4, <1>5

\* SelectBlock, SelectRunner and Cancel.
LEMMA EndIInv ==
  ASSUME IInv, NEW f \in Fetches, pc[f] # "list", NEW r \in BlockMsg \cup {NoBlock},
         NEW how \in {"done", "dropped"}, End(f, r, how)
  PROVE  IInv'
<1> USE FetchAssumption DEF IInv
<1>1. /\ result' = [result EXCEPT ![f] = r] /\ pc' = [pc EXCEPT ![f] = how]
      /\ cur' = [cur EXCEPT ![f] = NoPeer] /\ conn' = [conn EXCEPT ![f] = NoConn]
      /\ todo' = [todo EXCEPT ![f] = {}] /\ handle' = [handle EXCEPT ![f] = NoHandles]
      /\ chan' = [chan EXCEPT ![f] = <<>>]
      /\ lists' = lists /\ generation' = generation /\ born' = born
      /\ found' = found /\ Abandon(f) /\ Pooled(pool)
  BY DEF End
<1>8. /\ jobs' \in SUBSET (Fetches \X Peers)
      /\ \A g \in Fetches, p \in Peers : g # f /\ <<g, p>> \in jobs' => <<g, p>> \in jobs
  BY <1>1, AbandonFacts DEF FetchInv, ConnInv
<1>3. pool' \in [Generations -> [Peers -> Conns]] /\ PooledIsIdleAndHeld'
  BY <1>1, PooledKept
<1>2. TypeOK'
  <2>1. <<>> \in Seq(BlockMsg)
    OBVIOUS
  <2>2. chan' \in [Fetches -> Seq(BlockMsg)]
    BY <1>1, <2>1 DEF TypeOK
  <2>3. conn' \in [Fetches -> Conns] /\ handle' \in [Fetches -> [Peers -> Conns]]
    BY <1>1, ConnFacts DEF TypeOK
  <2> QED
    BY <1>1, <1>3, <1>8, <2>2, <2>3 DEF TypeOK
<1>4. /\ pc'[f] = how /\ how \notin AtPeer \cup {"idle", "over"} /\ chan'[f] = <<>>
      /\ handle'[f] = NoHandles
  BY <1>1 DEF TypeOK, AtPeer
<1>5. HandleInv(f)' /\ ConnInv(f)' /\ ChanInv(f)' /\ HoldInv(f)'
  BY <1>4 DEF HandleInv, ConnInv, ChanInv, HoldInv, NoHandles, AtPeer
<1>6. BornInv(f)'
  BY <1>1, <1>4 DEF FetchInv, BornInv
<1>7. ASSUME NEW g \in Fetches, g # f PROVE FetchInv(g)'
  <2>1. /\ pc'[g] = pc[g] /\ handle'[g] = handle[g] /\ todo'[g] = todo[g]
        /\ cur'[g] = cur[g] /\ conn'[g] = conn[g] /\ chan'[g] = chan[g]
        /\ result'[g] = result[g]
    BY <1>1, <1>7 DEF TypeOK
  <2> QED
    BY <1>1, <1>7, <1>8, <2>1, OthersKept
<1> QED
  BY <1>2, <1>3, <1>5, <1>6, <1>7 DEF FetchInv

LEMMA RefreshIInv ==
  ASSUME IInv, Refresh
  PROVE  IInv'
<1> USE FetchAssumption DEF IInv
<1>1. PICK L \in SUBSET Peers : lists' = [lists EXCEPT ![generation + 1] = L]
  BY DEF Refresh
<1>2. /\ generation < MaxRefreshes /\ generation' = generation + 1
      /\ Pooled(pool)
      /\ UNCHANGED <<pc, born, handle, todo, cur, conn, jobs, chan, result, found>>
  BY DEF Refresh, fetchVars
<1>3. generation \in Generations /\ generation + 1 \in Generations /\ generation # generation + 1
  BY <1>2 DEF TypeOK, Generations
<1>5. lists' \in [Generations -> SUBSET Peers]
  BY <1>1 DEF TypeOK
<1>7. \A f \in Fetches : born[f] \in Generations /\ born[f] <= generation /\ born[f] # generation + 1
  BY <1>3 DEF TypeOK, FetchInv, BornInv, Generations
<1>8. \A p \in Peers : pool[generation + 1][p] = NoConn
  <2>1. ~Alive(generation + 1) /\ \A p \in Peers : Senders(generation + 1, p) = {}
    BY <1>3, <1>7 DEF Alive, Holders, Senders
  <2> QED
    BY <1>3, <2>1 DEF PooledIsIdleAndHeld
<1>10. pool' \in [Generations -> [Peers -> Conns]] /\ PooledIsIdleAndHeld'
  <2>1. pool \in [Generations -> [Peers -> Conns]]
    BY DEF TypeOK
  <2>2. ASSUME NEW m \in Generations, NEW p \in Peers, pool[m][p] # NoConn
        PROVE  p \in lists'[m] /\ pool[m][p] = Idle
    <3>1. m # generation + 1
      BY <1>8, <2>2
    <3>2. lists'[m] = lists[m]
      BY <1>1, <3>1 DEF TypeOK
    <3> QED
      BY <2>2, <3>2 DEF PooledIsIdleAndHeld
  <2> QED
    BY <1>2, <2>1, <2>2, PooledMade
<1>6. TypeOK'
  BY <1>2, <1>3, <1>5, <1>10 DEF TypeOK
<1>11. ASSUME NEW f \in Fetches PROVE FetchInv(f)'
  <2>1. HandleInv(f)' /\ ConnInv(f)' /\ ChanInv(f)' /\ HoldInv(f)'
    BY <1>2 DEF FetchInv, HandleInv, ConnInv, ChanInv, HoldInv
  <2>2. lists'[born[f]] = lists[born[f]]
    BY <1>1, <1>7 DEF TypeOK
  <2>3. BornInv(f)'
    BY <1>2, <1>3, <1>7, <2>2 DEF FetchInv, BornInv, Generations
  <2> QED
    BY <2>1, <2>3 DEF FetchInv
<1> QED
  BY <1>6, <1>10, <1>11

\* What the last poll, or `select!`, takes out of the channel.
LEMMA HeadIsBlock ==
  ASSUME IInv, NEW f \in Fetches, chan[f] # <<>>
  PROVE  Head(chan[f]) = Valid(HashOf[f]) /\ Head(chan[f]) \in BlockMsg
BY FetchAssumption, ValidIsBlock DEF IInv, FetchInv, ChanInv

LEMMA NextIInv == IInv /\ [Next]_vars => IInv'
<1> SUFFICES ASSUME IInv, [Next]_vars PROVE IInv'
  OBVIOUS
<1>1. CASE Refresh
  BY <1>1, RefreshIInv
<1>2. ASSUME NEW f \in Fetches, Start(f) PROVE IInv'
  BY <1>2, StartIInv
<1>10. ASSUME NEW f \in Fetches, GetList(f) PROVE IInv'
  BY <1>10, GetListIInv
<1>11. ASSUME NEW f \in Fetches, Forget(f) PROVE IInv'
  BY <1>11, ForgetIInv
<1>3. ASSUME NEW f \in Fetches, Connect(f) \/ Request(f) \/ ReadPing(f) \/ Pong(f) PROVE IInv'
  BY <1>3, WithinPeerIInv
<1>4. ASSUME NEW f \in Fetches, GiveUp(f) PROVE IInv'
  BY <1>4, MoveOnIInv DEF GiveUp, GivesUp
<1>5. ASSUME NEW f \in Fetches, ReadBlock(f) PROVE IInv'
  BY <1>5, ReadBlockIInv
<1>6. ASSUME NEW f \in Fetches, SelectBlock(f) PROVE IInv'
  BY <1>6, HeadIsBlock, EndIInv DEF SelectBlock, AtPeer
<1>7. ASSUME NEW f \in Fetches, SelectRunner(f) PROVE IInv'
  BY <1>7, HeadIsBlock, EndIInv DEF SelectRunner, LastPoll
<1>8. ASSUME NEW f \in Fetches, Cancel(f) PROVE IInv'
  BY <1>8, EndIInv DEF Cancel, AtPeer
<1>9. CASE UNCHANGED vars
  <2>1. TypeOK'
    BY <1>9 DEF vars, fetchVars, IInv, TypeOK
  <2>3. PooledIsIdleAndHeld'
    <3>1. \A n : Alive(n)' <=> Alive(n)
      BY <1>9 DEF vars, fetchVars, Alive, Holders
    <3>2. \A n, p : Senders(n, p)' = Senders(n, p)
      BY <1>9 DEF vars, fetchVars, Senders
    <3> QED
      BY <1>9, <3>1, <3>2 DEF vars, IInv, PooledIsIdleAndHeld
  <2>2. ASSUME NEW f \in Fetches PROVE FetchInv(f)'
    BY <1>9, OthersKept DEF vars, fetchVars, IInv
  <2> QED
    BY <2>1, <2>2, <2>3 DEF IInv
<1>12. ASSUME NEW f \in Fetches, NEW p \in Peers, JobEnds(f, p) PROVE IInv'
  BY <1>12, JobEndsIInv
<1> QED
  BY <1>1, <1>2, <1>3, <1>4, <1>5, <1>6, <1>7, <1>8, <1>9, <1>10, <1>11, <1>12 DEF Next

LEMMA InvariantIInv == Spec => []IInv
BY InitIInv, NextIInv, PTL DEF Spec

-----------------------------------------------------------------------------
(* The theorems. *)

\* Types.
THEOREM TypeCorrect == Spec => []TypeOK
<1>1. IInv => TypeOK
  BY DEF IInv
<1> QED
  BY <1>1, InvariantIInv, PTL

\* `recycle` puts only idle connections in a pool, and what stays in the pool of a list
\* that is gone is there for a fetch that began with it and still has a sender.
THEOREM PoolStaysClean == Spec => []PooledIsIdleAndHeld
<1>1. IInv => PooledIsIdleAndHeld
  BY DEF IInv
<1> QED
  BY <1>1, InvariantIInv, PTL

\* The match in fetch_block_from_peer never rejects an honest peer's answer.
THEOREM HonestNeverBlamed == Spec => []HonestAnswersMatch
<1>1. IInv => HonestAnswersMatch
  <2> SUFFICES ASSUME IInv, NEW f \in Fetches, pc[f] = "read", cur[f] \in Honest,
                      NEW b \in Readable(cur[f], conn[f])
               PROVE  Acceptable(f, b)
    BY DEF HonestAnswersMatch
  <2>1. conn[f] = <<HashOf[f]>>
    BY DEF IInv, FetchInv, ConnInv
  <2>2. b = Valid(HashOf[f])
    BY <2>1 DEF Readable
  <2> QED
    BY <2>2 DEF Acceptable, Valid
<1> QED
  BY <1>1, InvariantIInv, PTL

\* The status of a query, as a function; the substitution of the refinement.
status == [f \in Fetches |-> StatusOf(f)]

LEMMA RefinedInit == Init => Query!Init
<1> SUFFICES ASSUME Init PROVE Query!Init
  OBVIOUS
<1>1. \A f \in Fetches : StatusOf(f) = "idle"
  BY DEF Init, StatusOf, AtPeer
<1> QED
  BY <1>1 DEF Init, Query!Init

\* A step that changes neither what the caller sees nor whether a block was found.
LEMMA Unseen ==
  ASSUME \A f \in Fetches : StatusOf(f)' = StatusOf(f), found' = found, result' = result
  PROVE  UNCHANGED Query!queryVars
<1>1. status' = status
  BY DEF status
<1> QED
  BY <1>1 DEF Query!queryVars, status

\* A step of fetch f as a change of the status function.
LEMMA StatusStep ==
  ASSUME TypeOK, NEW f \in Fetches, \A g \in Fetches : g # f => pc'[g] = pc[g]
  PROVE  status' = [status EXCEPT ![f] = StatusOf(f)']
<1>1. \A g \in Fetches : g # f => StatusOf(g)' = StatusOf(g)
  BY DEF StatusOf
<1> QED
  BY <1>1 DEF status

LEMMA RefinedNext == IInv /\ IInv' /\ [Next]_vars => [Query!Next]_(Query!queryVars)
<1> SUFFICES ASSUME IInv, IInv', [Next]_vars
             PROVE  Query!Next \/ UNCHANGED Query!queryVars
  OBVIOUS
<1>1. CASE Refresh \/ UNCHANGED vars
  <2>1. pc' = pc /\ found' = found /\ result' = result
    BY <1>1 DEF Refresh, fetchVars, vars
  <2> QED
    BY <2>1, Unseen DEF StatusOf
<1>2. ASSUME NEW f \in Fetches, Connect(f) \/ Request(f) \/ ReadPing(f) \/ Pong(f)
      PROVE  UNCHANGED Query!queryVars
  <2>1. found' = found /\ result' = result
    BY <1>2 DEF Connect, Request, ReadPing, Pong
  <2>2. /\ pc[f] \in AtPeer /\ pc'[f] \in AtPeer
        /\ \A g \in Fetches : g # f => pc'[g] = pc[g]
    BY <1>2 DEF Connect, Request, ReadPing, Pong, AtPeer, IInv, TypeOK
  <2> QED
    BY <2>1, <2>2, Unseen DEF StatusOf
<1>3. ASSUME NEW f \in Fetches, GetList(f) PROVE Query!Ask(f)
  <2>1. /\ StatusOf(f) = "idle" /\ StatusOf(f)' = "asking"
        /\ \A g \in Fetches : g # f => pc'[g] = pc[g]
    BY <1>3 DEF GetList, StatusOf, AtPeer, IInv, TypeOK
  <2>2. status' = [status EXCEPT ![f] = "asking"] /\ status[f] = "idle"
    BY <2>1, StatusStep DEF IInv, status
  <2>3. found' = found /\ result' = result
    BY <1>3 DEF GetList
  <2> QED
    BY <2>2, <2>3 DEF Query!Ask, status
<1>4. ASSUME NEW f \in Fetches, pc[f] \in AtPeer \cup {"list"}, NEW S, NEW hs, NextPeer(f, S, hs)
      PROVE  \A g \in Fetches : StatusOf(g)' = StatusOf(g)
  BY <1>4 DEF NextPeer, StatusOf, AtPeer, IInv, TypeOK
<1>11. ASSUME NEW f \in Fetches, Start(f) PROVE UNCHANGED Query!queryVars
  <2>1. /\ found' = found /\ result' = result /\ pc[f] = "list"
        /\ \E S, hs : NextPeer(f, S, hs)
    BY <1>11 DEF Start
  <2> QED
    BY <1>4, <2>1, Unseen
<1>12. ASSUME NEW f \in Fetches, Forget(f) PROVE Query!Drop(f)
  <2>1. /\ StatusOf(f) = "asking" /\ StatusOf(f)' = "dropped"
        /\ \A g \in Fetches : g # f => pc'[g] = pc[g]
    BY <1>12 DEF Forget, StatusOf, AtPeer, IInv, TypeOK
  <2>2. status' = [status EXCEPT ![f] = "dropped"] /\ status[f] = "asking"
    BY <2>1, StatusStep DEF IInv, status
  <2>3. found' = found /\ result' = result
    BY <1>12 DEF Forget
  <2> QED
    BY <2>2, <2>3 DEF Query!Drop, status
<1>13. ASSUME NEW f \in Fetches, NEW p \in Peers, JobEnds(f, p)
       PROVE  UNCHANGED Query!queryVars
  <2>1. pc' = pc /\ found' = found /\ result' = result
    BY <1>13 DEF JobEnds
  <2> QED
    BY <2>1, Unseen DEF StatusOf
<1>5. ASSUME NEW f \in Fetches, GiveUp(f) PROVE UNCHANGED Query!queryVars
  <2>1. found' = found /\ result' = result /\ pc[f] \in AtPeer /\ NextPeer(f, todo[f], handle[f])
    BY <1>5 DEF GiveUp, GivesUp
  <2> QED
    BY <1>4, <2>1, Unseen
<1>6. ASSUME NEW f \in Fetches, ReadBlock(f)
      PROVE  Query!Find(f) \/ UNCHANGED Query!queryVars
  <2>1. pc[f] = "read" /\ NextPeer(f, todo[f], handle[f]) /\ result' = result
    BY <1>6 DEF ReadBlock
  <2>2. \A g \in Fetches : StatusOf(g)' = StatusOf(g)
    BY <1>4, <2>1 DEF AtPeer
  <2>3. found' = found \/ found' = [found EXCEPT ![f] = TRUE]
    BY <1>6 DEF ReadBlock
  <2>4. CASE found' = found
    BY <2>1, <2>2, <2>4, Unseen
  <2>5. CASE found' = [found EXCEPT ![f] = TRUE]
    <3>1. status' = status /\ status[f] = "asking"
      BY <2>1, <2>2 DEF status, StatusOf, AtPeer
    <3> QED
      BY <2>1, <2>5, <3>1 DEF Query!Find, status
  <2> QED
    BY <2>3, <2>4, <2>5
<1>7. ASSUME NEW f \in Fetches, NEW r, NEW how \in {"done", "dropped"}, End(f, r, how)
      PROVE  /\ status' = [status EXCEPT ![f] = how] /\ found' = found
             /\ result' = [result EXCEPT ![f] = r]
  <2>1. /\ result' = [result EXCEPT ![f] = r] /\ pc' = [pc EXCEPT ![f] = how]
        /\ found' = found
    BY <1>7 DEF End
  <2>2. StatusOf(f)' = how /\ \A g \in Fetches : g # f => pc'[g] = pc[g]
    BY <2>1 DEF StatusOf, AtPeer, IInv, TypeOK
  <2> QED
    BY <2>1, <2>2, StatusStep DEF IInv
<1>8. ASSUME NEW f \in Fetches, SelectBlock(f) PROVE Query!Answer(f)
  <2>1. chan[f] # <<>> /\ pc[f] \in AtPeer /\ End(f, Head(chan[f]), "done")
    BY <1>8 DEF SelectBlock
  <2>2. found[f] /\ Head(chan[f]) = Valid(HashOf[f])
    BY <2>1, HeadIsBlock DEF IInv, FetchInv, ChanInv
  <2>3. status[f] = "asking"
    BY <2>1 DEF status, StatusOf
  <2>4. /\ status' = [status EXCEPT ![f] = "done"] /\ found' = found
        /\ result' = [result EXCEPT ![f] = Head(chan[f])]
    BY <1>7, <2>1
  <2> QED
    BY <2>2, <2>3, <2>4 DEF Query!Answer, status
<1>9. ASSUME NEW f \in Fetches, SelectRunner(f) PROVE Query!Answer(f)
  <2>1. pc[f] = "over" /\ End(f, LastPoll(f), "done")
    BY <1>9 DEF SelectRunner
  <2>2. LastPoll(f) = IF found[f] THEN Valid(HashOf[f]) ELSE NoBlock
    <3>1. found[f] <=> chan[f] # <<>>
      BY <2>1 DEF IInv, FetchInv, ChanInv
    <3> QED
      BY <3>1, HeadIsBlock DEF LastPoll
  <2>3. status[f] = "asking"
    BY <2>1 DEF status, StatusOf
  <2>4. /\ status' = [status EXCEPT ![f] = "done"] /\ found' = found
        /\ result' = [result EXCEPT ![f] = LastPoll(f)]
    BY <1>7, <2>1
  <2> QED
    BY <2>2, <2>3, <2>4 DEF Query!Answer, status
<1>10. ASSUME NEW f \in Fetches, Cancel(f) PROVE Query!Drop(f)
  <2>1. pc[f] \in AtPeer /\ End(f, NoBlock, "dropped")
    BY <1>10 DEF Cancel
  <2>2. status[f] = "asking"
    BY <2>1 DEF status, StatusOf
  <2>3. /\ status' = [status EXCEPT ![f] = "dropped"] /\ found' = found
        /\ result' = [result EXCEPT ![f] = NoBlock]
    BY <1>7, <2>1
  <2>4. result' = result
    <3>1. result[f] = NoBlock /\ result \in [Fetches -> BlockMsg \cup {NoBlock}]
      BY <2>1 DEF IInv, TypeOK, FetchInv, ChanInv
    <3> QED
      BY <2>3, <3>1
  <2> QED
    BY <2>2, <2>3, <2>4 DEF Query!Drop, status
<1> QED
  BY <1>1, <1>2, <1>3, <1>5, <1>6, <1>8, <1>9, <1>10, <1>11, <1>12, <1>13 DEF Next, Query!Next

\* fetch_block_from_peers keeps PeerQuery's promise whatever the peers send.
THEOREM Refinement == Spec => ImplementsPeerQuery
BY RefinedInit, RefinedNext, InvariantIInv, PTL DEF Spec, ImplementsPeerQuery, Query!Spec

-----------------------------------------------------------------------------
(* WitnessCheck. *)

\* What is accepted is accepted: the verdict is that of the check, and what was received
\* differs from what was mined in its witnesses only.
WitnessInv ==
  /\ mined \in Block /\ check_witnesses(mined)
  /\ received \in Block /\ received.outputs = mined.outputs
  /\ verdict = "accepted" => check_witnesses(received)
  /\ verdict = "refused" => ~check_witnesses(received)

\* The output the code looks at is the one BIP141 means.
LEMMA SameOutput ==
  ASSUME NEW b
  PROVE  /\ Commits(b) <=> Committed(b) # {}
         /\ Committed(b) # {} => b.outputs[Position(b)].bytes = Commitment(b)
<1>1. Committed(b) = {i \in DOMAIN b.outputs : IsCommitment(b.outputs[i])}
  BY DEF Committed, IsCommitment
<1>2. Commits(b) <=> Committed(b) # {}
  BY <1>1 DEF Commits
<1>3. \A i : (/\ i \in DOMAIN b.outputs /\ IsCommitment(b.outputs[i])
              /\ \A j \in DOMAIN b.outputs : IsCommitment(b.outputs[j]) => j <= i)
             <=> (i \in Committed(b) /\ \A j \in Committed(b) : j <= i)
  BY <1>1
<1>4. Position(b) = CHOOSE i \in Committed(b) : \A j \in Committed(b) : j <= i
  BY <1>3 DEF Position
<1> QED
  BY <1>2, <1>4 DEF Commitment

LEMMA Witness0 ==
  ASSUME NEW b \in Block
  PROVE  b.coinbase \in Seq(Items) /\ Len(b.coinbase) \in Nat /\ (b.coinbase = <<>> <=> Len(b.coinbase) = 0)
<1>1. PICK k \in 0 .. MaxItems : b.coinbase \in [1 .. k -> Items]
  BY DEF Block, UpTo
<1>2. b.coinbase \in Seq(Items)
  BY <1>1, WitnessAssumption, SeqDef
<1> QED
  BY <1>2, EmptySeq

LEMMA MinedPasses ==
  ASSUME NEW b \in Block, Active(b) \/ Signalling(b) PROVE check_witnesses(b)
<1>1. CASE ~Commits(b)
  BY <1>1, SameOutput DEF check_witnesses, Active, Signalling
<1>2. CASE Commits(b) /\ Active(b)
  <2>1. PICK salt \in Salts : b.coinbase = <<salt>> /\ Commitment(b) = <<b.txs, salt>>
    BY <1>2, SameOutput DEF Active
  <2>2. Reserved(b) = {salt}
    BY <2>1 DEF Reserved
  <2> QED
    BY <1>2, <2>1, <2>2, SameOutput DEF check_witnesses, check_witness_commitment
<1>3. CASE Commits(b) /\ Signalling(b)
  <2>1. b.coinbase = <<>> /\ Commitment(b) = <<b.txs, "zero32">>
    BY <1>3, SameOutput DEF Signalling, Carries
  <2>2. Reserved(b) = {"zero32"}
    BY <2>1 DEF Reserved
  <2> QED
    BY <1>3, <2>1, <2>2, SameOutput DEF check_witnesses, check_witness_commitment
<1> QED
  BY <1>1, <1>2, <1>3

\* The salt leaves no doubt about the coinbase's witness, but for that of 32 zero bytes.
LEMMA SaltTells ==
  ASSUME NEW a \in Block, NEW b \in Block, NEW salt, salt \in Reserved(a), salt \in Reserved(b)
  PROVE  a.coinbase # b.coinbase => {a.coinbase, b.coinbase} = {<<>>, <<"zero32">>}
<1>1. ASSUME NEW c \in Block, salt \in Reserved(c)
      PROVE  (c.coinbase = <<>> /\ salt = "zero32") \/ c.coinbase = <<salt>>
  <2>1. CASE Len(c.coinbase) = 0
    BY <1>1, <2>1, Witness0 DEF Reserved
  <2>2. CASE Len(c.coinbase) = 1
    <3>1. c.coinbase[1] = salt
      BY <1>1, <2>2 DEF Reserved
    <3>2. c.coinbase \in Seq(Items) /\ DOMAIN c.coinbase = 1 .. 1
      BY <2>2, Witness0
    <3>3. salt \in Items
      BY <3>1, <3>2
    <3> QED
      BY <2>2, <3>1, <3>2, <3>3
  <2>3. CASE Len(c.coinbase) \notin {0, 1}
    BY <1>1, <2>3 DEF Reserved
  <2> QED
    BY <2>1, <2>2, <2>3
<1>2. (a.coinbase = <<>> /\ salt = "zero32") \/ a.coinbase = <<salt>>
  BY <1>1
<1>3. (b.coinbase = <<>> /\ salt = "zero32") \/ b.coinbase = <<salt>>
  BY <1>1
<1> QED
  BY <1>2, <1>3

LEMMA InitWitnessInv == WitnessInit => WitnessInv
BY MinedPasses DEF WitnessInit, WitnessInv

LEMMA NextWitnessInv == WitnessInv /\ [Receive]_witnessVars => WitnessInv'
<1> SUFFICES ASSUME WitnessInv, [Receive]_witnessVars PROVE WitnessInv'
  OBVIOUS
<1>1. CASE UNCHANGED witnessVars
  <2>1. mined' = mined /\ received' = received /\ verdict' = verdict
    BY <1>1 DEF witnessVars
  <2> QED
    BY <2>1 DEF WitnessInv
<1>2. CASE Receive
  <2>1. mined' = mined /\ verdict' = IF check_witnesses(received') THEN "accepted" ELSE "refused"
    BY <1>2 DEF Receive
  <2>2. PICK cw \in UpTo(Items, MaxItems), ws \in Roots :
          received' = [mined EXCEPT !.coinbase = cw, !.txs = ws]
    BY <1>2 DEF Receive
  <2>3. received' \in Block /\ received'.outputs = mined.outputs
    BY <2>2 DEF WitnessInv, Block
  <2> QED
    BY <2>1, <2>3 DEF WitnessInv
<1> QED
  BY <1>1, <1>2

LEMMA InvariantWitnessInv == WitnessSpec => []WitnessInv
BY InitWitnessInv, NextWitnessInv, PTL DEF WitnessSpec

\* Every block is accepted as it was mined: with a commitment and its reserved value, with
\* a commitment and nothing behind it, or with neither.
THEOREM MinedAccepted == WitnessSpec => []MinedIsAccepted
<1>1. WitnessInv => MinedIsAccepted
  BY DEF WitnessInv, MinedIsAccepted
<1> QED
  BY <1>1, InvariantWitnessInv, PTL

\* No witness of a transaction can be removed, added or changed unnoticed, and of the
\* coinbase's only one of 32 zero bytes.
THEOREM WitnessesKept == WitnessSpec => []WitnessesAsMined
<1>1. WitnessInv => WitnessesAsMined
  <2> SUFFICES ASSUME WitnessInv, verdict = "accepted" PROVE WitnessesAsMined
    BY DEF WitnessesAsMined
  <2>1. /\ mined \in Block /\ received \in Block /\ received.outputs = mined.outputs
        /\ check_witnesses(mined) /\ check_witnesses(received)
    BY DEF WitnessInv
  <2>2. Commits(received) <=> Commits(mined)
    BY <2>1 DEF Commits
  <2>3. CASE Commits(mined)
    <3>1. Position(received) = Position(mined)
      BY <2>1 DEF Position
    <3>2. PICK s \in Reserved(mined) : mined.outputs[Position(mined)].bytes = <<mined.txs, s>>
      BY <2>1, <2>3 DEF check_witnesses, check_witness_commitment
    <3>3. PICK r \in Reserved(received) :
            received.outputs[Position(received)].bytes = <<received.txs, r>>
      BY <2>1, <2>2, <2>3 DEF check_witnesses, check_witness_commitment
    <3>4. received.txs = mined.txs /\ r = s
      BY <2>1, <3>1, <3>2, <3>3
    <3> QED
      BY <2>1, <3>2, <3>3, <3>4, SaltTells DEF WitnessesAsMined
  <2>4. CASE ~Commits(mined)
    <3>1. ~Carries(mined) /\ ~Carries(received)
      BY <2>1, <2>2, <2>4 DEF check_witnesses
    <3>2. received.coinbase = mined.coinbase
      BY <3>1 DEF Carries
    <3>3. received.txs \in Roots /\ mined.txs \in Roots /\ \A t \in Txs : received.txs[t] = mined.txs[t]
      BY <2>1, <3>1 DEF Carries, Block
    <3>4. received.txs = mined.txs
      BY <3>3 DEF Roots
    <3> QED
      BY <3>2, <3>4 DEF WitnessesAsMined
  <2> QED
    BY <2>3, <2>4
<1> QED
  BY <1>1, InvariantWitnessInv, PTL

=============================================================================
