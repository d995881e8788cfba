-------------------------- MODULE BlockFetchProofs --------------------------
(***************************************************************************)
(* BlockFetch, for any calls, hashes, ages and sizes of peer lists: only   *)
(* pruned blocks get near the peers, an empty list that is used is recent  *)
(* news, and the network parameters are asked for by one call at a time.   *)
(***************************************************************************)
EXTENDS BlockFetch, TLAPS

\* A list with a peer on it, and any list a refresh has got, came from bitcoind.
ListInv(l) == l \in Lists /\ (l.size > 0 => l.fetched # Never)

\* A refresh belongs to a call past get_peers, and its list is as recent as the call's
\* look at the state.
RefreshInv(c) ==
  /\ pc[c] \in {"start", "self", "peers"} => refresh[c] = "none"
  /\ looked[c] <= clock
  /\ refresh[c] \in {"writing", "stored"} =>
       news[c].fetched # Never /\ looked[c] <= news[c].fetched

\* The parameters are asked for on behalf of a peer of a list from bitcoind.
ParamsInv(c) ==
  /\ params[c] = "asking" => pc[c] = "query" /\ left[c] > 0 /\ ~network
  /\ left[c] > 0 => list[c].fetched # Never

Alone == \A c, d \in Calls : params[c] = "asking" /\ params[d] = "asking" => c = d

CallInv(c) == ListInv(news[c]) /\ RefreshInv(c) /\ ParamsInv(c)

IInv ==
  /\ TypeOK
  /\ PeersOnlyForPruned
  /\ NoPeersIsRecentNews
  /\ ListInv(peers)
  /\ \A c \in Calls : CallInv(c)
  /\ Alone

-----------------------------------------------------------------------------

LEMMA OutcomesDiffer ==
  /\ \A h : Bytes(h) \notin {ListError, Pruned}
  /\ SelfError \notin {ListError, Pruned}
  /\ None \in Outcomes /\ SelfError \in Outcomes /\ ListError \in Outcomes /\ Pruned \in Outcomes
  /\ \A c \in Calls : Bytes(HashOf[c]) \in Outcomes
BY CallAssumption DEF Bytes, SelfError, ListError, Pruned, Outcomes

LEMMA NeverFacts ==
  /\ NoList \in Lists /\ ListInv(NoList) /\ Never \notin 0 .. MaxTime
  /\ \A t \in 0 .. MaxTime, n \in 0 .. MaxPeers : ListInv([fetched |-> t, size |-> n])
BY CallAssumption DEF NoList, Lists, ListInv, Never

LEMMA InitIInv == Init => IInv
<1> SUFFICES ASSUME Init PROVE IInv
  OBVIOUS
<1> USE CallAssumption, OutcomesDiffer, NeverFacts DEF Init, Store!Init
<1>1. TypeOK
  <2>1. clock \in 0 .. MaxTime /\ looked \in [Calls -> 0 .. MaxTime] /\ left \in [Calls -> 0 .. MaxPeers]
    OBVIOUS
  <2>2. news \in [Calls -> Lists] /\ list \in [Calls -> Lists] /\ peers \in Lists
    OBVIOUS
  <2>3. outcome \in [Calls -> Outcomes]
    OBVIOUS
  <2> QED
    BY <2>1, <2>2, <2>3 DEF TypeOK
<1>2. PeersOnlyForPruned /\ NoPeersIsRecentNews
  BY DEF PeersOnlyForPruned, NoPeersIsRecentNews
<1>3. ASSUME NEW c \in Calls PROVE CallInv(c)
  <2>1. ListInv(news[c])
    <3>1. news[c] = NoList
      OBVIOUS
    <3> QED
      BY <3>1, Zenon
  <2>2. RefreshInv(c) /\ ParamsInv(c)
    BY DEF RefreshInv, ParamsInv
  <2> QED
    BY <2>1, <2>2 DEF CallInv
<1>4. Alone
  BY DEF Alone
<1> QED
  BY <1>1, <1>2, <1>3, <1>4 DEF IInv

LEMMA TickIInv == ASSUME IInv, Tick PROVE IInv'
<1> USE CallAssumption DEF IInv
<1>1. /\ clock' = clock + 1 /\ clock' \in 0 .. MaxTime /\ clock < clock'
      /\ UNCHANGED <<sharedVars, callVars, queryVars>>
  BY DEF Tick, TypeOK
<1>2. TypeOK' /\ PeersOnlyForPruned' /\ NoPeersIsRecentNews' /\ ListInv(peers)' /\ Alone'
  BY <1>1 DEF sharedVars, callVars, TypeOK, PeersOnlyForPruned, NoPeersIsRecentNews, ListInv, Alone
<1>3. ASSUME NEW c \in Calls PROVE CallInv(c)'
  <2>1. looked[c] <= clock'
    BY <1>1 DEF TypeOK, CallInv, RefreshInv
  <2> QED
    BY <1>1, <2>1 DEF sharedVars, callVars, CallInv, RefreshInv, ParamsInv, ListInv
<1> QED
  BY <1>2, <1>3

LEMMA PruneIInv == ASSUME IInv, NEW h \in Hashes, Prune(h) PROVE IInv'
<1> USE DEF IInv
<1>1. stored' \subseteq stored /\ UNCHANGED <<clock, cache, peers, network, callVars, queryVars>>
  BY DEF Prune
<1>2. TypeOK' /\ NoPeersIsRecentNews' /\ ListInv(peers)' /\ Alone'
  BY <1>1 DEF callVars, TypeOK, NoPeersIsRecentNews, ListInv, Alone
<1>3. PeersOnlyForPruned'
  BY <1>1 DEF callVars, PeersOnlyForPruned
<1>4. ASSUME NEW c \in Calls PROVE CallInv(c)'
  BY <1>1 DEF callVars, CallInv, RefreshInv, ParamsInv, ListInv
<1> QED
  BY <1>2, <1>3, <1>4

\* A call's invariant survives the steps of the others.
LEMMA OthersKept ==
  ASSUME NEW d \in Calls, CallInv(d), clock' = clock,
         pc'[d] = pc[d], refresh'[d] = refresh[d], news'[d] = news[d], looked'[d] = looked[d],
         params'[d] = params[d], left'[d] = left[d], list'[d] = list[d],
         network' = network \/ params[d] # "asking"
  PROVE  CallInv(d)'
BY DEF CallInv, RefreshInv, ParamsInv, ListInv

\* Lookup and Self.
LEMMA BeforePeersIInv == ASSUME IInv, NEW c \in Calls, Lookup(c) \/ Self(c) PROVE IInv'
<1> USE CallAssumption, OutcomesDiffer DEF IInv
<1>1. /\ clock' = clock /\ UNCHANGED sharedVars /\ refresh' = refresh /\ news' = news
      /\ list' = list /\ looked' = looked /\ params' = params /\ left' = left
  BY DEF Lookup, Self
<1>2. /\ pc[c] \in {"start", "self"}
      /\ pc' = [pc EXCEPT ![c] = pc'[c]] /\ pc'[c] \in {"self", "peers", "done"}
      /\ pc'[c] = "peers" => HashOf[c] \notin stored
  BY DEF Lookup, Self, Return, TypeOK
<1>3. /\ outcome' = [outcome EXCEPT ![c] = outcome'[c]]
      /\ outcome'[c] \in Outcomes
      /\ outcome'[c] \in {outcome[c], Bytes(HashOf[c]), SelfError}
  BY DEF Lookup, Self, Return, TypeOK
<1>4. refresh[c] = "none"
  BY <1>2 DEF CallInv, RefreshInv
<1>5. /\ \A d \in Calls : d # c => pc'[d] = pc[d] /\ outcome'[d] = outcome[d]
      /\ pc' \in [Calls -> {"start", "self", "peers", "await", "query", "done", "dropped"}]
      /\ outcome' \in [Calls -> Outcomes]
  BY <1>2, <1>3 DEF TypeOK
<1>6. TypeOK'
  BY <1>1, <1>5 DEF TypeOK, sharedVars
<1>7. PeersOnlyForPruned'
  <2>1. outcome'[c] \in {ListError, Pruned} => outcome[c] \in {ListError, Pruned}
    BY <1>3
  <2> QED
    BY <1>1, <1>2, <1>4, <1>5, <2>1 DEF PeersOnlyForPruned, sharedVars
<1>8. NoPeersIsRecentNews' /\ ListInv(peers)' /\ Alone'
  BY <1>1, <1>2, <1>5 DEF NoPeersIsRecentNews, ListInv, Alone, sharedVars
<1>9. CallInv(c)'
  BY <1>1, <1>2, <1>4 DEF CallInv, RefreshInv, ParamsInv, ListInv, sharedVars
<1>10. ASSUME NEW d \in Calls, d # c PROVE CallInv(d)'
  BY <1>1, <1>5, <1>10, OthersKept DEF sharedVars
<1> QED
  BY <1>6, <1>7, <1>8, <1>9, <1>10

\* What it takes for a call to begin its query with list l.
LEMMA HandlesIInv ==
  ASSUME IInv, NEW c \in Calls, NEW l, ListInv(l), Handles(c, l), UNCHANGED <<clock, sharedVars>>,
         UNCHANGED <<news, params, outcome>>, params[c] # "asking", HashOf[c] \notin stored,
         refresh' \in [Calls -> {"none", "asking", "writing", "stored", "failed"}],
         looked' \in [Calls -> 0 .. MaxTime],
         \A d \in Calls : d # c => refresh'[d] = refresh[d] /\ looked'[d] = looked[d],
         l.size = 0 => l.fetched # Never /\ looked'[c] <= l.fetched + MaxAge,
         looked'[c] <= clock,
         refresh'[c] \in {"writing", "stored"} =>
           news[c].fetched # Never /\ looked'[c] <= news[c].fetched
  PROVE  IInv'
<1> USE CallAssumption DEF IInv
<1>1. /\ pc' = [pc EXCEPT ![c] = "query"] /\ list' = [list EXCEPT ![c] = l]
      /\ left' = [left EXCEPT ![c] = l.size]
      /\ peers' = peers /\ network' = network /\ stored' = stored /\ cache' = cache
  BY DEF Handles, sharedVars
<1>2. l \in Lists /\ l.size \in 0 .. MaxPeers /\ (l.size > 0 => l.fetched # Never)
  BY DEF ListInv, Lists
<1>3. /\ pc'[c] = "query" /\ list'[c] = l /\ left'[c] = l.size
      /\ \A d \in Calls : d # c => pc'[d] = pc[d] /\ list'[d] = list[d] /\ left'[d] = left[d]
  BY <1>1 DEF TypeOK
<1>4. TypeOK'
  BY <1>1, <1>2 DEF TypeOK
<1>5. PeersOnlyForPruned'
  BY <1>1, <1>3 DEF PeersOnlyForPruned
<1>6. NoPeersIsRecentNews'
  BY <1>3 DEF NoPeersIsRecentNews
<1>7. ListInv(peers)' /\ Alone'
  BY <1>1 DEF ListInv, Alone
<1>8. CallInv(c)'
  BY <1>1, <1>2, <1>3 DEF CallInv, RefreshInv, ParamsInv, ListInv
<1>9. ASSUME NEW d \in Calls, d # c PROVE CallInv(d)'
  BY <1>1, <1>3, <1>9, OthersKept
<1> QED
  BY <1>4, <1>5, <1>6, <1>7, <1>8, <1>9

LEMMA GetPeersIInv == ASSUME IInv, NEW c \in Calls, GetPeers(c) PROVE IInv'
<1> USE CallAssumption DEF IInv
<1>1. /\ pc[c] = "peers" /\ looked' = [looked EXCEPT ![c] = clock]
      /\ refresh' = [refresh EXCEPT ![c] = IF Stale(peers) THEN "asking" ELSE "none"]
      /\ UNCHANGED <<clock, sharedVars, news, params, outcome>>
  BY DEF GetPeers
<1>2. /\ HashOf[c] \notin stored /\ params[c] # "asking"
  BY <1>1 DEF PeersOnlyForPruned, CallInv, ParamsInv
<1>3. /\ refresh' \in [Calls -> {"none", "asking", "writing", "stored", "failed"}]
      /\ looked' \in [Calls -> 0 .. MaxTime]
      /\ looked'[c] = clock /\ refresh'[c] \in {"none", "asking"} /\ clock <= clock
      /\ \A d \in Calls : d # c => refresh'[d] = refresh[d] /\ looked'[d] = looked[d]
  BY <1>1 DEF TypeOK
<1>4. CASE ~MustWait(peers) /\ Handles(c, peers)
  <2>1. peers.size = 0 => peers.fetched # Never /\ clock <= peers.fetched + MaxAge
    BY <1>4 DEF MustWait, Stale, TypeOK, Lists
  <2> QED
    BY <1>1, <1>2, <1>3, <1>4, <2>1, HandlesIInv
<1>5. CASE /\ pc' = [pc EXCEPT ![c] = "await"] /\ UNCHANGED <<list, left, queryVars>>
  <2>1. /\ pc'[c] = "await" /\ \A d \in Calls : d # c => pc'[d] = pc[d]
        /\ peers' = peers /\ network' = network /\ stored' = stored /\ cache' = cache
    BY <1>1, <1>5 DEF TypeOK, sharedVars
  <2>2. TypeOK'
    BY <1>1, <1>3, <1>5, <2>1 DEF TypeOK
  <2>3. PeersOnlyForPruned' /\ NoPeersIsRecentNews' /\ ListInv(peers)' /\ Alone'
    BY <1>1, <1>2, <1>3, <1>5, <2>1 DEF PeersOnlyForPruned, NoPeersIsRecentNews, ListInv, Alone
  <2>4. CallInv(c)'
    BY <1>1, <1>2, <1>3, <1>5, <2>1 DEF CallInv, RefreshInv, ParamsInv, ListInv
  <2>5. ASSUME NEW d \in Calls, d # c PROVE CallInv(d)'
    BY <1>1, <1>3, <1>5, <2>1, <2>5, OthersKept
  <2> QED
    BY <2>2, <2>3, <2>4, <2>5
<1> QED
  BY <1>4, <1>5 DEF GetPeers

\* The refresh task's two steps.
Refreshing(c) == RefreshAnswered(c) \/ RefreshStored(c)

LEMMA RefreshingIInv == ASSUME IInv, NEW c \in Calls, Refreshing(c) PROVE IInv'
<1> USE CallAssumption DEF IInv
<1>1. /\ clock' = clock /\ stored' = stored /\ cache' = cache /\ network' = network
      /\ pc' = pc /\ list' = list /\ looked' = looked /\ params' = params /\ left' = left
      /\ outcome' = outcome
  BY DEF Refreshing, RefreshAnswered, RefreshStored, sharedVars
<1>2. /\ refresh[c] \in {"asking", "writing"} /\ refresh[c] # "none"
      /\ refresh'[c] \in {"writing", "failed", "stored"}
      /\ refresh' \in [Calls -> {"none", "asking", "writing", "stored", "failed"}]
      /\ \A d \in Calls : d # c => refresh'[d] = refresh[d] /\ news'[d] = news[d]
  BY DEF Refreshing, RefreshAnswered, RefreshStored, TypeOK
<1>3. /\ news' \in [Calls -> Lists] /\ ListInv(news[c])'
      /\ refresh'[c] \in {"writing", "stored"} =>
           news'[c].fetched # Never /\ looked[c] <= news'[c].fetched
  <2>1. CASE refresh[c] = "asking" /\ refresh'[c] = "failed" /\ news' = news
    BY <2>1 DEF TypeOK, CallInv, ListInv
  <2>2. CASE RefreshStored(c)
    BY <2>2 DEF RefreshStored, TypeOK, CallInv, RefreshInv, ListInv
  <2>3. ASSUME NEW n \in 0 .. MaxPeers, news' = [news EXCEPT ![c] = [fetched |-> clock, size |-> n]]
        PROVE  /\ news' \in [Calls -> Lists] /\ ListInv(news[c])'
               /\ news'[c].fetched # Never /\ looked[c] <= news'[c].fetched
    <3>1. clock \in 0 .. MaxTime /\ looked[c] <= clock
      BY DEF TypeOK, CallInv, RefreshInv
    <3>2. news'[c] = [fetched |-> clock, size |-> n]
      BY <2>3 DEF TypeOK
    <3>3. /\ news'[c] \in Lists /\ news'[c].fetched = clock /\ clock # Never
      BY <3>1, <3>2 DEF Lists, Never
    <3>4. news' \in [Calls -> Lists]
      BY <2>3, <3>2, <3>3 DEF TypeOK
    <3> QED
      BY <3>1, <3>3, <3>4 DEF ListInv
  <2>4. \/ RefreshStored(c)
        \/ refresh[c] = "asking" /\ refresh'[c] = "failed" /\ news' = news
        \/ \E n \in 0 .. MaxPeers : news' = [news EXCEPT ![c] = [fetched |-> clock, size |-> n]]
    BY DEF Refreshing, RefreshAnswered, TypeOK
  <2> QED
    BY <2>1, <2>2, <2>3, <2>4
<1>4. peers' \in Lists /\ ListInv(peers)'
  <2>1. peers' = peers \/ peers' = news[c]
    BY DEF Refreshing, RefreshAnswered, RefreshStored, sharedVars
  <2> QED
    BY <2>1 DEF CallInv, ListInv
<1>5. TypeOK'
  BY <1>1, <1>2, <1>3, <1>4 DEF TypeOK
<1>6. PeersOnlyForPruned' /\ NoPeersIsRecentNews' /\ Alone'
  BY <1>1, <1>2 DEF PeersOnlyForPruned, NoPeersIsRecentNews, Alone
<1>7. CallInv(c)'
  BY <1>1, <1>2, <1>3 DEF CallInv, RefreshInv, ParamsInv
<1>8. ASSUME NEW d \in Calls, d # c PROVE CallInv(d)'
  BY <1>1, <1>2, <1>8, OthersKept
<1> QED
  BY <1>4, <1>5, <1>6, <1>7, <1>8

\* A call ends, with an outcome that is right for a pruned block if it is one of the
\* two that say so.
LEMMA EndIInv ==
  ASSUME IInv, NEW c \in Calls, NEW how \in {"done", "dropped"}, NEW r \in Outcomes,
         pc' = [pc EXCEPT ![c] = how], outcome' = [outcome EXCEPT ![c] = r],
         r \in {ListError, Pruned} => outcome[c] \in {ListError, Pruned} \/ HashOf[c] \notin stored,
         cache' \subseteq cache \cup ({HashOf[c]} \ stored), cache' \subseteq Hashes,
         params' = [params EXCEPT ![c] = params'[c]],
         params'[c] \in {"none", "known"},
         UNCHANGED <<clock, stored, peers, network, refresh, news, list, looked, left>>
  PROVE  IInv'
<1> USE CallAssumption DEF IInv
<1>1. /\ pc'[c] = how /\ outcome'[c] = r
      /\ \A d \in Calls : d # c => pc'[d] = pc[d] /\ outcome'[d] = outcome[d] /\ params'[d] = params[d]
  BY DEF TypeOK
<1>2. TypeOK'
  BY DEF TypeOK
<1>3. PeersOnlyForPruned'
  BY <1>1 DEF PeersOnlyForPruned
<1>4. NoPeersIsRecentNews' /\ ListInv(peers)' /\ Alone'
  BY <1>1 DEF NoPeersIsRecentNews, ListInv, Alone
<1>5. CallInv(c)'
  BY <1>1 DEF CallInv, RefreshInv, ParamsInv, ListInv
<1>6. ASSUME NEW d \in Calls, d # c PROVE CallInv(d)'
  BY <1>1, <1>6, OthersKept
<1> QED
  BY <1>2, <1>3, <1>4, <1>5, <1>6

LEMMA AwaitedIInv == ASSUME IInv, NEW c \in Calls, Awaited(c) PROVE IInv'
<1> USE CallAssumption DEF IInv
<1>1. /\ pc[c] = "await" /\ UNCHANGED <<clock, sharedVars, refresh, news, looked, params>>
      /\ HashOf[c] \notin stored /\ params[c] # "asking"
  BY DEF Awaited, PeersOnlyForPruned, CallInv, ParamsInv
<1>2. CASE refresh[c] = "stored" /\ Handles(c, news[c]) /\ UNCHANGED outcome
  <2>1. /\ news[c].fetched # Never /\ looked[c] <= news[c].fetched /\ looked[c] <= clock
        /\ ListInv(news[c])
    BY <1>2 DEF CallInv, RefreshInv
  <2>2. looked[c] <= news[c].fetched + MaxAge
    BY <2>1 DEF ListInv, Lists, TypeOK
  <2>3. /\ refresh' \in [Calls -> {"none", "asking", "writing", "stored", "failed"}]
        /\ looked' \in [Calls -> 0 .. MaxTime]
    BY <1>1 DEF TypeOK
  <2> QED
    BY <1>1, <1>2, <2>1, <2>2, <2>3, HandlesIInv
<1>3. CASE Return(c, ListError) /\ UNCHANGED <<list, left, queryVars>>
  <2>1. params' = [params EXCEPT ![c] = params'[c]] /\ params'[c] \in {"none", "known"}
    BY <1>1 DEF TypeOK
  <2> QED
    BY <1>1, <1>3, <2>1, OutcomesDiffer, EndIInv DEF Return, sharedVars, TypeOK
<1> QED
  BY <1>2, <1>3 DEF Awaited

LEMMA AnswerIInv == ASSUME IInv, NEW c \in Calls, Answer(c) PROVE IInv'
<1> USE CallAssumption DEF IInv
<1>1. /\ pc[c] = "query" /\ HashOf[c] \notin stored
      /\ UNCHANGED <<clock, stored, peers, network, refresh, news, list, looked, params, left>>
  BY DEF Answer, PeersOnlyForPruned
<1>2. params' = [params EXCEPT ![c] = params'[c]] /\ params'[c] \in {"none", "known"}
  BY DEF Answer, CallInv, ParamsInv, TypeOK
<1>3. cache' \subseteq cache \cup ({HashOf[c]} \ stored) /\ cache' \subseteq Hashes
  BY <1>1 DEF Answer, Store!Insert, TypeOK
<1>4. PICK r \in {Bytes(HashOf[c]), Pruned} : Return(c, r)
  BY DEF Answer
<1> QED
  BY <1>1, <1>2, <1>3, <1>4, OutcomesDiffer, EndIInv DEF Return

LEMMA DropIInv == ASSUME IInv, NEW c \in Calls, Drop(c) PROVE IInv'
<1> USE CallAssumption DEF IInv
<1>1. /\ pc' = [pc EXCEPT ![c] = "dropped"] /\ params' = [params EXCEPT ![c] = "none"]
      /\ UNCHANGED <<clock, stored, cache, peers, network, refresh, news, list, looked, left, outcome>>
  BY DEF Drop, sharedVars
<1>2. /\ outcome[c] \in Outcomes /\ outcome' = [outcome EXCEPT ![c] = outcome[c]]
      /\ params'[c] = "none" /\ params' = [params EXCEPT ![c] = params'[c]]
      /\ cache' \subseteq cache \cup ({HashOf[c]} \ stored) /\ cache' \subseteq Hashes
  BY <1>1 DEF TypeOK
<1> QED
  BY <1>1, <1>2, EndIInv

\* Params and ParamsAnswered: the OnceCell.
LEMMA ParamsIInv == ASSUME IInv, NEW c \in Calls, Params(c) \/ ParamsAnswered(c) PROVE IInv'
<1> USE CallAssumption DEF IInv
<1>1. /\ clock' = clock /\ stored' = stored /\ cache' = cache /\ peers' = peers /\ pc' = pc
      /\ refresh' = refresh /\ news' = news /\ list' = list /\ looked' = looked
      /\ outcome' = outcome
  BY DEF Params, ParamsAnswered, sharedVars
<1>2. pc[c] = "query" /\ left[c] > 0
  BY DEF Params, ParamsAnswered, CallInv, ParamsInv
<1>3. /\ params' \in [Calls -> {"none", "asking", "known"}]
      /\ left' \in [Calls -> 0 .. MaxPeers] /\ network' \in BOOLEAN
      /\ left'[c] > 0 => left[c] > 0
      /\ \A d \in Calls : d # c => params'[d] = params[d] /\ left'[d] = left[d]
  <2>1. CASE Params(c)
    BY <2>1 DEF Params, TypeOK, sharedVars
  <2>2. CASE ParamsAnswered(c) /\ network' = TRUE /\ left' = left
    BY <2>2 DEF ParamsAnswered, TypeOK
  <2>3. CASE ParamsAnswered(c) /\ network' = network /\ left' = [left EXCEPT ![c] = left[c] - 1]
    <3>1. left[c] - 1 \in 0 .. MaxPeers
      BY <1>2 DEF TypeOK
    <3> QED
      BY <1>2, <2>3, <3>1 DEF ParamsAnswered, TypeOK
  <2> QED
    BY <2>1, <2>2, <2>3 DEF ParamsAnswered
<1>4. /\ params'[c] = "asking" =>
           left'[c] > 0 /\ ~network' /\ \A d \in Calls : params[d] # "asking"
      /\ network' = network \/ params[c] = "asking"
  BY <1>2, <1>3 DEF Params, ParamsAnswered, MayAsk, TypeOK, sharedVars
<1>5. TypeOK'
  BY <1>1, <1>3 DEF TypeOK
<1>6. PeersOnlyForPruned' /\ NoPeersIsRecentNews' /\ ListInv(peers)'
  BY <1>1 DEF PeersOnlyForPruned, NoPeersIsRecentNews, ListInv
<1>7. Alone'
  BY <1>3, <1>4 DEF Alone
<1>8. CallInv(c)'
  BY <1>1, <1>2, <1>3, <1>4 DEF CallInv, RefreshInv, ParamsInv, ListInv
<1>9. ASSUME NEW d \in Calls, d # c PROVE CallInv(d)'
  BY <1>1, <1>3, <1>4, <1>9, OthersKept DEF Alone
<1> QED
  BY <1>5, <1>6, <1>7, <1>8, <1>9

LEMMA NextIInv == IInv /\ [Next]_vars => IInv'
<1> SUFFICES ASSUME IInv, [Next]_vars PROVE IInv'
  OBVIOUS
<1>1. CASE Tick
  BY <1>1, TickIInv
<1>2. ASSUME NEW h \in Hashes, Prune(h) PROVE IInv'
  BY <1>2, PruneIInv
<1>3. ASSUME NEW c \in Calls, Answered(c) \/ RefreshStored(c) PROVE IInv'
  BY <1>3, BeforePeersIInv, RefreshingIInv, ParamsIInv DEF Answered, Refreshing
<1>4. ASSUME NEW c \in Calls, Working(c) PROVE IInv'
  BY <1>4, BeforePeersIInv, GetPeersIInv, AwaitedIInv, ParamsIInv, AnswerIInv DEF Working
<1>5. ASSUME NEW c \in Calls, Drop(c) PROVE IInv'
  BY <1>5, DropIInv
<1>6. CASE UNCHANGED <<clock, sharedVars, callVars>>
  <2>1. TypeOK' /\ PeersOnlyForPruned' /\ NoPeersIsRecentNews' /\ ListInv(peers)' /\ Alone'
    BY <1>6 DEF IInv, sharedVars, callVars, TypeOK, PeersOnlyForPruned, NoPeersIsRecentNews,
                ListInv, Alone
  <2>2. ASSUME NEW c \in Calls PROVE CallInv(c)'
    BY <1>6 DEF IInv, sharedVars, callVars, CallInv, RefreshInv, ParamsInv, ListInv
  <2> QED
    BY <2>1, <2>2 DEF IInv
<1>7. ASSUME NEW c \in Calls, Find(c) PROVE IInv'
  BY <1>6, <1>7 DEF Find
<1>8. CASE UNCHANGED vars
  BY <1>6, <1>8 DEF vars
<1> QED
  BY <1>1, <1>2, <1>3, <1>4, <1>5, <1>7, <1>8 DEF Next

LEMMA InvariantIInv == Spec => []IInv
BY InitIInv, NextIInv, PTL DEF Spec

-----------------------------------------------------------------------------
(* The theorems. *)

\* Types.
THEOREM TypeCorrect == Spec => []TypeOK
<1>1. IInv => TypeOK
  BY DEF IInv
<1> QED
  BY <1>1, InvariantIInv, PTL

\* Only blocks bitcoind has pruned are cached, asked of peers or failed for want of a
\* peer list, however pruning and the calls interleave.
THEOREM OnlyPrunedLeave == Spec => []PeersOnlyForPruned
<1>1. IInv => PeersOnlyForPruned
  BY DEF IInv
<1> QED
  BY <1>1, InvariantIInv, PTL

\* get_peers never hands out an empty list that was stale when it looked.
THEOREM EmptyIsRecent == Spec => []NoPeersIsRecentNews
<1>1. IInv => NoPeersIsRecentNews
  BY DEF IInv
<1> QED
  BY <1>1, InvariantIInv, PTL

\* network_params asks once at a time, and only for a fetch that has a peer to ask.
THEOREM ParamsSingleFlight == Spec => []ParamsAskedOnceAndLate
<1>1. IInv => ParamsAskedOnceAndLate
  BY DEF IInv, ParamsAskedOnceAndLate, Alone, CallInv, ParamsInv, PeersOnlyForPruned
<1> QED
  BY <1>1, InvariantIInv, PTL

-----------------------------------------------------------------------------
(* BlockFetch implements BlockQuery. *)

PStatus == [c \in Calls |-> IF pc[c] \in {"done", "dropped"} THEN pc[c] ELSE "asking"]

\* A call that goes on changes nothing BlockQuery speaks of.
LEMMA GoesOn ==
  ASSUME TypeOK, NEW c \in Calls, NEW s, pc' = [pc EXCEPT ![c] = s],
         pc[c] \notin {"done", "dropped"}, s \notin {"done", "dropped"}
  PROVE  PStatus' = PStatus
<1>1. ASSUME NEW d \in Calls
      PROVE  (IF pc'[d] \in {"done", "dropped"} THEN pc'[d] ELSE "asking")
               = (IF pc[d] \in {"done", "dropped"} THEN pc[d] ELSE "asking")
  BY <1>1 DEF TypeOK
<1> QED
  BY <1>1 DEF PStatus

\* A call that ends answers its query, a dropped one drops it.
LEMMA GoesOff ==
  ASSUME TypeOK, NEW c \in Calls, NEW s \in {"done", "dropped"}, pc' = [pc EXCEPT ![c] = s],
         pc[c] \notin {"done", "dropped"}
  PROVE  PStatus[c] = "asking" /\ PStatus' = [PStatus EXCEPT ![c] = s]
<1>1. ASSUME NEW d \in Calls
      PROVE  (IF pc'[d] \in {"done", "dropped"} THEN pc'[d] ELSE "asking")
               = IF d = c THEN s ELSE (IF pc[d] \in {"done", "dropped"} THEN pc[d] ELSE "asking")
  BY <1>1 DEF TypeOK
<1> QED
  BY <1>1 DEF PStatus

LEMMA ReturnAnswers ==
  ASSUME TypeOK, NEW c \in Calls, pc[c] \notin {"done", "dropped"}, NEW r, Return(c, r),
         stored' = stored,
         r \in {Bytes(HashOf[c]), SelfError, ListError} \/ (r = Pruned /\ HashOf[c] \notin stored)
  PROVE  Promise!Next
<1>1. PStatus[c] = "asking" /\ PStatus' = [PStatus EXCEPT ![c] = "done"]
  BY GoesOff DEF Return
<1>2. Promise!Answer(c, r)
  BY <1>1 DEF Promise!Answer, PStatus, Return
<1> QED
  BY <1>2 DEF Promise!Next

LEMMA PromiseInit == Init => Promise!Init
BY CallAssumption DEF Init, Promise!Init

LEMMA PromiseNext == IInv /\ [Next]_vars => [Promise!Next]_(Promise!queryVars)
<1> SUFFICES ASSUME IInv, [Next]_vars PROVE Promise!Next \/ UNCHANGED Promise!queryVars
  OBVIOUS
<1> USE DEF IInv
<1>0. ASSUME PStatus' = PStatus, UNCHANGED <<stored, outcome>> PROVE UNCHANGED Promise!queryVars
  BY <1>0 DEF Promise!queryVars, PStatus
<1>1. CASE UNCHANGED <<stored, pc, outcome>>
  BY <1>1 DEF Promise!queryVars
<1>2. ASSUME NEW h \in Hashes, Prune(h) PROVE Promise!Next
  BY <1>2 DEF Prune, Promise!Next, Promise!Prune, callVars
<1>3. ASSUME NEW c \in Calls, Lookup(c) \/ Self(c) PROVE Promise!Next \/ UNCHANGED Promise!queryVars
  <2>1. stored' = stored /\ pc[c] \notin {"done", "dropped"}
    BY <1>3 DEF Lookup, Self, sharedVars
  <2>2. CASE Return(c, Bytes(HashOf[c])) \/ Return(c, SelfError)
    BY <2>1, <2>2, ReturnAnswers
  <2>3. ASSUME NEW s \in {"self", "peers"}, pc' = [pc EXCEPT ![c] = s], UNCHANGED outcome
        PROVE  UNCHANGED Promise!queryVars
    BY <1>0, <2>1, <2>3, GoesOn
  <2> QED
    BY <1>3, <2>2, <2>3 DEF Lookup, Self
<1>4. ASSUME NEW c \in Calls, GetPeers(c) PROVE UNCHANGED Promise!queryVars
  <2>1. PICK s \in {"await", "query"} : pc' = [pc EXCEPT ![c] = s]
    BY <1>4 DEF GetPeers, Handles
  <2>2. PStatus' = PStatus
    BY <1>4, <2>1, GoesOn DEF GetPeers
  <2> QED
    BY <1>0, <1>4, <2>2 DEF GetPeers, sharedVars
<1>5. ASSUME NEW c \in Calls, Awaited(c) PROVE Promise!Next \/ UNCHANGED Promise!queryVars
  <2>1. stored' = stored /\ pc[c] = "await"
    BY <1>5 DEF Awaited, sharedVars
  <2>2. CASE Return(c, ListError)
    BY <2>1, <2>2, ReturnAnswers
  <2>3. CASE Handles(c, news[c]) /\ UNCHANGED outcome
    BY <1>0, <2>1, <2>3, GoesOn DEF Handles
  <2> QED
    BY <1>5, <2>2, <2>3 DEF Awaited
<1>6. ASSUME NEW c \in Calls, Answer(c) PROVE Promise!Next
  <2>1. stored' = stored /\ pc[c] = "query" /\ HashOf[c] \notin stored
    BY <1>6 DEF Answer, PeersOnlyForPruned
  <2>2. Return(c, Bytes(HashOf[c])) \/ Return(c, Pruned)
    BY <1>6 DEF Answer
  <2> QED
    BY <2>1, <2>2, ReturnAnswers
<1>7. ASSUME NEW c \in Calls, Drop(c) PROVE Promise!Next
  <2>1. PStatus[c] = "asking" /\ PStatus' = [PStatus EXCEPT ![c] = "dropped"]
    BY <1>7, GoesOff DEF Drop
  <2>2. Promise!Drop(c)
    BY <1>7, <2>1 DEF Drop, Promise!Drop, PStatus, sharedVars
  <2> QED
    BY <2>2 DEF Promise!Next
<1>8. ASSUME NEW c \in Calls,
             RefreshAnswered(c) \/ RefreshStored(c) \/ Params(c) \/ ParamsAnswered(c) \/ Find(c)
      PROVE  UNCHANGED <<stored, pc, outcome>>
  BY <1>8 DEF RefreshAnswered, RefreshStored, Params, ParamsAnswered, Find, sharedVars, callVars
<1>9. Tick \/ UNCHANGED vars => UNCHANGED <<stored, pc, outcome>>
  BY DEF Tick, vars, sharedVars, callVars
<1> QED
  BY <1>1, <1>2, <1>3, <1>4, <1>5, <1>6, <1>7, <1>8, <1>9 DEF Next, Answered, Working

\* fetch_block_raw implements BlockQuery: its callers get the block they asked for, an
\* error, or nothing for a block that bitcoind has pruned.
THEOREM PromiseKept == Spec => ImplementsBlockQuery
BY PromiseInit, PromiseNext, InvariantIInv, PTL DEF Spec, ImplementsBlockQuery, Promise!Spec

=============================================================================
