# Verification of btc-rpc-proxy

TLA+ models of the Bitcoin RPC proxy in `src/`, the TLC runs that check them on
small instances, and TLAPS proofs of their main properties for every instance.
`PROJECT.json` lists components, runs, mutants, the map from definitions to source
lines, findings, hazards and theorems.

## 1. The system

The proxy sits between JSON-RPC clients and a (usually pruned) `bitcoind`. It
authenticates each request, checks which methods its user may call, answers
`getblock` and `getrawtransaction` itself where it can, fetching pruned blocks
from bitcoind's own p2p peers, and forwards everything else.

| Component | State it keeps | Operations | Hard behaviour |
|---|---|---|---|
| `block_cache.rs` | map of blocks, recency queue, running byte total, under a mutex | `get`, `insert` with eviction loop | three structures that must agree; unsigned arithmetic; the size bound |
| `client.rs` `AuthSource` | header cached against the mtime of the cookie file | `try_load` | four awaits per call, shared by all tasks; the node replaces the file meanwhile |
| `users.rs` `Password::CookieFile` | password cached against the mtime of the cookie file | `cookie_password` | stat, read and second stat race with the node |
| `users.rs` `Users::get`, `Password::eq` | none | splitting and comparing credentials | cyclic comparison, a remainder by zero |
| `fetch_blocks.rs` `Peer`, `PeerHandle`, `fetch_block_from_peers` | one pooled connection per peer of each peer list; a channel per fetch | taking handles, dialling, `getdata`, reading, `recycle`, `select!` | untrusted peers, timeouts, dropped futures, connections passed between fetches, lists replaced under a fetch |
| blocking threads (`spawn_blocking`, `tokio::fs`) | tokio's bounded pool and its queue | jobs of fetches and of cookie loads | a timeout ends the wait and not the job, which keeps its connection. Modelled as far as it bears on the pools of connections |
| `fetch_blocks.rs` `check_witnesses` | none | witness commitment check | two eras; anything a peer may change |
| `fetch_blocks.rs` `fetch_block_raw`, `state.rs` | the cache, the current peer list, the `OnceCell` of network parameters | lookup, ask bitcoind, `get_peers` with background refresh, `network_params`, ask peers, insert | overlapping refreshes, an initialiser that fails or is dropped, pruning between steps |
| `users.rs` `User::intercept` | per call: the parts of its answer | `getblock`, `getrawtransaction`, plain and verbose | parts asked for at different moments while the chain moves; one part fails, another is never answered |
| `proxy.rs`, `client.rs` `RpcClient::send` | per request: two channels and the POST | authenticate, parse, intercept, forward, pair, merge | calls of a batch end in any order; notifications; refusal of one of several |
| `client.rs` serde of `RpcRequest` | none | two readers and a writer | an `id` of null, repeated and escaped members |
| `create_state.rs`, `users.rs` `input` | the shared `State` | start-up | several sources for one user; failures halfway; overflow |
| `state.rs` `from_blockchain_info` | none | parameters of a chain | not modelled: a table |
| `lib.rs` | none | the hyper server | not modelled: hands every request to `proxy_request` |
| `rpc_methods.rs`, `util.rs` | none | serde types | not modelled: conversions without state |

How they interact: a request calls `Users::get`, which may read the cookie; each of its
calls is intercepted concurrently and may call `fetch_block_raw`, which uses the cache
and the peers; every request to bitcoind loads the header. All of them share one
`State`. A client that goes away drops its futures at whatever await they are in; the
refresh of the peer list, a spawned task, survives that, and so do jobs in the
blocking pool.

What makes each correct: the cache never exceeds its bound, counts what it holds and
evicts in order of use; no load returns a cookie that was replaced before the load
began; the right password and no other lets a user in; a fetch returns the valid block
asked for or nothing, and does not lose it; only pruned blocks leave the node; a result
of the proxy is what a node with the block would have answered at one moment of the
call; only allowed calls reach bitcoind, as they were sent; and every reply of a batch
stands where its call stood.

## 2. Modules

| Module | Models | Composes |
|---|---|---|
| `BlockCache` | `BlockCache` | |
| `BlockStore` | abstract specification of the cache: a set of hashes | |
| `BlockCacheStore` | the two above, with what is visible outside the mutex | `BlockCache` implements `BlockStore` |
| `CookieFile` | bitcoind's cookie file (external) | |
| `AuthSource` | `AuthSource::try_load` | `CookieFile` |
| `CookiePassword` | `Password::cookie_password` | `CookieFile` |
| `CookieReaders` | both on one file | `AuthSource`, `CookiePassword` |
| `PeerQuery` | abstract specification of a query of the peers | |
| `PeerFetch` | connections, pools, `fetch_block_from_peer(s)` | implements `PeerQuery` |
| `WitnessCheck` | `check_witnesses`, `check_witness_commitment` | |
| `BlockQuery` | abstract specification of `fetch_block_raw` | |
| `BlockFetch` | `fetch_block_raw`, `get_peers`, `network_params` | uses `PeerQuery` and `BlockStore`, implements `BlockQuery` |
| `InterceptKinds` | what `intercept` may make of a call | |
| `Interception` | `User::intercept` | uses `BlockQuery`, shows `InterceptKinds` |
| `PasswordCheck` | `Users::get`, `Password::eq` | |
| `RpcWire` | the readers and the writer of `RpcRequest` | |
| `RequestEntry` | credentials, then body, of a request | `PasswordCheck`, `RpcWire` |
| `ProxyRequest` | `proxy_request`, `intercept`'s outcomes, `RpcClient::send` | takes `InterceptKinds` for granted |
| `StartUp` | `create_state`, `from_config`, `map_default` | |
| `*Proofs` | theorems about the module they are named after; `CookieReadersProofs` also about `AuthSource` and `CookiePassword`, `PeerFetchProofs` about `WitnessCheck`, `RequestEntryProofs` about `PasswordCheck` and `RpcWire` | |
| `MC*` | values of the constants for TLC | |

The chain of assumptions is closed where the code composes: `ProxyRequest` goes by
`InterceptKinds`, which `Interception` shows; `Interception` goes by `BlockQuery`, which
`BlockFetch` implements; `BlockFetch` goes by `PeerQuery` and `BlockStore`, which
`PeerFetch` and `BlockCache` implement.

**BlockCache, BlockStore.** `blocks`, `order` and `bytes` are the fields of `Inner`. `Get`
and `Insert` are the methods; an insert that exceeds the bound sets `evicting` (the mutex
is held) and `EvictOne` is one iteration of the loop. `usedAfter` is history. While the
loop runs, `BlockStore` sees what was there before it.

**CookieFile, AuthSource, CookiePassword, CookieReaders.** Cookies are numbered as the
node writes them and known to the readers by contents and modification time. The node
starts and stops at any point. In `AuthSource` a step ends at an await; in
`CookiePassword`, which is synchronous but runs on several threads, at a system call or a
lock. `since` and `began` record the latest cookie when a call began. Modification times
are any: the clock may go back, and two cookies may share a tick (`Tied`), the one case in
which a reader cannot tell them apart.

**PeerFetch.** `pool[g][p]` is the one-slot channel of a `Peer` of the g-th list. A
connection is the sequence of requests its peer has not answered, which is what may
still come out of it. An honest peer answers in order; any other may send any block.
`GetList` and `Start` are apart because the list may be replaced between
`get_peers` cloning it and the handles being taken; taking the handles of all peers is
one step, since nothing is awaited in between and each channel is emptied on its own.
`NextPeer` follows the `then` stream: one peer at a time. `GiveUp` is any error and the
timeout; `Cancel` and `Forget` are dropped futures. `SelectRunner` ends with the last
`poll!`. A pool's channel closes when its receivers go, with the last `Arc` of the list
(`Holders`, `Alive`), but as in async-channel what is queued in it stays until the last sender goes too.
`Senders` are the handles not yet used, the connection in use, and connections that a job on a
blocking thread still holds after the fetch has stopped waiting for it: `Abandon` may leave
such a job behind in `jobs`, `JobEnds` is its end. Every step that can take the last end of a channel goes through
`Pooled`, which drops what nothing holds any more.

**WitnessCheck.** A block is the scripts of its coinbase's outputs, the coinbase's witness
and the other witnesses; hash and merkle root are taken to fix the rest (section 6 has the exception). `Active` and `Signalling` say,
from BIP 141, which blocks can have been mined; `Receive` is a peer sending the mined block with any
witnesses.

**BlockFetch.** A call looks in the cache, asks bitcoind, gets the list and queries the
peers by the actions of `PeerQuery`. A list is known by its age and size. bitcoind only
loses blocks during a run: a block it does not know yet is an error of `getblock`, not
`pruned`, so such a call ends in `SelfError`. `params` is the place of a call at the
`OnceCell`.

**Interception.** A request is a method and an array of parameters, told apart as the code
tells them apart. `Fetched`, `HeaderAnswered` and `DecodeAnswered` are the answers a call waits
for, in any order; the `End` actions are what `try_join!` and the code after it do once
polled. What changes of a block is its number of confirmations, -1 off the active chain;
`seen` records the numbers it has had during the call. Of a verbose reply the model keeps the fields that
depend on the moment and the request; those that are functions of the block are left out.

**PasswordCheck, RpcWire, RequestEntry.** `Fold` is one byte of `xor_contents`, with the
accumulator's bits; lengths fit in a byte (`MaxPassword`, `MaxText`), so eight bits do, where the code
folds over a `usize`: longer credentials are outside the model. `RpcWire` gives the same members to both readers of a request and
writes what each has made of them. A value is told apart by what the readers make of it: among others one that
no `serde_json::Value` can hold ("unreadable": a number out of range, a lone surrogate), which the visitor refuses in any
member and the derived reader only in the members it knows, and one nested so deep that only its place in a
batch makes it too deep ("deepest"). `RequestEntry` lets the body be read once the
credentials have passed.

**ProxyRequest.** A call is its method, what `intercept` can make of its parameters and
its version. `EndCall` ends one interception of a batch, in any order; `JoinFailed`
allows for the POST that `try_join!` may have handed on before the refusal is seen.
`Panic` and `ComparePanics` are the two panics this path can meet, after which hyper
closes the connection. Once bitcoind has answered, `TakeLeft` and `TakeRight` are one reply each that
`merge_by` gives, from the two lists as `sort_by_key` leaves them; nothing is awaited there, so nothing
else happens between them. `InOrder` lists a finite set in an order: filtering and the stable sort are stated
with it, not by recursion, so that they can be reasoned about.

**StartUp.** One action per stage of `create_state`, one line of `bitcoin.conf` per step, each
with its ways to fail. `MiB` and `UsizeMax` are constants so that products can overflow.

## 3. Runs

Every run finishes within two minutes on two workers.

| Run | Instance | Shows |
|---|---|---|
| `block_cache` | four hashes; sizes 0, 1, 2, 3 and one over the bound of 4 | the six properties of the cache, and that it is a `BlockStore` |
| `cookie_readers` | two tasks, two threads, four starts, times 10, 20, 20, 5 | `TryLoadFresh`, `DownMatchesNothing`, `FreshUnlessReplacedMidCall` |
| `cookie_stale` | two threads, three starts, distinct times | violation: finding 1 |
| `peer_fetch` | an honest peer and another, two fetches of different hashes, one replacement | `PooledIsIdleAndHeld`, `HonestAnswersMatch`, `ImplementsPeerQuery`, `EveryFetchEnds`, `ReplacedPoolsDrain` |
| `peer_concurrency` | same | violation: finding 2 |
| `block_fetch` | two calls for the same block, lists of up to two peers, age 1, time up to 2 | what leaves the node and when, `ImplementsBlockQuery`, `EveryCallEnds`, `EveryRefreshEnds` |
| `proxy_request` | three users, seven kinds of call, batches of up to three | permission, refusal and pairing |
| `interception` | one call with parameters of every shape, two blocks, up to 3 confirmations | `AnsweredAsUnpruned`, `EndsAsPromised`, `FailureEndsCall` |
| `witness_check` | two transactions, two outputs, two items in the coinbase's witness | `MinedIsAccepted`, `WitnessesAsMined` |
| `request_entry` | credentials of up to five bytes from `a`, `b`, `:`; bodies of up to four of seventeen members | `LetInByPasswordOnly`, `VerdictOrPanic`, `ForwardedAsSent`, `ReadersAgree` |
| `start_up` | configurations that differ from a plain one in listening and credentials, in users, or in the size of the cache; a mebibyte of 4 and a usize of 15 | `LastSourceWins`, `CacheGrowsWithSetting` |
| `fetch_setting` | the same configurations | violation: finding 3 |

Why the bounds are enough.

- Four hashes let an insert evict several blocks, skip one that was touched, and fill up
  with zero-sized ones.
- Two readers of a kind and three cookies are what a stale entry takes: one to store it,
  one to hit it, and a cookie before and after; the fourth start adds a tie and a clock that
  goes back. `cookie_readers` explores the states in which only one kind of reader has begun
  (`OneKind`). That loses nothing: each kind writes only its own variables, and theorem
  `ReadersApart` shows that a behaviour of both is one of either.
- In `PeerFetch` a misdirected answer takes two fetches of different hashes and one
  connection; one replacement lets a connection outlive its list, in use or queued in its closed pool.
- In `BlockFetch` two ticks with age 1 let a list be fetched, grow stale, and be overtaken by
  another refresh. Both calls ask for one block, so that the later finds in the cache what the other fetched, or both miss;
  calls for different blocks meet only at the list and the `OnceCell`, which these two share as well.
- Intercepted calls share nothing but the chain, so one is enough; three confirmations let the
  number grow twice and the block leave and rejoin the chain between the parts of an answer.
- Two outputs let a later commitment replace an earlier one; two items tell a coinbase witness
  of the right length from a longer one; two transactions let one keep its witness and the other lose it.
- Five bytes are a name, a colon and passwords up to three bytes against stored ones of up to two:
  shorter, longer, repeated, and with a colon in them. `request_entry` takes any credentials with an
  empty body or the right ones with any body, as the body is only read once the credentials
  have passed. Four members are a request with one member more than it needs, repeated or unknown.
- Three calls in a batch are the fewest in which one is forwarded, one answered and one a
  notification, in every order of completion.

What the bounds leave open the theorems below close, where there is one.

`CHECK_DEADLOCK FALSE` is set where each fetch, call, comparison or start runs once and the model
stops when all have ended. Every property of a passing run has a mutant, an operator named
after the slip it makes, under which TLC finds the property violated.

**Fairness.** Nothing is assumed of peers anywhere, nor of bitcoind, whose calls have no timeout.

- `PeerFetch`: weak fairness of `GiveUp` (the tokio timers of `connect` and of
  `fetch_block_from_peer` fire; the timeout spans the whole read loop, pings included) and of
  the polls of a woken task. Nothing is assumed of a job left on a blocking thread, whose peer may keep it waiting
  for ever: `ReplacedPoolsDrain` promises an empty pool only where no such job stays. The network parameters, awaited outside the timeout, are left to
  `BlockFetch`.
- `BlockFetch`: weak fairness of the refresh task's store and of the steps of a call that wait for
  nobody but tokio, and of the end of a query of the peers, by `EveryFetchEnds`. `EveryCallEnds` says that a call ends unless
  bitcoind leaves it, or the call ahead of it at the `OnceCell`, unanswered for ever.
- `Interception`: weak fairness of the polls of a woken call.
- `RequestEntry`: the comparison runs to its end or panics.

## 4. Findings

1. `users.rs:107` (run `cookie_stale`): the second stat of `cookie_password` was meant to keep a
   replaced file's contents out of the cache and does the opposite: if the node replaces the
   cookie between read and second stat, the old password is stored under the new time
   and matches from then on. `AuthSource::try_load`, which keeps the time from before the
   read, does not have this (theorem `AlwaysFresh`); and theorem `OnlyTheRestatRaces` shows
   that, ties of modification times apart, there is no other way to a stale password.
2. `fetch_blocks.rs:450` (run `peer_concurrency`): peers are asked one after the other, although
   README and `config_spec.toml` say that `max_peer_concurrency` caps how many are asked at once.
3. `create_state.rs:106` (run `fetch_setting`): the users named by an `rpcauth` line of `bitcoin.conf`, or by the cookie, replace configured
   ones of the same name whole, their `fetch_blocks = false` included, and get the default. `config_spec.toml:124` says that the
   default holds for "all users that do NOT specify `fetch_blocks = false`". `LastSourceWins` states what does hold: password
   and permissions are the last source's.

Smaller observations, without a run of their own:

- `fetch_blocks.rs:495`: two calls for one hash that overlap both miss the cache and both go to the
  peers, while `state.rs:107` wants a block kept "so the same one is not pulled twice". The
  cache itself takes the second insert well (`QueueMatchesMap`).
- `fetch_blocks.rs:107`: a block whose only witness is the coinbase's 32 zero bytes is accepted
  without it. `WitnessesAsMined` states the exception; nothing else passes.
- `fetch_blocks.rs:393`: a timeout leaves a blocked read on its thread, and with it a sender of the peer's pool. A connection that
  another fetch recycles into that pool stays open after the list is replaced, until the stalled socket closes.
- `create_state.rs:58`: `tor_only` without `tor_proxy` has no effect, as the flag is kept inside the proxy's
  setting; peers are then dialled directly.
- `users.rs:184`: an empty password given for a user whose password is not empty takes a remainder by zero;
  `users.rs:361`: `getblock` with an empty array indexes past its end. Both panic in the task of the
  connection, and `VerdictOrPanic` and `EndsAsPromised` show that nothing else does.

## 5. Proofs

All theorems hold for every value of the constants that satisfies the named assumptions
(`CacheAssumption`, `CookieAssumption`, `FetchAssumption`, `CallAssumption`, `InterceptAssumption`,
`WitnessAssumption`, `ProxyAssumption`, `TextAssumption`, `WireAssumption`, `StartUpAssumption`,
`ConfigAssumption`), which say what the constants are and that markers such as `NoBlock`
are not blocks. Every invariant that a run checks is a theorem.

| Module | Theorems | Inductive invariant `IInv`, and what it adds to the properties |
|---|---|---|
| `BlockCacheProofs` | `TypeCorrect`, `StateAgrees`, `QueueAgrees`, `MemoryBounded`, `NewestSurvives`, `LeastRecentlyUsedGoes`, `SetOfBlocks` | the loop runs iff the total is over the bound; each held block fits by itself (so the last one left ends the loop); the queue is in the order of use. Rests on lemmas about the sum of held bytes over a finite set |
| `CookieReadersProofs`, for `AuthSource` | `AuthTypeCorrect`, `AlwaysFresh` | a cached or copied entry holds no cookie older than one its time belongs to; a task about to store has seen the time before it read |
| the same, for `CookiePassword` and both | `UsersTypeCorrect`, `NoCookieNoMatch`, `OnlyTheRestatRaces`, `ReadersApart`, `ReadersCorrect` | as long as nothing was replaced between a read and its second stat, entries are no older than their time; what a thread between the two has read is current. `ReadersCorrect` follows for both kinds of reader on one file, as neither writes what the other uses |
| `PeerFetchProofs` | `TypeCorrect`, `PoolStaysClean`, `HonestNeverBlamed`, `Refinement` | pooled and handled connections owe nothing and a pooled one has a receiver or a sender (so a fetch that has not taken its handles can be no sender); the one in use owes exactly this fetch's request; handles belong to their list; the channel is filled iff a block was accepted, and with the valid one |
| `BlockFetchProofs` | `TypeCorrect`, `OnlyPrunedLeave`, `EmptyIsRecent`, `ParamsSingleFlight`, `PromiseKept` | a list with peers came from bitcoind; a refresh's news is no older than the look that caused it; one asker at the `OnceCell`, always on behalf of a listed peer; what a query of the peers yields is the block wanted |
| `InterceptionProofs` | `TypeCorrect`, `AnsweredHonestly`, `KindsAsPromised` | the header a call holds was true at some moment since it began; the block and the decoding it holds are those it asked for; which parts are awaited follows from the request |
| `PeerFetchProofs`, for `WitnessCheck` | `MinedAccepted`, `WitnessesKept` | the mined block passes, what was received differs in witnesses only, and the verdict is the check's |
| `ProxyRequestProofs` | `ForwardingIsSafe`, `RefusalIsTotal` | a place is forwarded once, after its interception, if `intercept` says so; a refused call that has ended is in the channel; nothing refused gets past the join |
| the same | `RepliesMatchCalls`, `TypeCorrect` | `JInv`: a call that has ended and is to be answered is in exactly one of the two channels; what has been merged is, in increasing order of places, exactly what was taken from the two sorted lists, and lies below all that was not |
| `StartUpProofs` | `LastSourceServed`, `CacheNeverWraps` | after k lines of `bitcoin.conf` the users are those configured, overwritten by the names in these lines |
| `RequestEntryProofs`, for `PasswordCheck` | `PasswordDecides`, `OnlyEmptyPanics` | `CheckInv`: after i bytes no bit is set iff the lengths are the same and so are the first i bytes; `OutcomeInv`: the fold gets past its first byte only if the password given is not empty |
| the same, for `RpcWire` | `SentIsForwarded`, `ReadAlike` | `BodyInv`: what a reader has made of the members so far is the last one of each key (`Latest`), which determines it; a reader that has failed met an escaped or repeated key, a value it refuses (`Refused`, `RefusedInBatch`), or the end without a method or parameters |

The properties themselves are not inductive: `HonestAnswersMatch`, say, speaks of the connection
in use, which was clean because the pool was, which is so because only `ReadBlock` recycles, and
only after the one request was answered. `SetOfBlocks` and `PromiseKept` are refinements: initial states
map to initial states and each step to a step or a stutter, given the invariant.

`RepliesMatchCalls` and `PasswordDecides` speak of what an algorithm computes for data of any length. There is no
induction over data in their proofs: `merge_by` and `xor_contents` are steps of the model, so that the invariant carries
the argument, and that a finite set can be listed in a given order (`OrderExists`, on which filter and sort rest) is shown
from a least counterexample in size (`LeastNat`). That the bits of two bytes differ if the bytes do (`XorZero`) goes down the
eight bits one by one. Of the comparison of a password, safety is proved (whatever ends, ends rightly) and that it ends is
checked by `VerdictOrPanic`.

Only model-checked: the liveness properties, `EveryFetchEnds`, `ReplacedPoolsDrain`, `EveryCallEnds`, `EveryRefreshEnds`,
`FailureEndsCall` and `VerdictOrPanic` (fairness is out of the prover's reach); and the three violation runs.

## 6. Not modelled

- `from_blockchain_info` and `signet_magic`: a table and a hash. That asking may fail is in `BlockFetch`.
- The HTTP server and hyper's handling of connections, and logging.
- The serde types of the RPC methods: conversions without state. What a verbose reply takes from a block by
  computation (sizes, weights, lists) is left out of `Interception`; that the derived reader of a request
  also takes an array is left out of `RpcWire`.
- Hash functions and merkle trees: taken to be injective. HMAC likewise. Of merkle trees this is not quite so: a list that repeats
  its trailing transactions has the root of the list that does not, and passes both checks. What `WitnessesAsMined` says of
  witnesses is meant of the transactions as mined.
- tokio's blocking pool, its bound on threads and its queue: a library's contract. That jobs left behind can use up the
  threads that cookie loads need is listed as a hazard without a property.
- The choice between direct, Tor and I2P connections (one `match`) and the encoding of messages: dialling
  succeeds or fails.
- The parser of the configuration files, a library.
- That the network parameters are kept although the node might come back on another chain, which nothing in
  the code could notice.

## 7. Plan

Done: the cache, the credentials, the peers, the composed fetch, the request, then interception, the
witness check, passwords and wire format, start-up, and the refinements that tie
the modules together.

Every invariant of the runs, the action property of the cache and the three refinements are proved.

Left: the compositions whose chain section 2 describes, as theorems across modules.
