---------------------------- MODULE Interception ----------------------------
(***************************************************************************)
(* `User::intercept` (src/src/users.rs) for a user with `fetch_blocks`:    *)
(* getblock, plain and at verbosity 1, and getrawtransaction with a block  *)
(* hash, plain and verbose.                                                *)
(*                                                                         *)
(* A verbose reply is put together from several answers: the block, from   *)
(* `fetch_block` (BlockQuery, which BlockFetch implements), the header and *)
(* the decoded transaction, each from a call of its own to bitcoind.  Two  *)
(* of them are awaited together by `try_join!`, while bitcoind's chain     *)
(* grows and is reorganised.  A block is what its hash says; all of it     *)
(* that changes is its number of confirmations, -1 off the active chain.   *)
(***************************************************************************)
EXTENDS Integers, Sequences, InterceptKinds

CONSTANTS
  Calls,       \* intercepted calls
  Requests,    \* what they may be: a method and an array of parameters
  Hashes,      \* blocks that bitcoind has the headers of
  Txids,       \* transactions
  TxsOf,       \* TxsOf[h]: the transactions of block h
  MaxConf,     \* bound on confirmations
  None

Bytes(h) == <<"bytes", h>>
FetchError == <<"error">>
Pruned == <<"pruned">>

\* Confirmations.
Confs == {-1} \cup (1 .. MaxConf)

\* Parameters: strings that parse as a hash or a txid, other JSON values, and "junk".
Values == Hashes \cup Txids \cup {"null", "false", "true", "0", "1", "2", "junk"}

ASSUME InterceptAssumption ==
  /\ Hashes # {}
  /\ TxsOf \in [Hashes -> SUBSET Txids]
  /\ MaxConf \in Nat \ {0}
  /\ \A r \in Requests :
       r.method \in {"getblock", "getrawtransaction"} /\ r.params \in Seq(Values)
  /\ None \notin Values \cup {FetchError, Pruned, <<"hex">>}
  /\ None \notin {Bytes(h) : h \in Hashes} \cup ({"tx"} \X Txids) \cup ({"conf"} \X Confs)

VARIABLES
  conf,     \* conf[h]: the confirmations of h
  request,  \* what each call asks for
  pc,       \* "begin", "raw", "block", "tx", "render", "ended" or "dropped"
  header,   \* the answer to getblockheader: <<"conf", n>>, <<"hex">>, FetchError
  decoded,  \* the answer to decoderawtransaction: <<"tx", t>>, FetchError
  reply,    \* how the call has ended: its kind and what is in it
  seen,     \* history: the confirmations its block has had since the call began
  stored, status, outcome  \* bitcoind's blocks, and the call of fetch_block (BlockQuery)

vars == <<conf, request, pc, header, decoded, reply, seen, stored, status, outcome>>

Param(c, i) == IF i \in DOMAIN request[c].params THEN request[c].params[i] ELSE None
IsGetBlock(c) == request[c].method = "getblock"

\* `params.get(1).unwrap_or(&1)`.
Verbosity(c) == IF Param(c, 2) = None THEN "1" ELSE Param(c, 2)

\* Slip: with no blockhash the transaction is looked for in some block.
InterceptableWithoutHash(c) == Param(c, 2) \in {None, "null", "false", "true", "0", "1"}

\* `interceptable`: the parameters name a transaction and a block and ask for a form
\* the proxy can give.
Interceptable(c) ==
  /\ Param(c, 3) \in Hashes
  /\ Param(c, 2) \in {None, "null", "false", "true", "0", "1"}
  /\ Param(c, 1) \in Txids

VerboseTx(c) == Param(c, 2) \in {"true", "1"}

\* The hash `fetch_block` is called for; any where it is not called at all.
Want(c) ==
  LET named == Param(c, IF IsGetBlock(c) THEN 1 ELSE 3)
  IN IF named \in Hashes THEN named ELSE CHOOSE h \in Hashes : TRUE

Query == INSTANCE BlockQuery
           WITH want <- [c \in Calls |-> Want(c)], Errors <- {FetchError}

-----------------------------------------------------------------------------

Init ==
  /\ conf \in [Hashes -> {-1, 1}]
  /\ request \in [Calls -> Requests]
  /\ pc = [c \in Calls |-> "begin"]
  /\ header = [c \in Calls |-> None]
  /\ decoded = [c \in Calls |-> None]
  /\ reply = [c \in Calls |-> None]
  /\ seen = [c \in Calls |-> {}]
  /\ Query!Init

Reply(c, kind, what) ==
  /\ pc' = [pc EXCEPT ![c] = "ended"]
  /\ reply' = [reply EXCEPT ![c] = [kind |-> kind, what |-> what]]

GoTo(c, where) == pc' = [pc EXCEPT ![c] = where] /\ UNCHANGED reply

\* The match on method and parameters.
BeginGetBlock(c) ==
  IF Verbosity(c) \notin {"0", "1"} THEN Reply(c, "none", None)
  ELSE IF Param(c, 1) = None THEN Reply(c, "panic", None)
  ELSE IF Param(c, 1) \notin Hashes THEN Reply(c, "broken", None)
  ELSE GoTo(c, IF Verbosity(c) = "0" THEN "raw" ELSE "block")

Begin(c) ==
  /\ pc[c] = "begin"
  /\ seen' = [seen EXCEPT ![c] = {conf[Want(c)]}]
  /\ \/ IsGetBlock(c) /\ BeginGetBlock(c)
     \/ /\ ~IsGetBlock(c)
        /\ IF Interceptable(c) THEN GoTo(c, "tx") ELSE Reply(c, "none", None)
  /\ UNCHANGED <<conf, request, header, decoded, stored, status, outcome>>

\* `fetch_block` ends.
Fetched(c) ==
  /\ pc[c] \in {"raw", "block", "tx"}
  /\ UNCHANGED <<conf, request, pc, header, decoded, reply, seen>>
  /\ \E r \in {Bytes(Want(c)), Pruned, FetchError} : Query!Answer(c, r)

\* bitcoind answers getblockheader, with an object or something else, or the call fails.
HeaderAnswered(c) ==
  /\ pc[c] \in {"block", "render"} /\ header[c] = None
  /\ header' = [header EXCEPT ![c] = <<"conf", conf[Want(c)]>>]
     \/ header' = [header EXCEPT ![c] = <<"hex">>]
     \/ header' = [header EXCEPT ![c] = FetchError]
  /\ UNCHANGED <<conf, request, pc, decoded, reply, seen, stored, status, outcome>>

\* bitcoind answers decoderawtransaction, or the call fails.
DecodeAnswered(c) ==
  /\ pc[c] = "render" /\ decoded[c] = None
  /\ decoded' = [decoded EXCEPT ![c] = <<"tx", Param(c, 1)>>]
     \/ decoded' = [decoded EXCEPT ![c] = FetchError]
  /\ UNCHANGED <<conf, request, pc, header, reply, seen, stored, status, outcome>>

\* Slip: `join!`, which waits for both.
JoinedBoth(x, y) == x # None /\ y # None

\* `try_join!` is over when both have ended or one has failed.
Joined(x, y) == (x # None /\ y # None) \/ FetchError \in {x, y}

\* getblock at verbosity 0.
EndRaw(c) ==
  /\ pc[c] = "raw" /\ outcome[c] # None
  /\ IF outcome[c] = Bytes(Want(c)) THEN Reply(c, "result", outcome[c])
     ELSE Reply(c, "error", outcome[c])
  /\ UNCHANGED <<conf, request, header, decoded, seen, stored, status, outcome>>

\* getblock at verbosity 1: the header's fields as they are, with those of the block.
EndBlock(c) ==
  /\ pc[c] = "block" /\ Joined(header[c], outcome[c])
  /\ \/ FetchError \in {header[c], outcome[c]} /\ Reply(c, "error", FetchError)
     \/ FetchError \notin {header[c], outcome[c]} /\ outcome[c] = Pruned
        /\ Reply(c, "error", Pruned)
     \/ /\ outcome[c] = Bytes(Want(c)) /\ header[c] = <<"hex">>
        /\ Reply(c, "broken", None)
     \/ /\ outcome[c] = Bytes(Want(c)) /\ header[c] \notin {None, <<"hex">>, FetchError}
        /\ Reply(c, "result", <<"block", Want(c), header[c][2]>>)
  /\ UNCHANGED <<conf, request, header, decoded, seen, stored, status, outcome>>

\* getrawtransaction has the block: look for the transaction.
EndTx(c) ==
  /\ pc[c] = "tx" /\ outcome[c] # None
  /\ \/ outcome[c] # Bytes(Want(c)) /\ Reply(c, "error", outcome[c])
     \/ /\ outcome[c] = Bytes(Want(c)) /\ Param(c, 1) \notin TxsOf[Want(c)]
        /\ Reply(c, "error", <<"not in block">>)
     \/ /\ outcome[c] = Bytes(Want(c)) /\ Param(c, 1) \in TxsOf[Want(c)]
        /\ IF VerboseTx(c) THEN GoTo(c, "render") ELSE Reply(c, "result", <<"hex", Param(c, 1)>>)
  /\ UNCHANGED <<conf, request, header, decoded, seen, stored, status, outcome>>

\* Slip: the confirmations of the header are passed on as they are.
RenderedUnclamped(t, h, n) ==
  <<"tx", [tx |-> t, blockhash |-> h, in_active_chain |-> n >= 0,
           confirmations |-> n, time |-> n >= 0]>>

\* Slip: the time is given for a block off the active chain too.
RenderedTimed(t, h, n) ==
  <<"tx", [tx |-> t, blockhash |-> h, in_active_chain |-> n >= 0,
           confirmations |-> IF n >= 0 THEN n ELSE 0, time |-> TRUE]>>

\* The fields inserted into the decoded transaction.
Rendered(t, h, n) ==
  <<"tx", [tx |-> t, blockhash |-> h, in_active_chain |-> n >= 0,
           confirmations |-> IF n >= 0 THEN n ELSE 0, time |-> n >= 0]>>

\* getrawtransaction, verbose.
EndRender(c) ==
  /\ pc[c] = "render" /\ Joined(decoded[c], header[c])
  /\ \/ FetchError \in {header[c], decoded[c]} /\ Reply(c, "error", FetchError)
     \/ FetchError \notin {header[c], decoded[c]} /\ header[c] = <<"hex">>
        /\ Reply(c, "error", header[c])
     \/ /\ FetchError \notin {header[c], decoded[c]} /\ header[c] # <<"hex">>
        /\ Reply(c, "result", Rendered(decoded[c][2], Want(c), header[c][2]))
  /\ UNCHANGED <<conf, request, header, decoded, seen, stored, status, outcome>>

\* The call's future is dropped at an await.
Drop(c) ==
  /\ pc[c] \notin {"begin", "ended", "dropped"}
  /\ GoTo(c, "dropped")
  /\ UNCHANGED <<conf, request, header, decoded, seen>>
  /\ IF status[c] = "asking" THEN Query!Drop(c) ELSE UNCHANGED <<stored, status, outcome>>

\* The chain of bitcoind grows by a block, or a block leaves it or comes back.
ChainChanges ==
  /\ \/ conf' = [h \in Hashes |-> IF conf[h] > 0 THEN conf[h] + 1 ELSE conf[h]]
     \/ \E h \in Hashes : conf' = [conf EXCEPT ![h] = IF conf[h] > 0 THEN -1 ELSE 1]
  /\ \A h \in Hashes : conf'[h] <= MaxConf
  /\ seen' = [c \in Calls |-> IF pc[c] \in {"begin", "ended", "dropped"} THEN seen[c]
                                ELSE seen[c] \cup {conf'[Want(c)]}]
  /\ UNCHANGED <<request, pc, header, decoded, reply, stored, status, outcome>>

Prune(h) ==
  /\ h \in stored
  /\ UNCHANGED <<conf, request, pc, header, decoded, reply, seen>>
  /\ Query!Prune(h)

Answering(c) == Fetched(c) \/ HeaderAnswered(c) \/ DecodeAnswered(c)
Polled(c) == Begin(c) \/ EndRaw(c) \/ EndBlock(c) \/ EndTx(c) \/ EndRender(c)

Next ==
  \/ ChainChanges
  \/ \E h \in Hashes : Prune(h)
  \/ \E c \in Calls : Answering(c) \/ Polled(c) \/ Drop(c)

\* tokio polls a task that has been woken; nothing is assumed of bitcoind.
Spec == Init /\ [][Next]_vars /\ \A c \in Calls : WF_vars(Polled(c))

-----------------------------------------------------------------------------

\* What may be in a reply.
Contents ==
  {None, <<"hex">>, FetchError, Pruned, <<"not in block">>}
    \cup {Bytes(h) : h \in Hashes} \cup ({"hex"} \X Txids) \cup ({"block"} \X Hashes \X Confs)
    \cup ({"tx"} \X [tx : Txids, blockhash : Hashes, in_active_chain : BOOLEAN,
                     confirmations : Nat, time : BOOLEAN])

TypeOK ==
  /\ conf \in [Hashes -> Confs]
  /\ request \in [Calls -> Requests]
  /\ pc \in [Calls -> {"begin", "raw", "block", "tx", "render", "ended", "dropped"}]
  /\ header \in [Calls -> {None, <<"hex">>, FetchError} \cup ({"conf"} \X Confs)]
  /\ decoded \in [Calls -> {None, FetchError} \cup ({"tx"} \X Txids)]
  /\ seen \in [Calls -> SUBSET Confs]
  /\ stored \subseteq Hashes
  /\ status \in [Calls -> {"asking", "done", "dropped"}]
  /\ outcome \in [Calls -> {None, FetchError, Pruned} \cup {Bytes(h) : h \in Hashes}]
  /\ reply \in [Calls -> {None} \cup [kind : {"none", "panic", "broken", "error", "result"},
                                    what : Contents]]

\* What a node that has the block answers while it has n confirmations (bitcoind's
\* getblock and getrawtransaction, as the comments of users.rs describe them).
NodeAnswers(c, n) ==
  CASE IsGetBlock(c) /\ Verbosity(c) = "0" -> Bytes(Want(c))
    [] IsGetBlock(c) /\ Verbosity(c) = "1" -> <<"block", Want(c), n>>
    [] ~IsGetBlock(c) /\ ~VerboseTx(c) -> <<"hex", Param(c, 1)>>
    [] ~IsGetBlock(c) /\ VerboseTx(c) ->
         <<"tx", [tx |-> Param(c, 1), blockhash |-> Want(c), in_active_chain |-> n # -1,
                  confirmations |-> IF n = -1 THEN 0 ELSE n, time |-> n # -1]>>

\* "A caller cannot tell the difference between a proxied answer and a direct one"
\* (users.rs): a result is what a node with the block would have answered at one moment
\* of the call, although its parts were asked for at different ones and the chain moved
\* in between; the block is called pruned, or without the transaction, only if it is.
AnsweredAsUnpruned ==
  \A c \in Calls : pc[c] = "ended" =>
    /\ reply[c].kind = "result" => \E n \in seen[c] : reply[c].what = NodeAnswers(c, n)
    /\ reply[c].kind = "error" =>
         /\ reply[c].what = Pruned => Want(c) \notin stored
         /\ reply[c].what = <<"not in block">> => Param(c, 1) \notin TxsOf[Want(c)]

\* What ProxyRequest sees of a call's parameters.
ParamsOf(c) ==
  CASE IsGetBlock(c) /\ Verbosity(c) \notin {"0", "1"} -> "other"
    [] IsGetBlock(c) /\ Verbosity(c) \in {"0", "1"} /\ request[c].params = <<>> -> "no hash"
    [] IsGetBlock(c) /\ Verbosity(c) \in {"0", "1"} /\ request[c].params # <<>> ->
         IF request[c].params[1] \in Hashes THEN "servable" ELSE "bad hash"
    [] ~IsGetBlock(c) ->
         IF /\ Len(request[c].params) >= 3
            /\ request[c].params[1] \in Txids /\ request[c].params[3] \in Hashes
            /\ request[c].params[2] \in {"null", "false", "true", "0", "1"}
         THEN "servable" ELSE "other"

\* Every call ends as ProxyRequest takes it to: in particular the only panic is that of
\* getblock with an empty array, and a getrawtransaction that is malformed, names no block
\* or wants verbosity 2 is bitcoind's to answer.
EndsAsPromised ==
  \A c \in Calls : pc[c] = "ended" =>
    reply[c].kind \in IF IsGetBlock(c) THEN InterceptGetBlock([params |-> ParamsOf(c)])
                      ELSE InterceptRawTransaction([params |-> ParamsOf(c)])

\* `try_join!` gives up at the first failure: a call one of whose parts has failed ends
\* although bitcoind or the peers never answer the other part.
FailureEndsCall ==
  \A c \in Calls :
    pc[c] # "begin" /\ FetchError \in {header[c], decoded[c], outcome[c]}
      ~> pc[c] \in {"ended", "dropped"}

=============================================================================
