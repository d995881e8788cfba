------------------------- MODULE InterceptionProofs -------------------------
(***************************************************************************)
(* Interception, for any requests, blocks and number of concurrent calls:  *)
(* a verbose reply is what a node with the block would have said at one    *)
(* moment, and every call ends as ProxyRequest takes it to.                *)
(***************************************************************************)
EXTENDS Interception, SequenceTheorems, TLAPS

\* What the answers a call has got so far are worth.
PartsInv(c) ==
  /\ header[c] \in {None, <<"hex">>, FetchError} \cup ({"conf"} \X seen[c])
  /\ decoded[c] \in {None, FetchError, <<"tx", Param(c, 1)>>}
  /\ outcome[c] \in {None, FetchError, Pruned, Bytes(Want(c))}
  /\ outcome[c] = Pruned => Want(c) \notin stored

\* What a call is, by where it is.
Raw(c) == IsGetBlock(c) /\ Verbosity(c) = "0" /\ Param(c, 1) \in Hashes
Block(c) == IsGetBlock(c) /\ Verbosity(c) = "1" /\ Param(c, 1) \in Hashes
Tx(c) == ~IsGetBlock(c) /\ Interceptable(c)

PlaceInv(c) ==
  /\ pc[c] = "begin" => seen[c] = {}
  /\ pc[c] \in {"raw", "block", "tx", "render"} => conf[Want(c)] \in seen[c]
  /\ pc[c] = "raw" => Raw(c)
  /\ pc[c] = "block" => Block(c)
  /\ pc[c] = "tx" => Tx(c)
  /\ pc[c] = "render" => Tx(c) /\ VerboseTx(c)

Honest(c) ==
  /\ reply[c].kind = "result" => \E n \in seen[c] : reply[c].what = NodeAnswers(c, n)
  /\ reply[c].kind = "error" =>
       /\ reply[c].what = Pruned => Want(c) \notin stored
       /\ reply[c].what = <<"not in block">> => Param(c, 1) \notin TxsOf[Want(c)]

Kinds(c) ==
  IF IsGetBlock(c) THEN InterceptGetBlock([params |-> ParamsOf(c)])
  ELSE InterceptRawTransaction([params |-> ParamsOf(c)])

CallInv(c) ==
  /\ PartsInv(c)
  /\ PlaceInv(c)
  /\ pc[c] = "ended" => Honest(c) /\ reply[c].kind \in Kinds(c)

IInv == TypeOK /\ \A c \in Calls : CallInv(c)

-----------------------------------------------------------------------------

LEMMA Constants ==
  /\ None # FetchError /\ None # Pruned /\ None # <<"hex">> /\ FetchError # Pruned
  /\ FetchError # <<"hex">> /\ Pruned # <<"hex">> /\ <<"not in block">> \notin {FetchError, Pruned, <<"hex">>}
  /\ \A h : Bytes(h) \notin {FetchError, Pruned}
  /\ \A h \in Hashes : Bytes(h) # None
  /\ \A x : <<"tx", x>> # FetchError /\ <<"conf", x>> \notin {FetchError, <<"hex">>}
  /\ \A x \in Txids : <<"tx", x>> # None
  /\ -1 \in Confs /\ 1 \in Confs /\ Confs \subseteq Int
BY InterceptAssumption DEF FetchError, Pruned, Bytes, Confs

LEMMA Replied ==
  ASSUME NEW S, NEW c \in Calls, NEW k, NEW w, reply \in [Calls -> S], Reply(c, k, w)
  PROVE  reply'[c].kind = k /\ reply'[c].what = w
<1> DEFINE r == [kind |-> k, what |-> w]
<1>1. r.kind = k /\ r.what = w
  OBVIOUS
<1> HIDE DEF r
<1>2. reply'[c] = r
  BY DEF Reply, r
<1> QED
  BY <1>1, <1>2

LEMMA WantTyped == ASSUME TypeOK, NEW c \in Calls PROVE Want(c) \in Hashes
BY InterceptAssumption DEF Want

\* Of a request that is not touched nothing changes.
LEMMA RequestKept ==
  ASSUME NEW c, request' = request
  PROVE  /\ Param(c, 1)' = Param(c, 1) /\ Param(c, 2)' = Param(c, 2) /\ Param(c, 3)' = Param(c, 3)
         /\ Want(c)' = Want(c) /\ (IsGetBlock(c)' <=> IsGetBlock(c))
         /\ Verbosity(c)' = Verbosity(c)
         /\ (Interceptable(c)' <=> Interceptable(c)) /\ (VerboseTx(c)' <=> VerboseTx(c))
         /\ (Raw(c)' <=> Raw(c)) /\ (Block(c)' <=> Block(c)) /\ (Tx(c)' <=> Tx(c))
         /\ Kinds(c)' = Kinds(c)
         /\ \A n : NodeAnswers(c, n)' = NodeAnswers(c, n)
<1>1. /\ Param(c, 1)' = Param(c, 1) /\ Param(c, 2)' = Param(c, 2) /\ Param(c, 3)' = Param(c, 3)
      /\ (IsGetBlock(c)' <=> IsGetBlock(c))
  BY DEF Param, IsGetBlock
<1>2. Want(c)' = Want(c) /\ Verbosity(c)' = Verbosity(c)
  BY DEF Want, Verbosity, Param, IsGetBlock
<1>3. (Interceptable(c)' <=> Interceptable(c)) /\ (VerboseTx(c)' <=> VerboseTx(c))
  BY <1>1 DEF Interceptable, VerboseTx
<1>4. (Raw(c)' <=> Raw(c)) /\ (Block(c)' <=> Block(c)) /\ (Tx(c)' <=> Tx(c))
  BY <1>1, <1>2, <1>3 DEF Raw, Block, Tx
<1>5. Kinds(c)' = Kinds(c)
  BY DEF Kinds, ParamsOf, Verbosity, Param, IsGetBlock
<1>6. \A n : NodeAnswers(c, n)' = NodeAnswers(c, n)
  BY <1>1, <1>2, <1>3 DEF NodeAnswers
<1> QED
  BY <1>1, <1>2, <1>3, <1>4, <1>5, <1>6

\* A call that does nothing keeps its invariant while the chain moves and blocks are pruned.
LEMMA CallKept ==
  ASSUME NEW c \in Calls, CallInv(c), request' = request, stored' \subseteq stored,
         seen[c] \subseteq seen'[c], header'[c] = header[c], decoded'[c] = decoded[c],
         outcome'[c] = outcome[c], pc'[c] \in {pc[c], "dropped"}, reply'[c] = reply[c],
         pc[c] = "begin" => seen'[c] = seen[c],
         conf' = conf \/ pc'[c] \in {"begin", "ended", "dropped"} \/ conf'[Want(c)] \in seen'[c]
  PROVE  CallInv(c)'
<1> USE RequestKept DEF CallInv
<1>1. PartsInv(c)'
  BY DEF PartsInv
<1>2. PlaceInv(c)'
  BY DEF PlaceInv
<1>3. pc'[c] = "ended" => Honest(c)'
  BY DEF Honest
<1> QED
  BY <1>1, <1>2, <1>3

\* A step of call c alone, which may get its parts but does not end.
LEMMA OneCall ==
  ASSUME IInv, NEW c \in Calls, request' = request, stored' = stored, conf' = conf,
         \A d \in Calls \ {c} : /\ seen'[d] = seen[d] /\ header'[d] = header[d]
                                /\ decoded'[d] = decoded[d] /\ outcome'[d] = outcome[d]
                                /\ pc'[d] = pc[d] /\ reply'[d] = reply[d],
         TypeOK', CallInv(c)'
  PROVE  IInv'
<1>1. ASSUME NEW d \in Calls, d # c PROVE CallInv(d)'
  BY <1>1, CallKept DEF IInv
<1> QED
  BY <1>1 DEF IInv

\* A call that ends: what it takes.
LEMMA EndsIInv ==
  ASSUME IInv, NEW c \in Calls, NEW k \in Kinds(c), NEW w \in Contents, Reply(c, k, w),
         k \in {"none", "panic", "broken", "error", "result"},
         UNCHANGED <<conf, request, header, decoded, stored, status, outcome>>,
         seen' \in [Calls -> SUBSET Confs], seen[c] \subseteq seen'[c],
         \A d \in Calls \ {c} : seen'[d] = seen[d],
         k = "result" => \E n \in seen'[c] : w = NodeAnswers(c, n),
         k = "error" /\ w = Pruned => Want(c) \notin stored,
         k = "error" /\ w = <<"not in block">> => Param(c, 1) \notin TxsOf[Want(c)]
  PROVE  IInv'
<1>1. /\ pc'[c] = "ended" /\ reply'[c] = [kind |-> k, what |-> w]
      /\ \A d \in Calls \ {c} : pc'[d] = pc[d] /\ reply'[d] = reply[d]
  BY DEF Reply, IInv, TypeOK
<1>2. TypeOK'
  BY DEF Reply, IInv, TypeOK
<1>a. reply'[c].kind = k /\ reply'[c].what = w
  <2>1. PICK S : reply \in [Calls -> S]
    BY DEF IInv, TypeOK
  <2> QED
    BY <2>1, Replied
<1>3. CallInv(c)'
  <2>1. PartsInv(c)'
    BY RequestKept DEF IInv, CallInv, PartsInv
  <2>2. PlaceInv(c)'
    BY <1>1 DEF PlaceInv
  <2>3. Honest(c)'
    <3>1. /\ Want(c)' = Want(c) /\ Param(c, 1)' = Param(c, 1)
          /\ \A n : NodeAnswers(c, n)' = NodeAnswers(c, n)
      BY RequestKept
    <3>2. k = "result" => \E n \in seen'[c] : w = NodeAnswers(c, n)'
      BY <3>1, Zenon
    <3> QED
      BY <3>1, <3>2, <1>a DEF Honest
  <2>4. reply'[c].kind \in Kinds(c)'
    BY <1>a, RequestKept, Zenon
  <2> QED
    BY <2>1, <2>2, <2>3, <2>4 DEF CallInv
<1> QED
  BY <1>1, <1>2, <1>3, OneCall

-----------------------------------------------------------------------------
(* One lemma per step. *)

LEMMA InitIInv == Init => IInv
<1> SUFFICES ASSUME Init PROVE IInv
  OBVIOUS
<1> USE Constants, InterceptAssumption DEF Init, Query!Init
<1>1. TypeOK
  BY DEF TypeOK
<1>2. ASSUME NEW c \in Calls PROVE CallInv(c)
  BY DEF CallInv, PartsInv, PlaceInv
<1> QED
  BY <1>1, <1>2 DEF IInv

\* The parameters as ProxyRequest classes them.
LEMMA Classes ==
  ASSUME TypeOK, NEW c \in Calls
  PROVE  /\ Raw(c) \/ Block(c) => Kinds(c) = {"result", "error", "broken"}
         /\ Tx(c) => Kinds(c) = {"result", "error"}
         /\ IsGetBlock(c) /\ Verbosity(c) \notin {"0", "1"} => Kinds(c) = {"none"}
         /\ IsGetBlock(c) /\ Verbosity(c) \in {"0", "1"} /\ Param(c, 1) = None => Kinds(c) = {"panic"}
         /\ IsGetBlock(c) /\ Verbosity(c) \in {"0", "1"} /\ Param(c, 1) # None
              /\ Param(c, 1) \notin Hashes => Kinds(c) = {"broken"}
         /\ ~IsGetBlock(c) /\ ~Interceptable(c) => Kinds(c) = {"none"}
         /\ Tx(c) => Param(c, 1) \in Txids
<1> DEFINE ps == request[c].params
<1>1. ps \in Seq(Values) /\ Len(ps) \in Nat /\ DOMAIN ps = 1 .. Len(ps) /\ None \notin Values
  BY InterceptAssumption DEF TypeOK
<1>2. /\ \A i \in 1 .. Len(ps) : ps[i] \in Values /\ ps[i] # None
      /\ Hashes \subseteq Values /\ Txids \subseteq Values
  BY <1>1 DEF Values
<1>3. /\ Param(c, 1) = IF Len(ps) >= 1 THEN ps[1] ELSE None
      /\ Param(c, 2) = IF Len(ps) >= 2 THEN ps[2] ELSE None
      /\ Param(c, 3) = IF Len(ps) >= 3 THEN ps[3] ELSE None
  BY <1>1 DEF Param
<1>4. ps = <<>> <=> Len(ps) = 0
  BY <1>1, EmptySeq
<1>5. Interceptable(c) <=>
        /\ Len(ps) >= 3 /\ ps[1] \in Txids /\ ps[3] \in Hashes
        /\ ps[2] \in {"null", "false", "true", "0", "1"}
  BY <1>1, <1>2, <1>3 DEF Interceptable
<1>6. CASE IsGetBlock(c)
  <2>1. Param(c, 1) = None <=> ps = <<>>
    BY <1>1, <1>2, <1>3, <1>4
  <2>2. ParamsOf(c) = IF Verbosity(c) \notin {"0", "1"} THEN "other"
                      ELSE IF ps = <<>> THEN "no hash"
                      ELSE IF ps[1] \in Hashes THEN "servable" ELSE "bad hash"
    BY <1>6 DEF ParamsOf
  <2>3. ps # <<>> => Param(c, 1) = ps[1]
    BY <1>1, <1>3, <1>4
  <2>4. Raw(c) \/ Block(c) => ps # <<>> /\ ps[1] \in Hashes /\ Verbosity(c) \in {"0", "1"}
    BY <1>1, <1>2, <2>1, <2>3 DEF Raw, Block
  <2> QED
    BY <1>6, <2>1, <2>2, <2>3, <2>4 DEF Kinds, InterceptGetBlock, Tx
<1>7. CASE ~IsGetBlock(c)
  <2>1. ParamsOf(c) = IF Interceptable(c) THEN "servable" ELSE "other"
    BY <1>5, <1>7 DEF ParamsOf
  <2> QED
    BY <1>7, <2>1 DEF Kinds, InterceptRawTransaction, Tx, Raw, Block, Interceptable
<1> QED
  BY <1>6, <1>7

\* A call that goes on from where it is.
LEMMA GoesOnIInv ==
  ASSUME IInv, NEW c \in Calls, NEW p \in {"raw", "block", "tx", "render"}, GoTo(c, p),
         UNCHANGED <<conf, request, header, decoded, stored, status, outcome>>,
         seen' \in [Calls -> SUBSET Confs], seen[c] \subseteq seen'[c],
         \A d \in Calls \ {c} : seen'[d] = seen[d],
         conf[Want(c)] \in seen'[c], p = "raw" => Raw(c), p = "block" => Block(c), p = "tx" => Tx(c),
         p = "render" => Tx(c) /\ VerboseTx(c)
  PROVE  IInv'
<1>1. /\ pc'[c] = p /\ pc' = [pc EXCEPT ![c] = p] /\ reply' = reply
      /\ \A d \in Calls \ {c} : pc'[d] = pc[d]
  BY DEF GoTo, IInv, TypeOK
<1>2. TypeOK'
  BY <1>1 DEF IInv, TypeOK
<1>3. PartsInv(c)'
  BY RequestKept DEF IInv, CallInv, PartsInv
<1>4. PlaceInv(c)'
  BY <1>1, RequestKept DEF PlaceInv
<1>5. CallInv(c)'
  BY <1>1, <1>3, <1>4 DEF CallInv
<1> QED
  BY <1>1, <1>2, <1>5, OneCall

LEMMA BeginIInv == ASSUME IInv, NEW c \in Calls, Begin(c) PROVE IInv'
<1>1. /\ pc[c] = "begin" /\ UNCHANGED <<conf, request, header, decoded, stored, status, outcome>>
      /\ seen' = [seen EXCEPT ![c] = {conf[Want(c)]}] /\ TypeOK /\ conf[Want(c)] \in Confs
      /\ seen[c] = {}
  BY WantTyped DEF Begin, IInv, TypeOK, CallInv, PlaceInv
<1>2. /\ seen' \in [Calls -> SUBSET Confs] /\ \A d \in Calls \ {c} : seen'[d] = seen[d]
      /\ seen[c] \subseteq seen'[c] /\ conf[Want(c)] \in seen'[c]
  BY <1>1 DEF TypeOK
<1>3. ASSUME NEW k \in {"none", "panic", "broken"}, k \in Kinds(c), Reply(c, k, None) PROVE IInv'
  <2>1. None \in Contents
    BY DEF Contents
  <2> QED
    BY <1>1, <1>2, <1>3, <2>1, EndsIInv
<1>4. CASE IsGetBlock(c)
  <2>1. BeginGetBlock(c)
    BY <1>4 DEF Begin
  <2>2. CASE Verbosity(c) \notin {"0", "1"}
    BY <1>1, <1>3, <1>4, <2>1, <2>2, Classes DEF BeginGetBlock
  <2>3. CASE Verbosity(c) \in {"0", "1"} /\ Param(c, 1) = None
    BY <1>1, <1>3, <1>4, <2>1, <2>3, Classes DEF BeginGetBlock
  <2>4. CASE Verbosity(c) \in {"0", "1"} /\ Param(c, 1) # None /\ Param(c, 1) \notin Hashes
    BY <1>1, <1>3, <1>4, <2>1, <2>4, Classes DEF BeginGetBlock
  <2>5. CASE Verbosity(c) = "0" /\ Param(c, 1) # None /\ Param(c, 1) \in Hashes
    <3>1. GoTo(c, "raw") /\ Raw(c)
      BY <1>4, <2>1, <2>5 DEF BeginGetBlock, Raw
    <3> QED
      BY <1>1, <1>2, <3>1, GoesOnIInv
  <2>6. CASE Verbosity(c) = "1" /\ Param(c, 1) # None /\ Param(c, 1) \in Hashes
    <3>1. GoTo(c, "block") /\ Block(c)
      BY <1>4, <2>1, <2>6 DEF BeginGetBlock, Block
    <3> QED
      BY <1>1, <1>2, <3>1, GoesOnIInv
  <2> QED
    BY <2>2, <2>3, <2>4, <2>5, <2>6
<1>5. CASE ~IsGetBlock(c)
  <2>1. CASE Interceptable(c)
    <3>1. GoTo(c, "tx") /\ Tx(c)
      BY <1>5, <2>1 DEF Begin, Tx
    <3> QED
      BY <1>1, <1>2, <3>1, GoesOnIInv
  <2>2. CASE ~Interceptable(c)
    BY <1>1, <1>3, <1>5, <2>2, Classes DEF Begin
  <2> QED
    BY <2>1, <2>2
<1> QED
  BY <1>4, <1>5

\* The answers: each is good when it comes.
LEMMA AnsweringIInv == ASSUME IInv, NEW c \in Calls, Answering(c) PROVE IInv'
<1>0. Want(c) \in Hashes /\ conf[Want(c)] \in Confs /\ TypeOK /\ CallInv(c)
  BY WantTyped DEF IInv, TypeOK
<1>1. /\ pc[c] \in {"raw", "block", "tx", "render"}
      /\ UNCHANGED <<conf, request, pc, reply, seen, stored>>
  BY DEF Answering, Fetched, HeaderAnswered, DecodeAnswered, Query!Answer
<1>2. PlaceInv(c)'
  BY <1>0, <1>1, RequestKept DEF CallInv, PlaceInv
<1>3. CASE Fetched(c)
  <2>1. PICK r \in {Bytes(Want(c)), Pruned, FetchError} : Query!Answer(c, r)
    BY <1>3 DEF Fetched
  <2>2. /\ UNCHANGED <<header, decoded>> /\ outcome' = [outcome EXCEPT ![c] = r]
        /\ status' = [status EXCEPT ![c] = "done"] /\ (r = Pruned => Want(c) \notin stored)
    BY <1>3, <2>1, Constants DEF Fetched, Query!Answer
  <2>3. TypeOK'
    BY <1>0, <1>1, <2>2 DEF TypeOK
  <2>4. /\ \A d \in Calls \ {c} : outcome'[d] = outcome[d]
        /\ outcome'[c] = r
    BY <1>0, <2>2 DEF TypeOK
  <2>5. PartsInv(c)'
    BY <1>0, <1>1, <2>2, <2>4, RequestKept DEF CallInv, PartsInv
  <2> QED
    BY <1>1, <1>2, <2>2, <2>3, <2>4, <2>5, OneCall DEF CallInv
<1>4. CASE HeaderAnswered(c)
  <2>1. PICK a \in {<<"conf", conf[Want(c)]>>, <<"hex">>, FetchError} :
          header' = [header EXCEPT ![c] = a]
    BY <1>4 DEF HeaderAnswered
  <2>2. UNCHANGED <<decoded, outcome, status>>
    BY <1>4 DEF HeaderAnswered
  <2>3. a \in {None, <<"hex">>, FetchError} \cup ({"conf"} \X Confs)
    BY <1>0, <2>1
  <2>4. TypeOK'
    BY <1>0, <1>1, <2>1, <2>2, <2>3 DEF TypeOK
  <2>5. header'[c] = a /\ \A d \in Calls \ {c} : header'[d] = header[d]
    BY <1>0, <2>1 DEF TypeOK
  <2>6. PartsInv(c)'
    <3>1. conf[Want(c)] \in seen[c]
      BY <1>0, <1>1 DEF CallInv, PlaceInv
    <3>2. header'[c] \in {None, <<"hex">>, FetchError} \cup ({"conf"} \X seen'[c])
      BY <1>1, <2>1, <2>5, <3>1
    <3> QED
      BY <1>0, <1>1, <2>2, <3>2, RequestKept DEF CallInv, PartsInv
  <2> QED
    BY <1>1, <1>2, <2>2, <2>4, <2>5, <2>6, OneCall DEF CallInv
<1>5. CASE DecodeAnswered(c)
  <2>1. PICK a \in {<<"tx", Param(c, 1)>>, FetchError} : decoded' = [decoded EXCEPT ![c] = a]
    BY <1>5 DEF DecodeAnswered
  <2>2. UNCHANGED <<header, outcome, status>> /\ pc[c] = "render"
    BY <1>5 DEF DecodeAnswered
  <2>3. Param(c, 1) \in Txids
    BY <1>0, <2>2, Classes DEF CallInv, PlaceInv
  <2>4. TypeOK'
    BY <1>0, <1>1, <2>1, <2>2, <2>3 DEF TypeOK
  <2>5. decoded'[c] = a /\ \A d \in Calls \ {c} : decoded'[d] = decoded[d]
    BY <1>0, <2>1 DEF TypeOK
  <2>6. PartsInv(c)'
    BY <1>0, <1>1, <2>1, <2>2, <2>5, RequestKept DEF CallInv, PartsInv
  <2> QED
    BY <1>1, <1>2, <2>2, <2>4, <2>5, <2>6, OneCall DEF CallInv
<1> QED
  BY <1>3, <1>4, <1>5 DEF Answering

\* The ends.
LEMMA EndRawIInv == ASSUME IInv, NEW c \in Calls, EndRaw(c) PROVE IInv'
<1>1. /\ pc[c] = "raw" /\ outcome[c] # None /\ TypeOK /\ CallInv(c) /\ Raw(c) /\ Want(c) \in Hashes
      /\ UNCHANGED <<conf, request, header, decoded, seen, stored, status, outcome>>
      /\ conf[Want(c)] \in seen[c]
  BY WantTyped DEF EndRaw, IInv, CallInv, PlaceInv
<1>2. Kinds(c) = {"result", "error", "broken"}
  BY <1>1, Classes
<1>3. outcome[c] \in {FetchError, Pruned, Bytes(Want(c))} /\ (outcome[c] = Pruned => Want(c) \notin stored)
  BY <1>1 DEF CallInv, PartsInv
<1>4. (outcome[c] \in Contents /\ outcome[c] # <<"not in block">>) \/ outcome[c] = Bytes(Want(c))
  BY <1>1, <1>3, Constants DEF Contents
<1>5. Bytes(Want(c)) \in Contents
  BY <1>1 DEF Contents
<1>6. CASE outcome[c] = Bytes(Want(c))
  <2>1. \A n : NodeAnswers(c, n) = Bytes(Want(c))
    BY <1>1 DEF NodeAnswers, Raw
  <2>2. Reply(c, "result", outcome[c])
    BY <1>6 DEF EndRaw
  <2> QED
    BY <1>1, <1>2, <1>5, <1>6, <2>1, <2>2, EndsIInv DEF TypeOK
<1>7. CASE outcome[c] # Bytes(Want(c))
  <2>1. Reply(c, "error", outcome[c])
    BY <1>7 DEF EndRaw
  <2> QED
    BY <1>1, <1>2, <1>3, <1>4, <1>7, <2>1, EndsIInv DEF TypeOK
<1> QED
  BY <1>6, <1>7

LEMMA EndBlockIInv == ASSUME IInv, NEW c \in Calls, EndBlock(c) PROVE IInv'
<1>1. /\ pc[c] = "block" /\ TypeOK /\ CallInv(c) /\ Block(c) /\ Want(c) \in Hashes
      /\ UNCHANGED <<conf, request, header, decoded, seen, stored, status, outcome>>
      /\ Kinds(c) = {"result", "error", "broken"} /\ seen' \in [Calls -> SUBSET Confs]
  BY WantTyped, Classes DEF EndBlock, IInv, CallInv, PlaceInv, TypeOK
<1>2. /\ outcome[c] = Pruned => Want(c) \notin stored
      /\ header[c] \in {None, <<"hex">>, FetchError} \cup ({"conf"} \X seen[c])
  BY <1>1 DEF CallInv, PartsInv
<1>3. {None, FetchError, Pruned} \subseteq Contents
  BY DEF Contents
<1>4. CASE Reply(c, "error", FetchError)
  BY <1>1, <1>3, <1>4, Constants, EndsIInv
<1>5. CASE outcome[c] = Pruned /\ Reply(c, "error", Pruned)
  BY <1>1, <1>2, <1>3, <1>5, Constants, EndsIInv
<1>6. CASE Reply(c, "broken", None)
  BY <1>1, <1>3, <1>6, EndsIInv
<1>7. CASE /\ header[c] \notin {None, <<"hex">>, FetchError}
           /\ Reply(c, "result", <<"block", Want(c), header[c][2]>>)
  <2>1. PICK n \in seen[c] : header[c] = <<"conf", n>>
    BY <1>2, <1>7
  <2>2. header[c][2] = n /\ n \in Confs
    BY <1>1, <2>1 DEF TypeOK
  <2>3. NodeAnswers(c, n) = <<"block", Want(c), n>> /\ <<"block", Want(c), n>> \in Contents
    BY <1>1, <2>2 DEF NodeAnswers, Block, Contents
  <2>4. \E m \in seen'[c] : <<"block", Want(c), n>> = NodeAnswers(c, m)
    BY <1>1, <2>1, <2>3
  <2> QED
    BY <1>1, <1>7, <2>2, <2>3, <2>4, EndsIInv
<1> QED
  BY <1>4, <1>5, <1>6, <1>7 DEF EndBlock

LEMMA EndTxIInv == ASSUME IInv, NEW c \in Calls, EndTx(c) PROVE IInv'
<1>1. /\ pc[c] = "tx" /\ TypeOK /\ CallInv(c) /\ Tx(c) /\ Want(c) \in Hashes
      /\ UNCHANGED <<conf, request, header, decoded, seen, stored, status, outcome>>
      /\ conf[Want(c)] \in seen[c] /\ Kinds(c) = {"result", "error"} /\ Param(c, 1) \in Txids
      /\ seen' \in [Calls -> SUBSET Confs]
  BY WantTyped, Classes DEF EndTx, IInv, CallInv, PlaceInv, TypeOK
<1>2. /\ outcome[c] # None /\ outcome[c] \in {None, FetchError, Pruned, Bytes(Want(c))}
      /\ outcome[c] = Pruned => Want(c) \notin stored
  BY <1>1 DEF CallInv, PartsInv, EndTx
<1>3. {FetchError, Pruned, <<"not in block">>} \subseteq Contents
  BY DEF Contents
<1>4. CASE outcome[c] # Bytes(Want(c)) /\ Reply(c, "error", outcome[c])
  BY <1>1, <1>2, <1>3, <1>4, Constants, EndsIInv
<1>5. CASE Param(c, 1) \notin TxsOf[Want(c)] /\ Reply(c, "error", <<"not in block">>)
  BY <1>1, <1>3, <1>5, Constants, EndsIInv
<1>6. CASE VerboseTx(c) /\ GoTo(c, "render")
  BY <1>1, <1>6, GoesOnIInv
<1>7. CASE ~VerboseTx(c) /\ Reply(c, "result", <<"hex", Param(c, 1)>>)
  <2>1. \A n : NodeAnswers(c, n) = <<"hex", Param(c, 1)>>
    BY <1>1, <1>7 DEF NodeAnswers, Tx
  <2>2. <<"hex", Param(c, 1)>> \in Contents
    BY <1>1 DEF Contents
  <2> QED
    BY <1>1, <1>7, <2>1, <2>2, EndsIInv
<1> QED
  BY <1>4, <1>5, <1>6, <1>7 DEF EndTx

LEMMA EndRenderIInv == ASSUME IInv, NEW c \in Calls, EndRender(c) PROVE IInv'
<1>1. /\ pc[c] = "render" /\ TypeOK /\ CallInv(c) /\ Tx(c) /\ VerboseTx(c) /\ Want(c) \in Hashes
      /\ UNCHANGED <<conf, request, header, decoded, seen, stored, status, outcome>>
      /\ Kinds(c) = {"result", "error"} /\ Param(c, 1) \in Txids
      /\ seen' \in [Calls -> SUBSET Confs] /\ Joined(decoded[c], header[c])
  BY WantTyped, Classes DEF EndRender, IInv, CallInv, PlaceInv, TypeOK
<1>2. /\ header[c] \in {None, <<"hex">>, FetchError} \cup ({"conf"} \X seen[c])
      /\ decoded[c] \in {None, FetchError, <<"tx", Param(c, 1)>>}
  BY <1>1 DEF CallInv, PartsInv
<1>3. {<<"hex">>, FetchError} \subseteq Contents
  BY DEF Contents
<1>4. CASE Reply(c, "error", FetchError)
  BY <1>1, <1>3, <1>4, Constants, EndsIInv
<1>5. CASE header[c] = <<"hex">> /\ Reply(c, "error", header[c])
  BY <1>1, <1>3, <1>5, Constants, EndsIInv
<1>6. CASE /\ FetchError \notin {header[c], decoded[c]} /\ header[c] # <<"hex">>
           /\ Reply(c, "result", Rendered(decoded[c][2], Want(c), header[c][2]))
  <2>1. header[c] # None /\ decoded[c] # None
    BY <1>1, <1>6 DEF Joined
  <2>2. decoded[c] = <<"tx", Param(c, 1)>>
    BY <1>2, <1>6, <2>1
  <2>3. PICK n \in seen[c] : header[c] = <<"conf", n>>
    BY <1>2, <1>6, <2>1
  <2>4. header[c][2] = n /\ n \in Confs /\ decoded[c][2] = Param(c, 1)
    BY <1>1, <2>2, <2>3 DEF TypeOK
  <2> DEFINE w == Rendered(Param(c, 1), Want(c), n)
  <2>5. n \in Int /\ (n = -1 \/ n >= 1)
    BY <2>4, InterceptAssumption DEF Confs
  <2>6. NodeAnswers(c, n) = w
    <3>1. (n >= 0 <=> n # -1) /\ (n >= 0) = (n # -1)
          /\ (IF n >= 0 THEN n ELSE 0) = IF n = -1 THEN 0 ELSE n
      BY <2>5
    <3>2. NodeAnswers(c, n) =
            <<"tx", [tx |-> Param(c, 1), blockhash |-> Want(c), in_active_chain |-> n # -1,
                     confirmations |-> IF n = -1 THEN 0 ELSE n, time |-> n # -1]>>
      BY <1>1 DEF NodeAnswers, Tx
    <3> QED
      BY <3>1, <3>2, Zenon DEF Rendered
  <2>7. w \in Contents
    <3>1. [tx |-> Param(c, 1), blockhash |-> Want(c), in_active_chain |-> n >= 0,
           confirmations |-> IF n >= 0 THEN n ELSE 0, time |-> n >= 0]
            \in [tx : Txids, blockhash : Hashes, in_active_chain : BOOLEAN,
                 confirmations : Nat, time : BOOLEAN]
      BY <1>1, <2>5
    <3> QED
      BY <3>1 DEF Contents, Rendered
  <2> HIDE DEF w
  <2>8. \E m \in seen'[c] : w = NodeAnswers(c, m)
    BY <1>1, <2>3, <2>6
  <2>9. Reply(c, "result", w)
    BY <1>6, <2>4 DEF w
  <2> QED
    BY <1>1, <2>7, <2>8, <2>9, EndsIInv
<1> QED
  BY <1>4, <1>5, <1>6 DEF EndRender

\* What happens around a call, or to it.
LEMMA DropIInv == ASSUME IInv, NEW c \in Calls, Drop(c) PROVE IInv'
<1>1. /\ UNCHANGED <<conf, request, header, decoded, seen, stored, outcome, reply>>
      /\ pc' = [pc EXCEPT ![c] = "dropped"]
      /\ status' = status \/ status' = [status EXCEPT ![c] = "dropped"]
  BY DEF Drop, GoTo, Query!Drop
<1>2. TypeOK'
  BY <1>1 DEF IInv, TypeOK
<1>3. \A d \in Calls : pc'[d] \in {pc[d], "dropped"}
  BY <1>1 DEF IInv, TypeOK
<1>4. ASSUME NEW d \in Calls PROVE CallInv(d)'
  BY <1>1, <1>3, CallKept DEF IInv
<1> QED
  BY <1>2, <1>4 DEF IInv

LEMMA ChainChangesIInv == ASSUME IInv, ChainChanges PROVE IInv'
<1>1. UNCHANGED <<request, pc, header, decoded, reply, stored, status, outcome>> /\ TypeOK
  BY DEF ChainChanges, IInv
<1>2. conf' \in [Hashes -> Confs]
  BY <1>1, InterceptAssumption DEF ChainChanges, TypeOK, Confs
<1>3. \A c \in Calls :
        /\ seen[c] \subseteq seen'[c]
        /\ pc[c] \in {"begin", "ended", "dropped"} => seen'[c] = seen[c]
        /\ pc[c] \notin {"begin", "ended", "dropped"} => conf'[Want(c)] \in seen'[c]
  BY DEF ChainChanges
<1>4. \A c \in Calls : conf'[Want(c)] \in Confs
  BY <1>1, <1>2, WantTyped
<1>5. seen' \in [Calls -> SUBSET Confs]
  BY <1>1, <1>4 DEF ChainChanges, TypeOK
<1>6. TypeOK'
  BY <1>1, <1>2, <1>5 DEF TypeOK
<1>7. ASSUME NEW c \in Calls PROVE CallInv(c)'
  BY <1>1, <1>3, CallKept DEF IInv
<1> QED
  BY <1>6, <1>7 DEF IInv

LEMMA PruneIInv == ASSUME IInv, NEW h \in Hashes, Prune(h) PROVE IInv'
<1>1. /\ UNCHANGED <<conf, request, pc, header, decoded, reply, seen, status, outcome>>
      /\ stored' = stored \ {h}
  BY DEF Prune, Query!Prune
<1>2. TypeOK'
  BY <1>1 DEF IInv, TypeOK
<1>3. ASSUME NEW c \in Calls PROVE CallInv(c)'
  BY <1>1, CallKept DEF IInv
<1> QED
  BY <1>2, <1>3 DEF IInv

LEMMA NextIInv == IInv /\ [Next]_vars => IInv'
<1> SUFFICES ASSUME IInv, [Next]_vars PROVE IInv'
  OBVIOUS
<1>1. CASE UNCHANGED vars
  <2>1. TypeOK'
    BY <1>1 DEF vars, IInv, TypeOK
  <2>2. ASSUME NEW c \in Calls PROVE CallInv(c)'
    BY <1>1, CallKept DEF vars, IInv
  <2> QED
    BY <2>1, <2>2 DEF IInv
<1>2. CASE Next
  BY <1>2, ChainChangesIInv, PruneIInv, AnsweringIInv, BeginIInv, EndRawIInv, EndBlockIInv,
     EndTxIInv, EndRenderIInv, DropIInv DEF Next, Polled
<1> QED
  BY <1>1, <1>2

LEMMA InvariantIInv == Spec => []IInv
BY InitIInv, NextIInv, PTL DEF Spec

\* Types: among them, no reply has a negative number of confirmations in a transaction,
\* although that of the header is -1 for a block off the active chain.
THEOREM TypeCorrect == Spec => []TypeOK
<1>1. IInv => TypeOK
  BY DEF IInv
<1> QED
  BY <1>1, InvariantIInv, PTL

\* A result is what a node with the block would have answered at one moment of the call,
\* whatever the chain did meanwhile, and the errors that speak of the block are true.
THEOREM AnsweredHonestly == Spec => []AnsweredAsUnpruned
<1>1. IInv => AnsweredAsUnpruned
  BY DEF IInv, CallInv, Honest, AnsweredAsUnpruned
<1> QED
  BY <1>1, InvariantIInv, PTL

\* A call ends in one of the ways ProxyRequest takes it to end in.
THEOREM KindsAsPromised == Spec => []EndsAsPromised
<1>1. IInv => EndsAsPromised
  BY DEF IInv, CallInv, Kinds, EndsAsPromised
<1> QED
  BY <1>1, InvariantIInv, PTL

=============================================================================
