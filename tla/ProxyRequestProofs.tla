------------------------- MODULE ProxyRequestProofs -------------------------
(***************************************************************************)
(* ProxyRequest, for any calls, users and permissions and batches of any   *)
(* length: nothing reaches bitcoind but what its user may call, one        *)
(* refused call fails its request, and every reply stands where its call   *)
(* stood, whatever order the calls of a batch end in.                      *)
(***************************************************************************)
EXTENDS ProxyRequest, SequenceTheorems, FiniteSetTheorems, WellFoundedInduction, TLAPS

Refused(i) == http.calls[i].method \notin AllowedOf[user]

\* What OnlyAllowedIsForwarded says of a call, as `intercept` decides it.
Forwardable(i) == Intercept(user, http.calls[i]) \cap {"none"} # {}

Waiting == {"body", "single", "batch", "auth", "reply", "merging"}

\* Past the first look there is an authenticated user; before it there is nobody.
UserInv ==
  /\ pc = "arrived" => user = NoUser
  /\ user # NoUser => user = UserOf(http.auth)
  /\ pc \in Waiting \/ posted # NotPosted => user # NoUser

\* A place is forwarded once, when its interception has ended, if it is forwardable.
ForwardedInv ==
  /\ forwarded \in Seq(Places)
  /\ running \subseteq Places
  /\ pc \in {"arrived", "body", "single"} => forwarded = <<>>
  /\ \A j \in DOMAIN forwarded : forwarded[j] \notin running /\ Forwardable(forwarded[j])
  /\ \A j, k \in DOMAIN forwarded : forwarded[j] = forwarded[k] => j = k

\* What is posted is what has been forwarded.
PostedInv ==
  /\ posted = NotPosted \/ posted = Post
  /\ pc \in {"arrived", "body", "single", "batch", "auth"} => posted = NotPosted

\* Every call is running, or it is allowed, or its refusal is in the channel.
RefusedInv ==
  /\ intercepted \in Seq([of : Places, outcome : {"result", "error", "refused", "broken"}])
  /\ pc \in {"single", "batch", "auth", "reply", "merging"} => http.parses
  /\ pc = "single" => ~http.batch /\ running = Places
  /\ pc = "batch" =>
       \A i \in Places : i \notin running /\ Refused(i) =>
         \E k \in DOMAIN intercepted : intercepted[k].outcome = "refused"
  /\ pc \in {"auth", "reply", "merging"} => \A i \in Places : ~Refused(i)

IInv ==
  /\ http \in HttpRequests
  /\ UserInv /\ ForwardedInv /\ PostedInv /\ RefusedInv /\ RefusalFailsAll

-----------------------------------------------------------------------------

LEMMA HttpFacts ==
  ASSUME http \in HttpRequests
  PROVE  /\ http.batch \in BOOLEAN /\ (~http.batch => Places = {1})
         /\ http.calls \in Seq(Calls) /\ Places \subseteq 1 .. MaxBatch + 1
<1>1. CASE http \in [path : Paths, post : BOOLEAN, auth : Auths, parses : BOOLEAN,
                     batch : {FALSE}, calls : [1 .. 1 -> Calls]]
  <2>1. http.batch = FALSE /\ http.calls \in [1 .. 1 -> Calls]
    BY <1>1
  <2>2. 1 .. 1 = {1}
    OBVIOUS
  <2>3. http.calls \in Seq(Calls) /\ 1 .. 1 \subseteq 1 .. MaxBatch + 1
    <3>1. \A n \in Nat : http.calls \in [1 .. n -> Calls] => http.calls \in Seq(Calls)
      OBVIOUS
    <3>2. 1 \in Nat /\ 1 .. 1 \subseteq 1 .. MaxBatch + 1
      BY ProxyAssumption
    <3> QED
      BY <2>1, <3>1, <3>2, Zenon
  <2> QED
    BY <2>1, <2>2, <2>3 DEF Places
<1>2. CASE http \in [path : Paths, post : BOOLEAN, auth : Auths, parses : BOOLEAN,
                     batch : {TRUE}, calls : UNION {[1 .. n -> Calls] : n \in 0 .. MaxBatch}]
  <2>1. http.batch = TRUE /\ http.calls \in UNION {[1 .. n -> Calls] : n \in 0 .. MaxBatch}
    BY <1>2
  <2>2. PICK n \in 0 .. MaxBatch : http.calls \in [1 .. n -> Calls]
    BY <2>1
  <2>3. n \in Nat /\ 1 .. n \subseteq 1 .. MaxBatch + 1
    BY ProxyAssumption
  <2>4. http.calls \in Seq(Calls) /\ Places = 1 .. n
    BY <2>2, <2>3 DEF Places
  <2> QED
    BY <2>1, <2>3, <2>4
<1> QED
  BY <1>1, <1>2 DEF HttpRequests

\* `intercept` refuses exactly what is not allowed, and forwards nothing else it would
\* answer itself.
LEMMA InterceptFacts ==
  ASSUME NEW i \in Places
  PROVE  /\ Refused(i) => Intercept(user, http.calls[i]) = {"refused"}
         /\ "none" \in Intercept(user, http.calls[i]) => Forwardable(i)
         /\ Forwardable(i) => ~Refused(i)
         /\ Forwardable(i) => ~(/\ user \in FetchBlocks /\ http.calls[i].params = "servable"
                                /\ http.calls[i].method \in {"getblock", "getrawtransaction"})
         /\ Intercept(user, http.calls[i])
              \subseteq {"none", "result", "error", "refused", "broken", "panic"}
<1> DEFINE call == http.calls[i]
<1>1. CASE call.method \notin AllowedOf[user]
  BY <1>1 DEF Refused, Forwardable, Intercept,
     InterceptGetBlock, InterceptRawTransaction
<1>2. CASE call.method \in AllowedOf[user] /\ user \in FetchBlocks /\ call.method = "getblock"
  BY <1>2 DEF Refused, Forwardable, Intercept,
     InterceptGetBlock, InterceptRawTransaction
<1>3. CASE /\ call.method \in AllowedOf[user] /\ user \in FetchBlocks
           /\ call.method = "getrawtransaction"
  BY <1>3 DEF Refused, Forwardable, Intercept,
     InterceptGetBlock, InterceptRawTransaction
<1>4. CASE /\ call.method \in AllowedOf[user]
           /\ ~(user \in FetchBlocks /\ call.method \in {"getblock", "getrawtransaction"})
  BY <1>4 DEF Refused, Forwardable, Intercept,
     InterceptGetBlock, InterceptRawTransaction
<1> QED
  BY <1>1, <1>2, <1>3, <1>4

LEMMA InitIInv == Init => IInv
<1> SUFFICES ASSUME Init PROVE IInv
  OBVIOUS
<1> USE DEF Init
<1>1. forwarded \in Seq(Places) /\ DOMAIN forwarded = {}
  OBVIOUS
<1>2. intercepted \in Seq([of : Places, outcome : {"result", "error", "refused", "broken"}])
  OBVIOUS
<1> QED
  BY <1>1, <1>2 DEF IInv, UserInv, ForwardedInv, PostedInv, RefusedInv, RefusalFailsAll, Waiting

\* Steps that only move on, close the connection or answer without forwarding.
LEMMA EarlyIInv ==
  ASSUME IInv, TurnAway \/ ComparePanics \/ Authenticate \/ Parse
  PROVE  IInv'
<1> USE DEF IInv
<1>1. /\ http' = http /\ intercepted' = intercepted /\ forwarded' = forwarded
      /\ posted' = posted /\ Places' = Places
  BY DEF TurnAway, ComparePanics, Authenticate, Parse, Places
<1>2. /\ pc \in {"arrived", "body"} /\ forwarded = <<>> /\ posted = NotPosted
      /\ DOMAIN forwarded = {}
  BY DEF TurnAway, ComparePanics, Authenticate, Parse, ForwardedInv, PostedInv
<1>3. UserInv'
  BY <1>1 DEF UserInv, TurnAway, ComparePanics, Authenticate, Parse, Respond, Waiting, UserOf
<1>4. ForwardedInv'
  BY <1>1, <1>2 DEF ForwardedInv, TurnAway, ComparePanics, Authenticate, Parse, Places
<1>5. PostedInv'
  BY <1>1, <1>2 DEF PostedInv
<1>6. RefusedInv'
  BY <1>1 DEF RefusedInv, TurnAway, ComparePanics, Authenticate, Parse, Respond, Places
<1>7. RefusalFailsAll'
  <2>1. TurnAway => user' = NoUser
    BY DEF TurnAway, UserInv
  <2>2. Authenticate => pc' = "body"
    BY DEF Authenticate
  <2>3. Parse => pc' # "responded" \/ ~http'.parses
    BY <1>1 DEF Parse, Respond
  <2>4. ComparePanics => pc' = "closed"
    BY DEF ComparePanics
  <2> QED
    BY <2>1, <2>2, <2>3, <2>4 DEF RefusalFailsAll
<1> QED
  BY <1>1, <1>3, <1>4, <1>5, <1>6, <1>7

\* A step that leaves the channels, the post and the response alone, or answers with
\* an error or when no call is refused.
LEMMA LateIInv ==
  ASSUME IInv, pc \in Waiting,
         UNCHANGED <<http, user, intercepted, forwarded>>,
         running' \subseteq running, pc' # "single", pc' # "body", pc' # "arrived", pc' # "batch",
         posted' = posted \/ posted' = NotPosted \/ posted' = Post,
         pc' \in {"auth", "reply", "merging"} => http.parses /\ \A i \in Places : ~Refused(i),
         pc' = "auth" => posted' = NotPosted,
         RefusalFailsAll'
  PROVE  IInv'
<1> USE DEF IInv
<1>1. Places' = Places /\ Post' = Post /\ Path' = Path
  BY DEF Places, Post, Path
<1>2. UserInv'
  BY DEF UserInv, Waiting, UserOf
<1>3. ForwardedInv'
  BY <1>1 DEF ForwardedInv, Forwardable, Intercept,
     InterceptGetBlock, InterceptRawTransaction
<1>4. PostedInv'
  BY <1>1 DEF PostedInv
<1>5. RefusedInv'
  BY <1>1 DEF RefusedInv, Refused
<1> QED
  BY <1>2, <1>3, <1>4, <1>5

LEMMA EndSingleIInv ==
  ASSUME IInv, EndSingle
  PROVE  IInv'
<1> USE DEF IInv
<1>1. /\ pc = "single" /\ running' = {} /\ Places = {1} /\ Places' = Places
      /\ UNCHANGED <<http, user, intercepted, posted>>
  BY HttpFacts DEF EndSingle, RefusedInv, Places
<1>2. /\ forwarded = <<>> /\ posted = NotPosted /\ user # NoUser /\ http.parses
      /\ user = UserOf(http.auth)
  BY <1>1 DEF ForwardedInv, PostedInv, UserInv, Waiting, RefusedInv
<1>3. PICK outcome \in Intercept(user, http.calls[1]) \ {"panic"} :
        \/ outcome = "none" /\ forwarded' = <<1>> /\ pc' = "auth" /\ UNCHANGED response
        \/ /\ outcome # "none"
           /\ LET status == StatusOf(outcome, http.calls[1])
              IN Respond(status, IF status = 204 THEN <<>> ELSE <<ByProxy(1)>>)
           /\ UNCHANGED forwarded
  BY DEF EndSingle
<1>4. 1 \in Places
  BY <1>1
<1>5. UserInv'
  BY <1>1, <1>2, <1>3 DEF UserInv, Respond, Waiting, UserOf
<1>6. CASE outcome = "none"
  <2>1. Forwardable(1) /\ ~Refused(1) /\ Forwardable(1)' /\ ~Refused(1)'
    BY <1>1, <1>3, <1>4, <1>6, InterceptFacts DEF Forwardable, Refused, Intercept,
       InterceptGetBlock, InterceptRawTransaction
  <2>2. forwarded' = <<1>> /\ pc' = "auth"
    BY <1>3, <1>6
  <2>3. ForwardedInv'
    BY <1>1, <1>4, <2>1, <2>2 DEF ForwardedInv
  <2>4. PostedInv' /\ RefusalFailsAll'
    BY <1>1, <1>2, <2>2 DEF PostedInv, RefusalFailsAll
  <2>5. RefusedInv'
    BY <1>1, <1>2, <2>1, <2>2 DEF RefusedInv
  <2> QED
    BY <1>1, <1>5, <2>3, <2>4, <2>5
<1>7. CASE outcome # "none"
  <2>1. /\ forwarded' = <<>> /\ pc' = "responded"
        /\ response'.status = StatusOf(outcome, http.calls[1])
        /\ response'.body = <<>> \/ response'.body = <<ByProxy(1)>>
    BY <1>2, <1>3, <1>7 DEF Respond
  <2>2. ForwardedInv' /\ PostedInv' /\ RefusedInv'
    BY <1>1, <1>2, <2>1 DEF ForwardedInv, PostedInv, RefusedInv
  <2>3. Refused(1) => response'.status = 403
    <3>1. Refused(1) => outcome = "refused"
      BY <1>3, <1>4, InterceptFacts
    <3> QED
      BY <2>1, <3>1 DEF StatusOf
  <2>4. \A k \in DOMAIN response'.body : response'.body[k].by = "proxy"
    BY <2>1 DEF ByProxy
  <2>5. RefusalFailsAll'
    <3>1. (\E i \in Places' : http'.calls[i].method \notin AllowedOf[user'])
            => response'.status = 403
      BY <1>1, <2>3 DEF Refused
    <3> QED
      BY <2>4, <3>1 DEF RefusalFailsAll
  <2> QED
    BY <1>1, <1>5, <2>2, <2>5
<1> QED
  BY <1>6, <1>7

LEMMA EndCallIInv ==
  ASSUME IInv, NEW i \in Places, EndCall(i)
  PROVE  IInv'
<1> USE DEF IInv
<1>1. /\ pc = "batch" /\ i \in running /\ running' = running \ {i}
      /\ UNCHANGED <<http, pc, user, posted, response>> /\ Places' = Places
  BY DEF EndCall, Places
<1>2. PICK outcome \in Intercept(user, http.calls[i]) \ {"panic"} :
        /\ forwarded' = IF outcome = "none" THEN Append(forwarded, i) ELSE forwarded
        /\ intercepted' = IF Reported(i, outcome)
                          THEN Append(intercepted, [of |-> i, outcome |-> outcome])
                          ELSE intercepted
  BY DEF EndCall
<1>3. outcome \in {"none", "result", "error", "refused", "broken"}
  BY <1>2, InterceptFacts
<1>4. UserInv' /\ PostedInv' /\ RefusalFailsAll'
  BY <1>1 DEF UserInv, PostedInv, RefusalFailsAll, Waiting, UserOf
<1>5. \A j : (Forwardable(j)' <=> Forwardable(j)) /\ (Refused(j)' <=> Refused(j))
  BY <1>1 DEF Forwardable, Refused, Intercept,
     InterceptGetBlock, InterceptRawTransaction
<1>6. ForwardedInv'
  <2>1. CASE outcome = "none"
    <3>1. forwarded' = Append(forwarded, i) /\ forwarded \in Seq(Places)
      BY <1>2, <2>1 DEF ForwardedInv
    <3>2. /\ forwarded' \in Seq(Places) /\ DOMAIN forwarded' = 1 .. Len(forwarded) + 1
          /\ \A k \in 1 .. Len(forwarded) : forwarded'[k] = forwarded[k]
          /\ forwarded'[Len(forwarded) + 1] = i
          /\ DOMAIN forwarded = 1 .. Len(forwarded) /\ Len(forwarded) \in Nat
      BY <3>1, AppendProperties
    <3>3. Forwardable(i)
      BY <1>2, <2>1, InterceptFacts
    <3>4. \A k \in DOMAIN forwarded : forwarded[k] \notin running
      BY DEF ForwardedInv
    <3>5. \A j \in DOMAIN forwarded' :
            forwarded'[j] \notin running' /\ Forwardable(forwarded[j])'
      <4> SUFFICES ASSUME NEW j \in DOMAIN forwarded'
                   PROVE  forwarded'[j] \notin running' /\ Forwardable(forwarded[j])'
        OBVIOUS
      <4>1. forwarded'[j] = i \/ (j \in DOMAIN forwarded /\ forwarded'[j] = forwarded[j])
        BY <3>2
      <4>2. forwarded'[j] \notin running'
        BY <1>1, <3>4, <4>1
      <4>3. \A x : x = i \/ (j \in DOMAIN forwarded /\ x = forwarded[j]) => Forwardable(x)
        BY <3>3 DEF ForwardedInv
      <4>4. \A x : http'.calls[x] = http.calls[x] /\ Intercept(user', http'.calls[x]) = Intercept(user, http.calls[x])
        BY <1>1
      <4>5. Forwardable(forwarded[j])'
        BY <4>1, <4>3, <4>4 DEF Forwardable
      <4> QED
        BY <4>2, <4>5
    <3>6. \A j, k \in DOMAIN forwarded' : forwarded'[j] = forwarded'[k] => j = k
      BY <1>1, <3>2, <3>4 DEF ForwardedInv
    <3>7. running' \subseteq Places'
      BY <1>1 DEF ForwardedInv
    <3> QED
      BY <1>1, <3>2, <3>5, <3>6, <3>7 DEF ForwardedInv
  <2>2. CASE outcome # "none"
    BY <1>1, <1>2, <1>5, <2>2 DEF ForwardedInv
  <2> QED
    BY <2>1, <2>2
<1>7. RefusedInv'
  <2> DEFINE M == [of : Places, outcome : {"result", "error", "refused", "broken"}]
  <2>1. CASE Reported(i, outcome)
    <3>1. [of |-> i, outcome |-> outcome] \in M
      BY <1>3, <2>1 DEF Reported
    <3>2. intercepted' = Append(intercepted, [of |-> i, outcome |-> outcome])
          /\ intercepted \in Seq(M)
      BY <1>2, <2>1 DEF RefusedInv
    <3> HIDE DEF M
    <3>3. /\ intercepted' \in Seq(M) /\ DOMAIN intercepted' = 1 .. Len(intercepted) + 1
          /\ \A k \in 1 .. Len(intercepted) : intercepted'[k] = intercepted[k]
          /\ intercepted'[Len(intercepted) + 1] = [of |-> i, outcome |-> outcome]
          /\ DOMAIN intercepted = 1 .. Len(intercepted) /\ Len(intercepted) \in Nat
      BY <3>1, <3>2, AppendProperties
    <3>4. (\E k \in DOMAIN intercepted : intercepted[k].outcome = "refused")
            => \E k \in DOMAIN intercepted' : intercepted'[k].outcome = "refused"
      <4>1. \A k \in DOMAIN intercepted : k \in DOMAIN intercepted' /\ intercepted'[k] = intercepted[k]
        BY <3>3
      <4> QED
        BY <4>1, Zenon
    <3>5. Refused(i) => \E k \in DOMAIN intercepted' : intercepted'[k].outcome = "refused"
      <4>1. Refused(i) => outcome = "refused"
        BY <1>2, InterceptFacts
      <4>2. Len(intercepted) + 1 \in DOMAIN intercepted'
        BY <3>3
      <4>3. intercepted'[Len(intercepted) + 1].outcome = outcome
        BY <3>3
      <4> QED
        BY <4>1, <4>2, <4>3, Zenon
    <3>6. \A j \in Places : j \notin running' /\ Refused(j) =>
            \E k \in DOMAIN intercepted' : intercepted'[k].outcome = "refused"
      BY <1>1, <3>4, <3>5 DEF RefusedInv
    <3> QED
      BY <1>1, <1>5, <3>3, <3>6 DEF RefusedInv, M
  <2>2. CASE ~Reported(i, outcome)
    <3>1. ~Refused(i)
      BY <1>2, <2>2, InterceptFacts DEF Reported
    <3> QED
      BY <1>1, <1>2, <1>5, <2>2, <3>1 DEF RefusedInv
  <2> QED
    BY <2>1, <2>2
<1> QED
  BY <1>1, <1>4, <1>6, <1>7

LEMMA NextIInv == IInv /\ [Next]_vars => IInv'
<1> SUFFICES ASSUME IInv, [Next]_vars PROVE IInv'
  OBVIOUS
<1>1. CASE TurnAway \/ ComparePanics \/ Authenticate \/ Parse
  BY <1>1, EarlyIInv
<1>2. CASE EndSingle
  BY <1>2, EndSingleIInv
<1>3. ASSUME NEW i \in Places, EndCall(i) PROVE IInv'
  BY <1>3, EndCallIInv
<1>4. ASSUME NEW i \in Places, Panic(i) PROVE IInv'
  <2>1. pc' = "closed" /\ running' \subseteq running /\ RefusalFailsAll'
        /\ UNCHANGED <<http, user, intercepted, forwarded, posted, response>>
    BY <1>4 DEF Panic, RefusalFailsAll
  <2>2. ForwardedInv' /\ UserInv' /\ PostedInv' /\ RefusedInv'
    BY <2>1 DEF IInv, ForwardedInv, UserInv, PostedInv, RefusedInv, Places, Forwardable,
                Intercept, InterceptGetBlock, InterceptRawTransaction,
                Post, Path, UserOf, Waiting
  <2> QED
    BY <2>1, <2>2 DEF IInv
<1>5. CASE JoinFailed
  <2>1. /\ pc' = "responded" /\ pc = "batch" /\ response'.body = <<>>
        /\ response'.status \in {403, 500} /\ posted' \in {NotPosted, Post}
        /\ UNCHANGED <<http, user, running, intercepted, forwarded>>
    BY <1>5 DEF JoinFailed, Respond, ErrorStatus
  <2>2. RefusalFailsAll'
    BY <2>1 DEF RefusalFailsAll
  <2> QED
    BY <2>1, <2>2, LateIInv DEF Waiting
<1>6. CASE Join
  <2>1. /\ pc' = "auth" /\ pc = "batch" /\ running = {} /\ ErrorsAt = {}
        /\ UNCHANGED <<http, user, running, intercepted, forwarded, posted, response>>
    BY <1>6 DEF Join
  <2>2. http.parses /\ posted = NotPosted /\ \A i \in Places : ~Refused(i)
    BY <2>1 DEF IInv, RefusedInv, PostedInv, ErrorsAt
  <2>3. RefusalFailsAll'
    BY <2>1 DEF RefusalFailsAll
  <2> QED
    BY <2>1, <2>2, <2>3, LateIInv DEF Waiting
<1>7. CASE \/ LoadAuth \/ ReplyBatch \/ TakeLeft \/ TakeRight \/ RespondMerged
           \/ ReplySingle \/ ReplyFails
  <2>1. /\ pc \in {"auth", "reply", "merging"}
        /\ pc' \in {"reply", "merging", "responded", "closed"}
        /\ posted' \in {posted, Post}
        /\ UNCHANGED <<http, user, running, intercepted, forwarded>>
    BY <1>7 DEF LoadAuth, ReplyBatch, TakeLeft, TakeRight, RespondMerged, ReplySingle,
                ReplyFails, Respond
  <2>2. http.parses /\ \A i \in Places : ~Refused(i)
    BY <2>1 DEF IInv, RefusedInv
  <2>3. RefusalFailsAll'
    BY <2>1, <2>2 DEF RefusalFailsAll, Refused, Places
  <2> QED
    BY <2>1, <2>2, <2>3, LateIInv DEF Waiting
<1>8. CASE Disconnect
  <2>1. /\ pc \in Waiting /\ pc' = "closed"
        /\ UNCHANGED <<http, user, running, intercepted, forwarded, posted, response>>
    BY <1>8 DEF Disconnect, Waiting
  <2>2. RefusalFailsAll'
    BY <2>1 DEF RefusalFailsAll
  <2> QED
    BY <2>1, <2>2, LateIInv
<1>9. CASE Ended \/ UNCHANGED vars
  <2>1. /\ http' = http /\ pc' = pc /\ user' = user /\ running' = running
        /\ intercepted' = intercepted /\ forwarded' = forwarded /\ posted' = posted
        /\ response' = response
    BY <1>9 DEF Ended, vars
  <2>2. /\ Places' = Places /\ Post' = Post
        /\ \A i : (Forwardable(i)' <=> Forwardable(i)) /\ (Refused(i)' <=> Refused(i))
    BY <2>1 DEF Places, Post, Path, Forwardable, Refused, Intercept,
       InterceptGetBlock, InterceptRawTransaction
  <2>3. UserInv' /\ PostedInv' /\ RefusalFailsAll'
    BY <2>1, <2>2 DEF IInv, UserInv, PostedInv, RefusalFailsAll, UserOf, Waiting
  <2>4. ForwardedInv' /\ RefusedInv'
    BY <2>1, <2>2 DEF IInv, ForwardedInv, RefusedInv
  <2> QED
    BY <2>1, <2>3, <2>4 DEF IInv
<1> QED
  BY <1>1, <1>2, <1>3, <1>4, <1>5, <1>6, <1>7, <1>8, <1>9 DEF Next

LEMMA InvariantIInv == Spec => []IInv
BY InitIInv, NextIInv, PTL DEF Spec

-----------------------------------------------------------------------------
(* Putting things in order: the filter and the sort of `send`. *)

\* A strict order in which any two elements of S compare.
Orders(before, S) ==
  /\ \A a \in S : <<a, a>> \notin before
  /\ \A a, b \in S : a # b => <<a, b>> \in before \/ <<b, a>> \in before
  /\ \A a, b, c \in S : <<a, b>> \in before /\ <<b, c>> \in before => <<a, c>> \in before

\* A set of naturals has a least element: the induction of the proofs below.
LEMMA LeastNat ==
  ASSUME NEW T, T \subseteq Nat, T # {}
  PROVE  \E n \in T : \A m \in T : n <= m
<1>1. PICK n \in T : \A m \in T : ~(<<m, n>> \in OpToRel(<, Nat))
  BY NatLessThanWellFounded, WFMin, Zenon
<1>2. \A m \in T : ~(m < n)
  BY <1>1 DEF OpToRel
<1> QED
  BY <1>2

\* The elements of a finite set can be put in order: one more is inserted before the first
\* that it precedes.
LEMMA OrderExists ==
  ASSUME NEW S, IsFiniteSet(S), NEW before, Orders(before, S)
  PROVE  \E f \in [1 .. Cardinality(S) -> S] :
           \A j, k \in 1 .. Cardinality(S) : j < k => <<f[j], f[k]>> \in before
<1> DEFINE Arranges(f, n) == \A j, k \in 1 .. n : j < k => <<f[j], f[k]>> \in before
           Bad == {n \in Nat : \E X \in SUBSET S : /\ Cardinality(X) = n
                                                   /\ ~\E f \in [1 .. n -> X] : Arranges(f, n)}
<1>1. Bad = {}
  <2> SUFFICES ASSUME Bad # {} PROVE FALSE
    OBVIOUS
  <2>1. PICK n \in Bad : \A m \in Bad : n <= m
    <3> HIDE DEF Bad
    <3>1. Bad \subseteq Nat
      BY DEF Bad
    <3> QED
      BY <3>1, LeastNat
  <2>2. n \in Nat
    BY DEF Bad
  <2>3. PICK X \in SUBSET S : Cardinality(X) = n /\ ~\E f \in [1 .. n -> X] : Arranges(f, n)
    BY DEF Bad
  <2>4. IsFiniteSet(X)
    BY FS_Subset
  <2>5. n # 0
    <3> SUFFICES ASSUME n = 0 PROVE FALSE
      OBVIOUS
    <3>1. 1 .. n = {}
      OBVIOUS
    <3>2. [k \in 1 .. n |-> 0] \in [1 .. n -> X] /\ Arranges([k \in 1 .. n |-> 0], n)
      BY <3>1
    <3> QED
      BY <2>3, <3>2
  <2>6. PICK x \in X : TRUE
    BY <2>3, <2>4, <2>5, FS_EmptySet
  <2> DEFINE Y == X \ {x}
  <2>7. Cardinality(Y) = n - 1 /\ Y \in SUBSET S /\ n - 1 \in Nat
    <3>1. Cardinality(Y) = IF x \in X THEN Cardinality(X) - 1 ELSE Cardinality(X)
      BY <2>4, FS_RemoveElement, Zenon
    <3> HIDE DEF Bad
    <3> QED
      BY <2>2, <2>3, <2>5, <3>1
  <2>8. PICK f \in [1 .. n - 1 -> Y] : Arranges(f, n - 1)
    <3>1. n - 1 \notin Bad
      <4> HIDE DEF Bad
      <4> QED BY <2>1, <2>2, <2>7
    <3> QED
      BY <2>7, <3>1
  <2> DEFINE Later == {k \in 1 .. n : k = n \/ <<x, f[k]>> \in before}
  <2>9. PICK r \in Later : \A m \in Later : r <= m
    <3>1. n \in Later /\ Later \subseteq Nat
      BY <2>2, <2>5
    <3> HIDE DEF Later
    <3> QED
      BY <3>1, LeastNat
  <2> DEFINE g == [k \in 1 .. n |-> IF k < r THEN f[k] ELSE IF k = r THEN x ELSE f[k - 1]]
  <2>10. r \in 1 .. n /\ (r # n => <<x, f[r]>> \in before)
    OBVIOUS
  <2>11. \A k \in 1 .. n - 1 : f[k] \in Y /\ f[k] \in S /\ f[k] # x
    OBVIOUS
  <2>12. \A k \in 1 .. n - 1 : k < r => <<f[k], x>> \in before
    <3> SUFFICES ASSUME NEW k \in 1 .. n - 1, k < r PROVE <<f[k], x>> \in before
      OBVIOUS
    <3>1. k \notin Later
      BY <2>2, <2>9, <2>10
    <3>2. <<x, f[k]>> \notin before
      BY <2>2, <3>1
    <3> QED
      BY <2>11, <3>2 DEF Orders
  <2>13. \A k \in 1 .. n - 1 : r <= k => <<x, f[k]>> \in before
    <3> SUFFICES ASSUME NEW k \in 1 .. n - 1, r <= k PROVE <<x, f[k]>> \in before
      OBVIOUS
    <3>1. r \in 1 .. n - 1 /\ <<x, f[r]>> \in before
      BY <2>2, <2>10
    <3>2. r = k \/ <<f[r], f[k]>> \in before
      BY <2>2, <2>8, <3>1
    <3> QED
      BY <2>11, <3>1, <3>2 DEF Orders
  <2>14. g \in [1 .. n -> X]
    BY <2>2, <2>10, <2>11
  <2>15. Arranges(g, n)
    <3> SUFFICES ASSUME NEW j \in 1 .. n, NEW k \in 1 .. n, j < k
                 PROVE  <<g[j], g[k]>> \in before
      OBVIOUS
    <3>1. CASE k < r
      BY <2>2, <2>8, <2>10, <3>1
    <3>2. CASE k = r
      BY <2>2, <2>10, <2>12, <3>2
    <3>3. CASE r < k /\ j < r
      BY <2>2, <2>8, <2>10, <2>12, <2>13, <3>3, <2>11 DEF Orders
    <3>4. CASE r < k /\ j = r
      BY <2>2, <2>10, <2>13, <3>4
    <3>5. CASE r < k /\ r < j
      BY <2>2, <2>8, <2>10, <3>5
    <3> QED
      BY <2>2, <2>10, <3>1, <3>2, <3>3, <3>4, <3>5
  <2> QED
    BY <2>3, <2>14, <2>15
<1>2. Cardinality(S) \in Nat
  BY FS_CardinalityType
<1>3. \E f \in [1 .. Cardinality(S) -> S] : Arranges(f, Cardinality(S))
  BY <1>1, <1>2
<1> QED
  BY <1>3

\* InOrder lists a finite set without repetition.
LEMMA InOrderLists ==
  ASSUME NEW S, IsFiniteSet(S), NEW before, Orders(before, S)
  PROVE  LET f == InOrder(S, before)
             n == Cardinality(S)
         IN /\ n \in Nat
            /\ f \in [1 .. n -> S]
            /\ \A j, k \in 1 .. n : j < k => <<f[j], f[k]>> \in before
            /\ \A j, k \in 1 .. n : f[j] = f[k] => j = k
            /\ \A x \in S : \E k \in 1 .. n : f[k] = x
<1> DEFINE f == InOrder(S, before)
           n == Cardinality(S)
<1>1. n \in Nat
  BY FS_CardinalityType
<1>2. f \in [1 .. n -> S] /\ \A j, k \in 1 .. n : j < k => <<f[j], f[k]>> \in before
  <2>1. \E g \in [1 .. n -> S] : \A j, k \in DOMAIN g : j < k => <<g[j], g[k]>> \in before
    <3>1. PICK g \in [1 .. n -> S] : \A j, k \in 1 .. n : j < k => <<g[j], g[k]>> \in before
      BY OrderExists
    <3>2. DOMAIN g = 1 .. n
      OBVIOUS
    <3> QED
      BY <3>1, <3>2
  <2>2. f \in [1 .. n -> S] /\ \A j, k \in DOMAIN f : j < k => <<f[j], f[k]>> \in before
    BY <2>1 DEF InOrder
  <2> QED
    BY <2>2
<1> HIDE DEF f
<1>3. \A j, k \in 1 .. n : f[j] = f[k] => j = k
  <2> SUFFICES ASSUME NEW j \in 1 .. n, NEW k \in 1 .. n, j < k PROVE f[j] # f[k]
    BY <1>1
  <2>1. f[j] \in S /\ f[k] \in S
    BY <1>2
  <2> QED
    BY <1>2, <2>1 DEF Orders
<1>4. f \in Injection(1 .. n, S)
  BY <1>2, <1>3 DEF Injection, IsInjective
<1>5. f \in Surjection(1 .. n, S)
  <2>1. Cardinality(1 .. n) = n
    BY <1>1, FS_Interval
  <2> QED
    BY <1>4, <2>1, FS_Injection
<1>6. \A x \in S : \E k \in 1 .. n : f[k] = x
  BY <1>5 DEF Surjection
<1> QED
  BY <1>1, <1>2, <1>3, <1>6 DEF f

\* The filter keeps, once each, the places that are no notification's.
LEMMA AnswerableFacts ==
  ASSUME NEW places \in Seq(Places),
         \A j, k \in DOMAIN places : places[j] = places[k] => j = k
  PROVE  LET a == Answerable(places)
         IN /\ a \in Seq(Places)
            /\ \A j, k \in DOMAIN a : a[j] = a[k] => j = k
            /\ \A k \in DOMAIN a : ~IsNotification(a[k]) /\ \E j \in DOMAIN places : a[k] = places[j]
            /\ \A j \in DOMAIN places :
                 ~IsNotification(places[j]) => \E k \in DOMAIN a : a[k] = places[j]
<1> DEFINE kept == {k \in DOMAIN places : ~IsNotification(places[k])}
           before == {jk \in kept \X kept : jk[1] < jk[2]}
           at == InOrder(kept, before)
           n == Cardinality(kept)
           a == Answerable(places)
<1>1. Len(places) \in Nat /\ DOMAIN places = 1 .. Len(places)
  OBVIOUS
<1>2. IsFiniteSet(kept)
  <2>1. IsFiniteSet(DOMAIN places)
    BY <1>1, FS_Interval
  <2> QED
    BY <2>1, FS_Subset
<1>3. Orders(before, kept)
  BY <1>1 DEF Orders
<1>4. /\ n \in Nat /\ at \in [1 .. n -> kept]
      /\ \A j, k \in 1 .. n : at[j] = at[k] => j = k
      /\ \A x \in kept : \E k \in 1 .. n : at[k] = x
  <2> HIDE DEF kept, before
  <2> QED
    BY <1>2, <1>3, InOrderLists
<1>5. a = [k \in 1 .. n |-> places[at[k]]]
  BY <1>4 DEF Answerable
<1> HIDE DEF at, n, a
<1>6. \A k \in 1 .. n : at[k] \in DOMAIN places /\ ~IsNotification(places[at[k]])
                        /\ a[k] = places[at[k]] /\ places[at[k]] \in Places
  BY <1>1, <1>4, <1>5
<1>7. a \in Seq(Places)
  <2>1. a \in [1 .. n -> Places]
    BY <1>5, <1>6
  <2> QED
    BY <1>4, <2>1
<1>8. DOMAIN a = 1 .. n
  BY <1>5
<1>9. \A j \in DOMAIN places : ~IsNotification(places[j]) => \E k \in DOMAIN a : a[k] = places[j]
  <2> SUFFICES ASSUME NEW j \in DOMAIN places, ~IsNotification(places[j])
               PROVE  \E k \in DOMAIN a : a[k] = places[j]
    OBVIOUS
  <2>1. j \in kept
    OBVIOUS
  <2>2. PICK k \in 1 .. n : at[k] = j
    BY <1>4, <2>1
  <2> QED
    BY <1>6, <1>8, <2>2
<1>10. \A j, k \in DOMAIN a : a[j] = a[k] => j = k
  BY <1>4, <1>6, <1>8
<1>11. \A k \in DOMAIN a : ~IsNotification(a[k]) /\ \E j \in DOMAIN places : a[k] = places[j]
  BY <1>6, <1>8
<1> QED
  BY <1>7, <1>9, <1>10, <1>11 DEF a

\* Sorting a list of different places gives the same elements in ascending order.
LEMMA SortedFacts ==
  ASSUME NEW M, NEW s \in Seq(M), \A k \in DOMAIN s : s[k].place \in Nat,
         \A j, k \in DOMAIN s : s[j].place = s[k].place => j = k
  PROVE  LET t == Sorted(s)
         IN /\ t \in Seq(M) /\ Len(t) \in Nat /\ DOMAIN t = 1 .. Len(t)
            /\ \A j, k \in DOMAIN t : j < k => t[j].place < t[k].place
            /\ \A k \in DOMAIN t : \E j \in DOMAIN s : t[k] = s[j]
            /\ \A j \in DOMAIN s : \E k \in DOMAIN t : t[k] = s[j]
<1> DEFINE D == DOMAIN s
           before == {jk \in D \X D : \/ s[jk[1]].place < s[jk[2]].place
                                      \/ s[jk[1]].place = s[jk[2]].place /\ jk[1] < jk[2]}
           at == InOrder(D, before)
           n == Cardinality(D)
           t == Sorted(s)
<1>1. Len(s) \in Nat /\ D = 1 .. Len(s)
  OBVIOUS
<1>2. IsFiniteSet(D)
  BY <1>1, FS_Interval
<1>3. \A j, k \in D : <<j, k>> \in before <=> s[j].place < s[k].place
  <2> SUFFICES ASSUME NEW j \in D, NEW k \in D
               PROVE  <<j, k>> \in before <=> s[j].place < s[k].place
    OBVIOUS
  <2>1. s[j].place = s[k].place => ~(j < k)
    BY <1>1
  <2> QED
    BY <2>1
<1>4. Orders(before, D)
  <2>1. \A j \in D : s[j].place \in Nat
    OBVIOUS
  <2>2. \A j, k \in D : j # k => s[j].place # s[k].place
    OBVIOUS
  <2> HIDE DEF before, D
  <2> QED
    BY <1>3, <2>1, <2>2 DEF Orders
<1>5. /\ n \in Nat /\ at \in [1 .. n -> D]
      /\ \A j, k \in 1 .. n : j < k => <<at[j], at[k]>> \in before
      /\ \A x \in D : \E k \in 1 .. n : at[k] = x
  <2> HIDE DEF D, before
  <2> QED
    BY <1>2, <1>4, InOrderLists
<1>6. t = [k \in 1 .. n |-> s[at[k]]]
  BY <1>5 DEF Sorted
<1> HIDE DEF at, n, t, before
<1>7. \A k \in 1 .. n : at[k] \in D /\ t[k] = s[at[k]] /\ t[k] \in M
  BY <1>1, <1>5, <1>6
<1>8. t \in Seq(M) /\ Len(t) = n /\ DOMAIN t = 1 .. n
  <2>1. t \in [1 .. n -> M]
    BY <1>6, <1>7
  <2> QED
    BY <1>5, <2>1
<1>9. \A j, k \in DOMAIN t : j < k => t[j].place < t[k].place
  <2> SUFFICES ASSUME NEW j \in 1 .. n, NEW k \in 1 .. n, j < k
               PROVE  t[j].place < t[k].place
    BY <1>8
  <2>1. <<at[j], at[k]>> \in before /\ at[j] \in D /\ at[k] \in D
    BY <1>5, <1>7
  <2>2. s[at[j]].place < s[at[k]].place
    BY <1>3, <2>1
  <2> QED
    BY <1>7, <2>2
<1>10. \A j \in D : \E k \in DOMAIN t : t[k] = s[j]
  <2> SUFFICES ASSUME NEW j \in D PROVE \E k \in 1 .. n : t[k] = s[j]
    BY <1>8
  <2>1. PICK k \in 1 .. n : at[k] = j
    BY <1>5
  <2> QED
    BY <1>7, <2>1
<1> QED
  BY <1>5, <1>7, <1>8, <1>9, <1>10 DEF t

-----------------------------------------------------------------------------
(* The merge. *)

Pairs == [place : 1 .. MaxBatch + 1, reply : Replies]

\* A list to merge: replies with the places they are for, in ascending order.
Listing(list) ==
  /\ list \in Seq(Pairs)
  /\ \A j, k \in DOMAIN list : j < k => list[j].place < list[k].place
  /\ \A k \in DOMAIN list : list[k].reply.of = list[k].place

\* m holds the first l of one list and the first r of another, in ascending order, and
\* nothing that is still to come belongs before any of it.
MergedUpTo(one, l, other, r, m) ==
  /\ l <= Len(one) /\ r <= Len(other)
  /\ \A j, k \in DOMAIN m : j < k => m[j].of < m[k].of
  /\ \A k \in DOMAIN m : \A j \in DOMAIN one : l < j => m[k].of < one[j].place
  /\ \A k \in DOMAIN m : \A j \in DOMAIN other : r < j => m[k].of < other[j].place
  /\ \A k \in DOMAIN m : \/ \E j \in DOMAIN one : j <= l /\ m[k] = one[j].reply
                         \/ \E j \in DOMAIN other : j <= r /\ m[k] = other[j].reply
  /\ \A j \in DOMAIN one : j <= l => \E k \in DOMAIN m : m[k] = one[j].reply
  /\ \A j \in DOMAIN other : j <= r => \E k \in DOMAIN m : m[k] = other[j].reply

\* Taking the smaller of the two next replies keeps it so.
LEMMA TakeOne ==
  ASSUME NEW one, NEW other, Listing(one), Listing(other),
         NEW l \in Nat, NEW r \in Nat, NEW m \in Seq(Replies),
         MergedUpTo(one, l, other, r, m), l < Len(one),
         r < Len(other) => one[l + 1].place < other[r + 1].place
  PROVE  /\ Append(m, one[l + 1].reply) \in Seq(Replies)
         /\ MergedUpTo(one, l + 1, other, r, Append(m, one[l + 1].reply))
<1> DEFINE e == one[l + 1]
           n == Len(m)
           m2 == Append(m, e.reply)
<1>1. /\ Len(one) \in Nat /\ DOMAIN one = 1 .. Len(one) /\ l + 1 \in DOMAIN one
      /\ Len(other) \in Nat /\ DOMAIN other = 1 .. Len(other)
      /\ n \in Nat /\ DOMAIN m = 1 .. n
  BY DEF Listing
<1>2. /\ \A j \in DOMAIN one : one[j].place \in Nat
      /\ \A j \in DOMAIN other : other[j].place \in Nat
      /\ \A k \in DOMAIN m : m[k].of \in Nat
  <2>1. /\ \A j \in DOMAIN one : one[j] \in Pairs
        /\ \A j \in DOMAIN other : other[j] \in Pairs
        /\ \A k \in DOMAIN m : m[k] \in Replies
    BY <1>1 DEF Listing
  <2> QED
    BY <2>1, ProxyAssumption DEF Pairs, Replies
<1>3. e \in Pairs /\ e.reply \in Replies /\ e.reply.of = e.place
  <2>1. e \in Pairs /\ e.reply.of = e.place
    BY <1>1 DEF Listing
  <2> QED
    BY <2>1 DEF Pairs
<1>4. /\ m2 \in Seq(Replies) /\ DOMAIN m2 = 1 .. n + 1
      /\ \A k \in 1 .. n : m2[k] = m[k]
      /\ m2[n + 1] = e.reply
  BY <1>1, <1>3, AppendProperties
<1> HIDE DEF m2, n, e
<1>5. \A k \in DOMAIN m : m[k].of < e.place
  <2>1. l < l + 1
    OBVIOUS
  <2> QED
    BY <1>1, <2>1 DEF MergedUpTo, e
<1>6. \A j \in DOMAIN one : l + 1 < j => e.place < one[j].place
  BY <1>1 DEF Listing, e
<1>7. \A j \in DOMAIN other : r < j => e.place < other[j].place
  <2> SUFFICES ASSUME NEW j \in DOMAIN other, r < j PROVE e.place < other[j].place
    OBVIOUS
  <2>1. r < Len(other) /\ r + 1 \in DOMAIN other
    BY <1>1
  <2>2. e.place < other[r + 1].place
    BY <2>1 DEF e
  <2>3. r + 1 = j \/ other[r + 1].place < other[j].place
    <3>1. r + 1 = j \/ r + 1 < j
      BY <1>1
    <3> QED
      BY <2>1, <3>1 DEF Listing
  <2> QED
    BY <1>1, <1>2, <2>1, <2>2, <2>3 DEF e
<1>8. \A j, k \in DOMAIN m2 : j < k => m2[j].of < m2[k].of
  BY <1>1, <1>3, <1>4, <1>5 DEF MergedUpTo
<1>9. \A k \in DOMAIN m2 : \A j \in DOMAIN one : l + 1 < j => m2[k].of < one[j].place
  <2>1. \A j \in DOMAIN one : l + 1 < j => l < j
    BY <1>1
  <2>2. \A k \in DOMAIN m : m2[k] = m[k]
    BY <1>1, <1>4
  <2>3. \A k \in DOMAIN m2 : k \in DOMAIN m \/ m2[k].of = e.place
    BY <1>1, <1>3, <1>4
  <2> QED
    BY <1>6, <2>1, <2>2, <2>3 DEF MergedUpTo
<1>10. \A k \in DOMAIN m2 : \A j \in DOMAIN other : r < j => m2[k].of < other[j].place
  BY <1>1, <1>3, <1>4, <1>7 DEF MergedUpTo
<1>11. \A k \in DOMAIN m2 : \/ \E j \in DOMAIN one : j <= l + 1 /\ m2[k] = one[j].reply
                            \/ \E j \in DOMAIN other : j <= r /\ m2[k] = other[j].reply
  <2> SUFFICES ASSUME NEW k \in DOMAIN m2
               PROVE  \/ \E j \in DOMAIN one : j <= l + 1 /\ m2[k] = one[j].reply
                      \/ \E j \in DOMAIN other : j <= r /\ m2[k] = other[j].reply
    OBVIOUS
  <2>1. CASE k = n + 1
    BY <1>1, <1>4, <2>1 DEF e
  <2>2. CASE k \in DOMAIN m
    <3>1. m2[k] = m[k]
      BY <1>1, <1>4, <2>2
    <3>2. \A j \in DOMAIN one : j <= l => j <= l + 1
      BY <1>1
    <3> QED
      BY <2>2, <3>1, <3>2 DEF MergedUpTo
  <2> QED
    BY <1>1, <1>4, <2>1, <2>2
<1>12. \A k \in DOMAIN m : k \in DOMAIN m2 /\ m2[k] = m[k]
  BY <1>1, <1>4
<1>13. \A j \in DOMAIN one : j <= l + 1 => \E k \in DOMAIN m2 : m2[k] = one[j].reply
  <2> SUFFICES ASSUME NEW j \in DOMAIN one, j <= l + 1
               PROVE  \E k \in DOMAIN m2 : m2[k] = one[j].reply
    OBVIOUS
  <2>1. CASE j = l + 1
    BY <1>1, <1>4, <2>1 DEF e
  <2>2. CASE j <= l
    BY <1>12, <2>2 DEF MergedUpTo
  <2> QED
    BY <1>1, <2>1, <2>2
<1>14. \A j \in DOMAIN other : j <= r => \E k \in DOMAIN m2 : m2[k] = other[j].reply
  BY <1>12 DEF MergedUpTo
<1>15. l + 1 <= Len(one) /\ r <= Len(other)
  BY <1>1 DEF MergedUpTo
<1>16. MergedUpTo(one, l + 1, other, r, m2)
  BY <1>8, <1>9, <1>10, <1>11, <1>13, <1>14, <1>15 DEF MergedUpTo
<1> QED
  BY <1>4, <1>16 DEF m2, e

LEMMA MergedSymmetric ==
  ASSUME NEW one, NEW other, NEW l, NEW r, NEW m, MergedUpTo(one, l, other, r, m)
  PROVE  MergedUpTo(other, r, one, l, m)
BY DEF MergedUpTo

-----------------------------------------------------------------------------
(* The answers to a batch. *)

\* A call that is no notification is forwarded or has a reply in the channel.
Accounted(i) ==
  \/ IsNotification(i)
  \/ \E j \in DOMAIN forwarded : forwarded[j] = i
  \/ \E k \in DOMAIN intercepted : intercepted[k].of = i

\* What is in the channel of replies, and that nothing gets lost.
ChannelInv ==
  /\ pc \in {"batch", "merging"} => http.batch
  /\ pc \in {"arrived", "body", "single"} => intercepted = <<>>
  /\ \A k \in DOMAIN intercepted :
       /\ intercepted[k].of \notin running
       /\ \A j \in DOMAIN forwarded : forwarded[j] # intercepted[k].of
       /\ IsNotification(intercepted[k].of) => intercepted[k].outcome \in {"refused", "broken"}
  /\ \A j, k \in DOMAIN intercepted : intercepted[j].of = intercepted[k].of => j = k
  /\ pc = "batch" => \A i \in Places \ running : Accounted(i)
  /\ http.batch /\ pc \in {"auth", "reply", "merging"} =>
       ErrorsAt = {} /\ \A i \in Places : Accounted(i)
  /\ pc \in {"reply", "merging"} => posted = Post

MergeInv ==
  /\ taken \in [bitcoind : Nat, proxy : Nat]
  /\ merged \in Seq(Replies)
  /\ pc \notin {"merging", "responded", "closed"} =>
       taken = [bitcoind |-> 0, proxy |-> 0] /\ merged = <<>>
  /\ pc = "merging" => MergedUpTo(Left, taken.bitcoind, Right, taken.proxy, merged)

ResponseInv ==
  /\ response.status \in {0, 200, 204, 401, 403, 404, 405, 500}
  /\ response.body \in Seq(Replies)
  /\ BatchRepliesMatch

\* bitcoind's replies are paired with the places of the calls they answer, and nothing is
\* left over on either side.
LEMMA PairedFacts ==
  ASSUME http \in HttpRequests, ForwardedInv, posted.places = forwarded
  PROVE  /\ Paired \in Seq(Pairs)
         /\ \A k \in DOMAIN Paired :
              /\ Paired[k].place \in Places /\ ~IsNotification(Paired[k].place)
              /\ Paired[k].reply = ByBitcoind(Paired[k].place)
              /\ \E j \in DOMAIN forwarded : forwarded[j] = Paired[k].place
         /\ \A j, k \in DOMAIN Paired : Paired[j].place = Paired[k].place => j = k
         /\ \A j \in DOMAIN forwarded :
              ~IsNotification(forwarded[j]) => \E k \in DOMAIN Paired : Paired[k].place = forwarded[j]
<1> DEFINE a == Answerable(forwarded)
           n == Len(a)
           R == [k \in 1 .. n |-> ByBitcoind(a[k])]
<1>1. /\ a \in Seq(Places) /\ n \in Nat /\ DOMAIN a = 1 .. n
      /\ \A j, k \in DOMAIN a : a[j] = a[k] => j = k
      /\ \A k \in DOMAIN a : ~IsNotification(a[k]) /\ \E j \in DOMAIN forwarded : a[k] = forwarded[j]
      /\ \A j \in DOMAIN forwarded :
           ~IsNotification(forwarded[j]) => \E k \in DOMAIN a : a[k] = forwarded[j]
  <2>1. forwarded \in Seq(Places) /\ \A j, k \in DOMAIN forwarded : forwarded[j] = forwarded[k] => j = k
    BY DEF ForwardedInv
  <2>2. /\ a \in Seq(Places)
        /\ \A j, k \in DOMAIN a : a[j] = a[k] => j = k
        /\ \A k \in DOMAIN a : ~IsNotification(a[k]) /\ \E j \in DOMAIN forwarded : a[k] = forwarded[j]
        /\ \A j \in DOMAIN forwarded :
             ~IsNotification(forwarded[j]) => \E k \in DOMAIN a : a[k] = forwarded[j]
    BY <2>1, AnswerableFacts
  <2> HIDE DEF a
  <2>3. n \in Nat /\ DOMAIN a = 1 .. n
    BY <2>2
  <2> QED
    BY <2>2, <2>3
<1>2. Answered = a /\ BitcoindReplies = R
  BY <1>1 DEF Answered, BitcoindReplies
<1> HIDE DEF a, n
<1>3. \A k \in 1 .. n : a[k] \in Places /\ a[k] \in 1 .. MaxBatch + 1 /\ ByBitcoind(a[k]) \in Replies
  <2>1. \A k \in 1 .. n : a[k] \in Places
    BY <1>1
  <2> QED
    BY <2>1, HttpFacts DEF ByBitcoind, Replies
<1>4. Len(R) = n
  <2>1. R \in [1 .. n -> Replies]
    BY <1>3
  <2> HIDE DEF R
  <2> QED
    BY <1>1, <2>1
<1>5. Paired = [k \in 1 .. n |-> [place |-> a[k], reply |-> ByBitcoind(a[k])]]
  <2>1. Paired = [k \in 1 .. n |-> [place |-> a[k], reply |-> R[k]]]
    <3> HIDE DEF R
    <3> QED
      BY <1>1, <1>2, <1>4 DEF Paired, n
  <2> QED
    BY <2>1
<1>6. \A k \in 1 .. n : Paired[k] = [place |-> a[k], reply |-> ByBitcoind(a[k])] /\ Paired[k] \in Pairs
  BY <1>3, <1>5 DEF Pairs
<1>7. Paired \in Seq(Pairs) /\ DOMAIN Paired = 1 .. n
  <2>1. Paired \in [1 .. n -> Pairs]
    BY <1>5, <1>6
  <2> QED
    BY <1>1, <2>1
<1>8. \A k \in 1 .. n : Paired[k].place = a[k] /\ Paired[k].reply = ByBitcoind(a[k])
  <2> TAKE k \in 1 .. n
  <2>1. Paired[k] = [place |-> a[k], reply |-> ByBitcoind(a[k])]
    BY <1>6
  <2> HIDE DEF Paired, a
  <2> QED
    BY <2>1
<1>9. \A k \in DOMAIN Paired :
        /\ Paired[k].place \in Places /\ ~IsNotification(Paired[k].place)
        /\ Paired[k].reply = ByBitcoind(Paired[k].place)
        /\ \E j \in DOMAIN forwarded : forwarded[j] = Paired[k].place
  BY <1>1, <1>3, <1>7, <1>8
<1>10. \A j, k \in DOMAIN Paired : Paired[j].place = Paired[k].place => j = k
  BY <1>1, <1>7, <1>8
<1>11. \A j \in DOMAIN forwarded :
         ~IsNotification(forwarded[j]) => \E k \in DOMAIN Paired : Paired[k].place = forwarded[j]
  <2> SUFFICES ASSUME NEW j \in DOMAIN forwarded, ~IsNotification(forwarded[j])
               PROVE  \E k \in DOMAIN Paired : Paired[k].place = forwarded[j]
    OBVIOUS
  <2>1. PICK k \in DOMAIN a : a[k] = forwarded[j]
    BY <1>1
  <2>2. k \in DOMAIN Paired /\ Paired[k].place = a[k]
    BY <1>1, <1>7, <1>8
  <2> QED
    BY <2>1, <2>2
<1> QED
  BY <1>7, <1>9, <1>10, <1>11

\* What the two lists hold that are merged.
LEMMA ListFacts ==
  ASSUME IInv, ChannelInv, posted = Post
  PROVE  /\ Listing(Left) /\ Listing(Right)
         /\ \A k \in DOMAIN Left :
              /\ Left[k].place \in Places /\ ~IsNotification(Left[k].place)
              /\ Left[k].reply = ByBitcoind(Left[k].place)
              /\ \E j \in DOMAIN forwarded : forwarded[j] = Left[k].place
         /\ \A j \in DOMAIN forwarded :
              ~IsNotification(forwarded[j]) => \E k \in DOMAIN Left : Left[k].place = forwarded[j]
         /\ \A k \in DOMAIN Right :
              /\ Right[k].reply = ByProxy(Right[k].place)
              /\ \E j \in DOMAIN intercepted : intercepted[j].of = Right[k].place
         /\ \A j \in DOMAIN intercepted : \E k \in DOMAIN Right : Right[k].place = intercepted[j].of
<1> DEFINE O == OwnReplies
<1>1. http \in HttpRequests /\ ForwardedInv /\ posted.places = forwarded
  BY DEF IInv, Post
<1>2. \A p \in Pairs : p.place \in Nat
  BY ProxyAssumption DEF Pairs
<1>3. /\ \A k \in DOMAIN Paired : Paired[k] \in Pairs /\ Paired[k].place \in Nat
      /\ \A j, k \in DOMAIN Paired : Paired[j].place = Paired[k].place => j = k
      /\ Paired \in Seq(Pairs)
  <2>1. Paired \in Seq(Pairs) /\ \A j, k \in DOMAIN Paired : Paired[j].place = Paired[k].place => j = k
    BY <1>1, PairedFacts
  <2>2. \A k \in DOMAIN Paired : Paired[k] \in Pairs
    BY <2>1
  <2> QED
    BY <1>2, <2>1, <2>2
<1>4. /\ Left \in Seq(Pairs)
      /\ \A j, k \in DOMAIN Left : j < k => Left[j].place < Left[k].place
      /\ \A k \in DOMAIN Left : \E j \in DOMAIN Paired : Left[k] = Paired[j]
      /\ \A j \in DOMAIN Paired : \E k \in DOMAIN Left : Left[k] = Paired[j]
  BY <1>3, SortedFacts DEF Left
<1>5. \A k \in DOMAIN Left :
        /\ Left[k].place \in Places /\ ~IsNotification(Left[k].place)
        /\ Left[k].reply = ByBitcoind(Left[k].place)
        /\ \E j \in DOMAIN forwarded : forwarded[j] = Left[k].place
  BY <1>1, <1>4, PairedFacts
<1>6. Listing(Left)
  <2>1. \A i : ByBitcoind(i).of = i
    BY DEF ByBitcoind
  <2>2. \A k \in DOMAIN Left : Left[k].reply.of = Left[k].place
    BY <1>5, <2>1, Zenon
  <2> QED
    BY <1>4, <2>2 DEF Listing
<1>7. \A j \in DOMAIN forwarded :
        ~IsNotification(forwarded[j]) => \E k \in DOMAIN Left : Left[k].place = forwarded[j]
  <2> SUFFICES ASSUME NEW j \in DOMAIN forwarded, ~IsNotification(forwarded[j])
               PROVE  \E k \in DOMAIN Left : Left[k].place = forwarded[j]
    OBVIOUS
  <2>1. PICK i \in DOMAIN Paired : Paired[i].place = forwarded[j]
    BY <1>1, PairedFacts
  <2> QED
    BY <1>4, <2>1
<1>8. /\ intercepted \in Seq([of : Places, outcome : {"result", "error", "refused", "broken"}])
      /\ Len(intercepted) \in Nat /\ DOMAIN intercepted = 1 .. Len(intercepted)
      /\ \A k \in DOMAIN intercepted : intercepted[k].of \in Places
  <2>1. intercepted \in Seq([of : Places, outcome : {"result", "error", "refused", "broken"}])
    BY DEF IInv, RefusedInv
  <2> DEFINE M == [of : Places, outcome : {"result", "error", "refused", "broken"}]
  <2>2. \A m \in M : m.of \in Places
    OBVIOUS
  <2>3. intercepted \in Seq(M)
    BY <2>1
  <2> HIDE DEF M
  <2>4. /\ Len(intercepted) \in Nat /\ DOMAIN intercepted = 1 .. Len(intercepted)
        /\ \A k \in DOMAIN intercepted : intercepted[k] \in M
    BY <2>3
  <2> QED
    BY <2>1, <2>2, <2>4
<1>9. \A k \in DOMAIN intercepted :
        LET i == intercepted[k].of
        IN O[k] = [place |-> i, reply |-> ByProxy(i)] /\ O[k] \in Pairs
  BY <1>1, <1>8, HttpFacts DEF OwnReplies, ByProxy, Pairs, Replies
<1>10. O \in Seq(Pairs) /\ DOMAIN O = DOMAIN intercepted
  <2>1. O \in [1 .. Len(intercepted) -> Pairs]
    BY <1>8, <1>9 DEF OwnReplies
  <2> QED
    BY <1>8, <2>1
<1>11. \A k \in DOMAIN O : /\ O[k].place = intercepted[k].of /\ O[k].place \in Nat
                           /\ O[k].reply = ByProxy(O[k].place)
  <2>1. \A k \in DOMAIN O : O[k].place = intercepted[k].of /\ O[k].reply = ByProxy(O[k].place)
    BY <1>9, <1>10
  <2>2. \A k \in DOMAIN O : O[k].place \in Nat
    BY <1>2, <1>9, <1>10
  <2> QED
    BY <2>1, <2>2
<1>12. \A j, k \in DOMAIN O : O[j].place = O[k].place => j = k
  BY <1>10, <1>11 DEF ChannelInv
<1> HIDE DEF O
<1>13. /\ Right \in Seq(Pairs)
       /\ \A j, k \in DOMAIN Right : j < k => Right[j].place < Right[k].place
       /\ \A k \in DOMAIN Right : \E j \in DOMAIN O : Right[k] = O[j]
       /\ \A j \in DOMAIN O : \E k \in DOMAIN Right : Right[k] = O[j]
  BY <1>10, <1>11, <1>12, SortedFacts DEF Right, O
<1>14. \A k \in DOMAIN Right :
         /\ Right[k].reply = ByProxy(Right[k].place)
         /\ \E j \in DOMAIN intercepted : intercepted[j].of = Right[k].place
  BY <1>10, <1>11, <1>13
<1>15. Listing(Right)
  <2>1. \A i : ByProxy(i).of = i
    BY DEF ByProxy
  <2>2. \A k \in DOMAIN Right : Right[k].reply.of = Right[k].place
    BY <1>14, <2>1, Zenon
  <2> QED
    BY <1>13, <2>2 DEF Listing
<1>16. \A j \in DOMAIN intercepted : \E k \in DOMAIN Right : Right[k].place = intercepted[j].of
  BY <1>10, <1>11, <1>13
<1> QED
  BY <1>5, <1>6, <1>7, <1>14, <1>15, <1>16

JInv == ChannelInv /\ MergeInv /\ ResponseInv

LEMMA InitJInv == Init => JInv
<1> SUFFICES ASSUME Init PROVE JInv
  OBVIOUS
<1> USE DEF Init
<1>1. intercepted = <<>> /\ merged = <<>> /\ response.body = <<>> /\ response.status = 0
  BY DEF NoResponse
<1>2. DOMAIN intercepted = {} /\ merged \in Seq(Replies) /\ response.body \in Seq(Replies)
  BY <1>1
<1> QED
  BY <1>1, <1>2 DEF JInv, ChannelInv, MergeInv, ResponseInv, BatchRepliesMatch

\* A step that leaves the channels alone.
LEMMA ChannelKept ==
  ASSUME ChannelInv, UNCHANGED <<http, user, intercepted, forwarded>>,
         \A k \in DOMAIN intercepted : intercepted[k].of \notin running',
         pc' \in {"batch", "merging"} => http.batch,
         pc' \in {"arrived", "body", "single"} => intercepted = <<>>,
         pc' = "batch" => \A i \in Places \ running' : Accounted(i),
         http.batch /\ pc' \in {"auth", "reply", "merging"} =>
           ErrorsAt = {} /\ \A i \in Places : Accounted(i),
         pc' \in {"reply", "merging"} => posted' = Post
  PROVE  ChannelInv'
<1>1. /\ Places' = Places /\ ErrorsAt' = ErrorsAt /\ Post' = Post
      /\ \A i : (Accounted(i)' <=> Accounted(i)) /\ (IsNotification(i)' <=> IsNotification(i))
  BY DEF Places, ErrorsAt, Accounted, IsNotification, Post, Path
<1>2. \A k \in DOMAIN intercepted :
        /\ \A j \in DOMAIN forwarded : forwarded[j] # intercepted[k].of
        /\ IsNotification(intercepted[k].of)' => intercepted[k].outcome \in {"refused", "broken"}
  BY DEF ChannelInv, IsNotification
<1>3. \A j, k \in DOMAIN intercepted : intercepted[j].of = intercepted[k].of => j = k
  BY DEF ChannelInv
<1>4. \A i \in Places : Accounted(i) => Accounted(i)'
  BY <1>1
<1> QED
  BY <1>1, <1>2, <1>3, <1>4 DEF ChannelInv, IsNotification

\* A step that ends the request leaves the channels as they are.
LEMMA ChannelEnds ==
  ASSUME ChannelInv, UNCHANGED <<http, user, intercepted, forwarded>>, running' \subseteq running,
         pc' \in {"responded", "closed"}
  PROVE  ChannelInv'
<1>1. \A k \in DOMAIN intercepted : intercepted[k].of \notin running'
  BY DEF ChannelInv
<1> QED
  BY <1>1, ChannelKept

LEMMA MergeKept ==
  ASSUME MergeInv, UNCHANGED <<taken, merged>>, pc' # "merging",
         pc \in {"merging", "responded", "closed"} => pc' \in {"responded", "closed"}
  PROVE  MergeInv'
BY DEF MergeInv

\* An error, an answer to a single call, or no answer.
LEMMA ResponseKept ==
  ASSUME ResponseInv,
         \/ pc' # "responded" /\ UNCHANGED response
         \/ /\ response'.status \in {200, 204, 401, 403, 404, 405, 500}
            /\ response'.body \in Seq(Replies)
            /\ response'.status >= 400 \/ ~http'.batch
  PROVE  ResponseInv'
<1>1. response'.status \in {0, 200, 204, 401, 403, 404, 405, 500} /\ response'.body \in Seq(Replies)
  BY DEF ResponseInv
<1>2. pc' # "responded" \/ response'.status >= 400 \/ ~http'.batch
  OBVIOUS
<1>3. response'.status >= 400 => ~(response'.status < 400)
  BY <1>1
<1> QED
  BY <1>1, <1>2, <1>3 DEF ResponseInv, BatchRepliesMatch

\* No answer but an empty one, which is a list of replies.
LEMMA NoReplies == <<>> \in Seq(Replies)
OBVIOUS

LEMMA EarlyJInv ==
  ASSUME IInv, JInv, TurnAway \/ ComparePanics \/ Authenticate \/ Parse
  PROVE  JInv'
<1>1. /\ pc \in {"arrived", "body"} /\ http' = http /\ UNCHANGED <<intercepted, forwarded, taken, merged>>
      /\ Places' = Places
  BY DEF TurnAway, ComparePanics, Authenticate, Parse, Places, merging
<1>2. pc' \in {"body", "single", "batch", "responded", "closed"}
      /\ (pc' = "batch" => http.batch /\ running' = Places)
      /\ pc' # "arrived"
  BY DEF TurnAway, ComparePanics, Authenticate, Parse, Respond
<1>3. intercepted = <<>> /\ DOMAIN intercepted = {}
  BY <1>1 DEF JInv, ChannelInv
<1>4. ChannelInv'
  BY <1>1, <1>2, <1>3 DEF ChannelInv
<1>5. MergeInv'
  BY <1>1, <1>2, MergeKept DEF JInv
<1>6. \/ pc' # "responded" /\ UNCHANGED response
      \/ response'.status \in {401, 404, 405, 500} /\ response'.body = <<>>
  BY DEF TurnAway, ComparePanics, Authenticate, Parse, Respond
<1>7. ResponseInv'
  <2>1. CASE pc' # "responded" /\ UNCHANGED response
    BY <2>1, ResponseKept DEF JInv
  <2>2. CASE response'.status \in {401, 404, 405, 500} /\ response'.body = <<>>
    <3>1. response'.status >= 400 /\ response'.status \in {200, 204, 401, 403, 404, 405, 500}
      BY <2>2
    <3>2. response'.body \in Seq(Replies)
      BY <2>2, NoReplies
    <3> QED
      BY <3>1, <3>2, ResponseKept DEF JInv
  <2> QED
    BY <1>6, <2>1, <2>2
<1> QED
  BY <1>4, <1>5, <1>7 DEF JInv

LEMMA EndSingleJInv ==
  ASSUME IInv, JInv, EndSingle
  PROVE  JInv'
<1>1. /\ pc = "single" /\ http' = http /\ UNCHANGED <<intercepted, taken, merged>> /\ Places' = Places
      /\ ~http.batch /\ Places = {1} /\ pc' \in {"auth", "responded"}
  BY HttpFacts DEF EndSingle, Places, merging, IInv, RefusedInv, Respond
<1>2. intercepted = <<>> /\ DOMAIN intercepted = {}
  BY <1>1 DEF JInv, ChannelInv
<1>3. ChannelInv'
  BY <1>1, <1>2 DEF ChannelInv
<1>4. MergeInv'
  BY <1>1, MergeKept DEF JInv
<1>5. PICK outcome \in Intercept(user, http.calls[1]) \ {"panic"} :
        \/ outcome = "none" /\ pc' = "auth" /\ UNCHANGED response
        \/ LET status == StatusOf(outcome, http.calls[1])
           IN Respond(status, IF status = 204 THEN <<>> ELSE <<ByProxy(1)>>)
  BY DEF EndSingle
<1>6. StatusOf(outcome, http.calls[1]) \in {200, 204, 403, 500}
  BY DEF StatusOf
<1>7. <<ByProxy(1)>> \in Seq(Replies)
  <2>1. ByProxy(1) \in Replies
    BY ProxyAssumption DEF ByProxy, Replies
  <2> QED
    BY <2>1
<1>8. \/ pc' # "responded" /\ UNCHANGED response
      \/ response'.status \in {200, 204, 403, 500} /\ response'.body \in Seq(Replies)
  <2>1. CASE pc' = "auth" /\ UNCHANGED response
    BY <2>1
  <2>2. CASE LET status == StatusOf(outcome, http.calls[1])
             IN Respond(status, IF status = 204 THEN <<>> ELSE <<ByProxy(1)>>)
    <3>1. /\ response'.status = StatusOf(outcome, http.calls[1])
          /\ response'.body = <<>> \/ response'.body = <<ByProxy(1)>>
      BY <2>2 DEF Respond
    <3>2. response'.body \in Seq(Replies)
      BY <1>7, <3>1, NoReplies
    <3> QED
      BY <1>6, <3>1, <3>2
  <2> QED
    BY <1>5, <2>1, <2>2
<1>9. ResponseInv'
  BY <1>1, <1>8, ResponseKept DEF JInv
<1> QED
  BY <1>3, <1>4, <1>9 DEF JInv

LEMMA EndCallJInv ==
  ASSUME IInv, JInv, NEW i \in Places, EndCall(i)
  PROVE  JInv'
<1>1. /\ pc = "batch" /\ i \in running /\ running' = running \ {i}
      /\ UNCHANGED <<http, pc, user, posted, response, taken, merged>> /\ Places' = Places
  BY DEF EndCall, Places, merging
<1>2. PICK outcome \in Intercept(user, http.calls[i]) \ {"panic"} :
        /\ forwarded' = IF outcome = "none" THEN Append(forwarded, i) ELSE forwarded
        /\ intercepted' = IF Reported(i, outcome)
                          THEN Append(intercepted, [of |-> i, outcome |-> outcome])
                          ELSE intercepted
  BY DEF EndCall
<1>3. outcome \in {"none", "result", "error", "refused", "broken"}
  BY <1>2, InterceptFacts
<1>4. MergeInv' /\ ResponseInv'
  BY <1>1, MergeKept, ResponseKept DEF JInv
<1>5. /\ forwarded \in Seq(Places) /\ Len(forwarded) \in Nat /\ DOMAIN forwarded = 1 .. Len(forwarded)
      /\ intercepted \in Seq([of : Places, outcome : {"result", "error", "refused", "broken"}])
  BY DEF IInv, ForwardedInv, RefusedInv
<1>6. Len(intercepted) \in Nat /\ DOMAIN intercepted = 1 .. Len(intercepted)
  <2> DEFINE M == [of : Places, outcome : {"result", "error", "refused", "broken"}]
  <2>1. intercepted \in Seq(M)
    BY <1>5
  <2> HIDE DEF M
  <2> QED
    BY <2>1
<1>7. \A j \in DOMAIN forwarded : j \in DOMAIN forwarded' /\ forwarded'[j] = forwarded[j]
  BY <1>2, <1>5, AppendProperties
<1>8. \A k \in DOMAIN intercepted : k \in DOMAIN intercepted' /\ intercepted'[k] = intercepted[k]
  BY <1>2, <1>6
<1>9. \A j \in DOMAIN forwarded' :
        \/ j \in DOMAIN forwarded /\ forwarded'[j] = forwarded[j]
        \/ forwarded'[j] = i /\ outcome = "none"
  BY <1>2, <1>5, AppendProperties
<1>10. \A k \in DOMAIN intercepted' :
        \/ k \in DOMAIN intercepted /\ intercepted'[k] = intercepted[k]
        \/ /\ k = Len(intercepted) + 1 /\ intercepted'[k] = [of |-> i, outcome |-> outcome]
           /\ Reported(i, outcome)
  BY <1>2, <1>6
<1>11. outcome = "none" => \E j \in DOMAIN forwarded' : forwarded'[j] = i
  <2> SUFFICES ASSUME outcome = "none"
               PROVE Len(forwarded) + 1 \in DOMAIN forwarded' /\ forwarded'[Len(forwarded) + 1] = i
    OBVIOUS
  <2> QED
    BY <1>2, <1>5, AppendProperties
<1>12. Reported(i, outcome) => \E k \in DOMAIN intercepted' : intercepted'[k].of = i
  <2> SUFFICES ASSUME Reported(i, outcome)
               PROVE /\ Len(intercepted) + 1 \in DOMAIN intercepted'
                     /\ intercepted'[Len(intercepted) + 1] = [of |-> i, outcome |-> outcome]
    OBVIOUS
  <2> QED
    BY <1>2, <1>6
<1>13. Reported(i, outcome) => outcome # "none"
  BY DEF Reported
<1>14. \A k \in DOMAIN intercepted : intercepted[k].of # i
  BY <1>1 DEF JInv, ChannelInv
<1>15. \A j \in DOMAIN forwarded : forwarded[j] # i
  BY <1>1 DEF IInv, ForwardedInv
<1>16. \A x : IsNotification(x)' <=> IsNotification(x)
  BY <1>1 DEF IsNotification
<1>17. \A k \in DOMAIN intercepted' :
         /\ intercepted'[k].of \notin running'
         /\ \A j \in DOMAIN forwarded' : forwarded'[j] # intercepted'[k].of
         /\ IsNotification(intercepted'[k].of) => intercepted'[k].outcome \in {"refused", "broken"}
  <2> TAKE k \in DOMAIN intercepted'
  <2>1. CASE k \in DOMAIN intercepted /\ intercepted'[k] = intercepted[k]
    <3>1. /\ intercepted[k].of \notin running
          /\ \A j \in DOMAIN forwarded : forwarded[j] # intercepted[k].of
          /\ IsNotification(intercepted[k].of) => intercepted[k].outcome \in {"refused", "broken"}
      BY <2>1 DEF JInv, ChannelInv
    <3> QED
      BY <1>1, <1>9, <1>14, <2>1, <3>1
  <2>2. CASE intercepted'[k] = [of |-> i, outcome |-> outcome] /\ Reported(i, outcome)
    <3>1. intercepted'[k].of = i /\ intercepted'[k].outcome = outcome
      BY <2>2
    <3>2. IsNotification(i) => outcome \in {"refused", "broken"}
      BY <2>2 DEF Reported
    <3> QED
      BY <1>1, <1>9, <1>13, <1>15, <2>2, <3>1, <3>2
  <2> QED
    BY <1>10, <2>1, <2>2
<1>18. \A j, k \in DOMAIN intercepted' : intercepted'[j].of = intercepted'[k].of => j = k
  <2> TAKE j, k \in DOMAIN intercepted'
  <2>1. CASE j \in DOMAIN intercepted /\ k \in DOMAIN intercepted
    BY <1>8, <2>1 DEF JInv, ChannelInv
  <2>2. CASE j \in DOMAIN intercepted /\ k \notin DOMAIN intercepted
    BY <1>8, <1>10, <1>14, <2>2
  <2>3. CASE j \notin DOMAIN intercepted /\ k \in DOMAIN intercepted
    BY <1>8, <1>10, <1>14, <2>3
  <2>4. CASE j \notin DOMAIN intercepted /\ k \notin DOMAIN intercepted
    BY <1>10, <2>4
  <2> QED
    BY <2>1, <2>2, <2>3, <2>4
<1>19. \A x : Accounted(x) => Accounted(x)'
  <2> TAKE x
  <2> SUFFICES ASSUME Accounted(x) PROVE Accounted(x)'
    OBVIOUS
  <2>1. CASE IsNotification(x)
    BY <1>16, <2>1 DEF Accounted
  <2>2. CASE \E j \in DOMAIN forwarded : forwarded[j] = x
    BY <1>7, <2>2 DEF Accounted
  <2>3. CASE \E k \in DOMAIN intercepted : intercepted[k].of = x
    BY <1>8, <2>3 DEF Accounted
  <2> QED
    BY <2>1, <2>2, <2>3 DEF Accounted
<1>20. Accounted(i)'
  <2>1. CASE outcome = "none"
    BY <1>11, <2>1 DEF Accounted
  <2>2. CASE Reported(i, outcome)
    BY <1>12, <2>2 DEF Accounted
  <2>3. CASE outcome # "none" /\ ~Reported(i, outcome)
    BY <1>3, <1>16, <2>3 DEF Reported, Accounted
  <2> QED
    BY <2>1, <2>2, <2>3
<1>21. \A x \in Places \ running' : Accounted(x)'
  BY <1>1, <1>19, <1>20 DEF JInv, ChannelInv
<1>22. http.batch
  BY <1>1 DEF JInv, ChannelInv
<1>23. ChannelInv'
  BY <1>1, <1>16, <1>17, <1>18, <1>21, <1>22 DEF ChannelInv, IsNotification
<1> QED
  BY <1>4, <1>23 DEF JInv

LEMMA ListsStay ==
  ASSUME UNCHANGED <<http, intercepted, posted>>
  PROVE  Left' = Left /\ Right' = Right
<1>1. \A i : IsNotification(i)' <=> IsNotification(i)
  BY DEF IsNotification
<1>2. Answerable(posted.places)' = Answerable(posted.places)
  BY DEF Answerable, IsNotification
<1>3. Answered' = Answered /\ BitcoindReplies' = BitcoindReplies
  BY <1>2 DEF Answered, BitcoindReplies
<1>4. Paired' = Paired /\ OwnReplies' = OwnReplies
  BY <1>3 DEF Paired, OwnReplies
<1> QED
  BY <1>4 DEF Left, Right

\* The steps of `merge_by`.
LEMMA TakeJInv ==
  ASSUME IInv, JInv, TakeLeft \/ TakeRight
  PROVE  JInv'
<1>1. /\ pc = "merging" /\ pc' = pc
      /\ UNCHANGED <<http, user, running, intercepted, forwarded, posted, response>>
  BY DEF TakeLeft, TakeRight
<1>2. posted = Post /\ http.batch
  BY <1>1 DEF JInv, ChannelInv
<1>3. ChannelInv'
  <2>1. ErrorsAt = {} /\ (\A i \in Places : Accounted(i))
        /\ \A k \in DOMAIN intercepted : intercepted[k].of \notin running
    BY <1>1, <1>2 DEF JInv, ChannelInv
  <2> QED
    BY <1>1, <1>2, <2>1, ChannelKept DEF JInv
<1>4. ResponseInv'
  BY <1>1, ResponseKept DEF JInv
<1>5. Left' = Left /\ Right' = Right
  BY <1>1, ListsStay
<1>6. Listing(Left) /\ Listing(Right)
  BY <1>2, ListFacts DEF JInv
<1>7. /\ taken \in [bitcoind : Nat, proxy : Nat] /\ merged \in Seq(Replies)
      /\ MergedUpTo(Left, taken.bitcoind, Right, taken.proxy, merged)
  BY <1>1 DEF JInv, MergeInv
<1>8. CASE TakeLeft
  <2>1. /\ taken.bitcoind < Len(Left)
        /\ taken.proxy < Len(Right) => Left[taken.bitcoind + 1].place < Right[taken.proxy + 1].place
        /\ merged' = Append(merged, Left[taken.bitcoind + 1].reply)
        /\ taken' = [taken EXCEPT !.bitcoind = @ + 1]
    BY <1>8 DEF TakeLeft
  <2>2. /\ merged' \in Seq(Replies)
        /\ MergedUpTo(Left, taken.bitcoind + 1, Right, taken.proxy, merged')
    BY <1>6, <1>7, <2>1, TakeOne
  <2>3. /\ taken' \in [bitcoind : Nat, proxy : Nat]
        /\ taken'.bitcoind = taken.bitcoind + 1 /\ taken'.proxy = taken.proxy
    BY <1>7, <2>1
  <2>4. MergeInv'
    BY <1>1, <1>5, <2>2, <2>3 DEF MergeInv
  <2> QED
    BY <1>3, <1>4, <2>4 DEF JInv
<1>9. CASE TakeRight
  <2>1. /\ taken.proxy < Len(Right)
        /\ taken.bitcoind < Len(Left) => ~(Left[taken.bitcoind + 1].place < Right[taken.proxy + 1].place)
        /\ merged' = Append(merged, Right[taken.proxy + 1].reply)
        /\ taken' = [taken EXCEPT !.proxy = @ + 1]
    BY <1>9 DEF TakeRight
  <2>2. taken.bitcoind < Len(Left) => Right[taken.proxy + 1].place < Left[taken.bitcoind + 1].place
    <3> SUFFICES ASSUME taken.bitcoind < Len(Left)
                 PROVE  Right[taken.proxy + 1].place < Left[taken.bitcoind + 1].place
      OBVIOUS
    <3> DEFINE a == Left[taken.bitcoind + 1]
               b == Right[taken.proxy + 1]
    <3>1. taken.bitcoind + 1 \in DOMAIN Left /\ taken.proxy + 1 \in DOMAIN Right
      BY <1>6, <1>7, <2>1 DEF Listing
    <3>2. a.place # b.place
      <4>1. \E j \in DOMAIN forwarded : forwarded[j] = a.place
        BY <1>2, <3>1, ListFacts DEF JInv
      <4>2. \E j \in DOMAIN intercepted : intercepted[j].of = b.place
        BY <1>2, <3>1, ListFacts DEF JInv
      <4> QED
        BY <4>1, <4>2 DEF JInv, ChannelInv
    <3>3. a.place \in Nat /\ b.place \in Nat
      <4>1. a \in Pairs /\ b \in Pairs
        BY <1>6, <3>1 DEF Listing
      <4> QED
        BY <4>1, ProxyAssumption DEF Pairs
    <3> QED
      BY <2>1, <3>2, <3>3
  <2>3. MergedUpTo(Right, taken.proxy, Left, taken.bitcoind, merged)
    BY <1>7, MergedSymmetric
  <2>4. /\ merged' \in Seq(Replies)
        /\ MergedUpTo(Right, taken.proxy + 1, Left, taken.bitcoind, merged')
    BY <1>6, <1>7, <2>1, <2>2, <2>3, TakeOne
  <2>5. MergedUpTo(Left, taken.bitcoind, Right, taken.proxy + 1, merged')
    BY <2>4, MergedSymmetric
  <2>6. /\ taken' \in [bitcoind : Nat, proxy : Nat]
        /\ taken'.proxy = taken.proxy + 1 /\ taken'.bitcoind = taken.bitcoind
    BY <1>7, <2>1
  <2>7. MergeInv'
    BY <1>1, <1>5, <2>4, <2>5, <2>6 DEF MergeInv
  <2> QED
    BY <1>3, <1>4, <2>7 DEF JInv
<1> QED
  BY <1>8, <1>9

\* What has been merged when both lists are used up.
LEMMA RespondMergedJInv ==
  ASSUME IInv, JInv, RespondMerged
  PROVE  JInv'
<1>1. /\ pc = "merging" /\ pc' = "responded"
      /\ UNCHANGED <<http, user, running, intercepted, forwarded, posted, taken, merged>>
      /\ taken = [bitcoind |-> Len(Left), proxy |-> Len(Right)]
      /\ response'.body = merged
      /\ response'.status = IF merged = <<>> /\ http.calls # <<>> THEN 204 ELSE 200
  BY DEF RespondMerged, Respond, merging
<1>2. ChannelInv' /\ MergeInv'
  BY <1>1, ChannelEnds, MergeKept DEF JInv
<1>3. /\ http.batch /\ posted = Post /\ posted.places = forwarded /\ ErrorsAt = {}
      /\ \A i \in Places : Accounted(i)
  BY <1>1 DEF JInv, ChannelInv, Post
<1>4. merged \in Seq(Replies) /\ MergedUpTo(Left, Len(Left), Right, Len(Right), merged)
  BY <1>1 DEF JInv, MergeInv
<1>5. /\ Listing(Left) /\ Listing(Right)
      /\ \A k \in DOMAIN Left : k <= Len(Left)
      /\ \A k \in DOMAIN Right : k <= Len(Right)
  <2>1. Listing(Left) /\ Listing(Right)
    BY <1>3, ListFacts DEF JInv
  <2> QED
    BY <2>1 DEF Listing
<1>6. \A k \in DOMAIN Right : Right[k].place \in Places /\ ~IsNotification(Right[k].place)
                              /\ \A j \in DOMAIN forwarded : forwarded[j] # Right[k].place
  <2> TAKE k \in DOMAIN Right
  <2>1. PICK j \in DOMAIN intercepted : intercepted[j].of = Right[k].place
    BY <1>3, ListFacts DEF JInv
  <2>2. intercepted[j].of \in Places
    <3> DEFINE M == [of : Places, outcome : {"result", "error", "refused", "broken"}]
    <3>1. intercepted \in Seq(M) /\ \A m \in M : m.of \in Places
      BY DEF IInv, RefusedInv
    <3> HIDE DEF M
    <3> QED
      BY <3>1
  <2>3. intercepted[j].outcome \notin {"refused", "broken"}
    BY <1>3 DEF ErrorsAt
  <2>4. ~IsNotification(intercepted[j].of) /\ \A l \in DOMAIN forwarded : forwarded[l] # intercepted[j].of
    BY <2>3 DEF JInv, ChannelInv
  <2> QED
    BY <2>1, <2>2, <2>4
<1>7. \A k \in DOMAIN Left : Left[k].place \in Places /\ ~IsNotification(Left[k].place)
                             /\ \E j \in DOMAIN forwarded : forwarded[j] = Left[k].place
  BY <1>3, ListFacts DEF JInv
<1>8. /\ \A k \in DOMAIN Left : Left[k].reply = ByBitcoind(Left[k].place)
      /\ \A k \in DOMAIN Right : Right[k].reply = ByProxy(Right[k].place)
  BY <1>3, ListFacts DEF JInv
<1>9. \A i : ByProxy(i).of = i /\ ByBitcoind(i).of = i
  BY DEF ByProxy, ByBitcoind
<1>10. \A k \in DOMAIN merged :
         /\ merged[k].of \in Places /\ ~IsNotification(merged[k].of)
         /\ merged[k] = IF merged[k].of \in ToSet(posted.places)
                        THEN ByBitcoind(merged[k].of) ELSE ByProxy(merged[k].of)
  <2> TAKE k \in DOMAIN merged
  <2>1. CASE \E j \in DOMAIN Left : merged[k] = Left[j].reply
    <3>1. PICK j \in DOMAIN Left : merged[k] = Left[j].reply
      BY <2>1
    <3>2. merged[k] = ByBitcoind(Left[j].place) /\ merged[k].of = Left[j].place
      BY <1>8, <1>9, <3>1
    <3>3. Left[j].place \in ToSet(posted.places)
      BY <1>3, <1>7 DEF ToSet
    <3> QED
      BY <1>7, <3>2, <3>3
  <2>2. CASE \E j \in DOMAIN Right : merged[k] = Right[j].reply
    <3>1. PICK j \in DOMAIN Right : merged[k] = Right[j].reply
      BY <2>2
    <3>2. merged[k] = ByProxy(Right[j].place) /\ merged[k].of = Right[j].place
      BY <1>8, <1>9, <3>1
    <3>3. Right[j].place \notin ToSet(posted.places)
      BY <1>3, <1>6 DEF ToSet
    <3> QED
      BY <1>6, <3>2, <3>3
  <2> QED
    BY <1>4, <2>1, <2>2 DEF MergedUpTo
<1>11. \A i \in Places : ~IsNotification(i) => \E k \in DOMAIN merged : merged[k].of = i
  <2> SUFFICES ASSUME NEW i \in Places, ~IsNotification(i)
               PROVE  \E k \in DOMAIN merged : merged[k].of = i
    OBVIOUS
  <2>1. CASE \E j \in DOMAIN forwarded : forwarded[j] = i
    <3>1. PICK j \in DOMAIN Left : Left[j].place = i
      BY <1>3, <2>1, ListFacts DEF JInv
    <3>2. PICK k \in DOMAIN merged : merged[k] = Left[j].reply
      BY <1>4, <1>5, <3>1 DEF MergedUpTo
    <3> QED
      BY <1>8, <1>9, <3>1, <3>2
  <2>2. CASE \E j \in DOMAIN intercepted : intercepted[j].of = i
    <3>1. PICK j \in DOMAIN Right : Right[j].place = i
      BY <1>3, <2>2, ListFacts DEF JInv
    <3>2. PICK k \in DOMAIN merged : merged[k] = Right[j].reply
      BY <1>4, <1>5, <3>1 DEF MergedUpTo
    <3> QED
      BY <1>8, <1>9, <3>1, <3>2
  <2> QED
    BY <1>3, <2>1, <2>2 DEF Accounted
<1> DEFINE expected == {i \in Places : ~IsNotification(i)}
<1>12. {merged[k].of : k \in DOMAIN merged} = expected
  BY <1>10, <1>11
<1>13. \A j, k \in DOMAIN merged : j < k => merged[j].of < merged[k].of
  BY <1>4 DEF MergedUpTo
<1>14. (merged = <<>> <=> expected = {}) /\ (http.calls = <<>> <=> Places = {})
  <2>1. merged = <<>> <=> DOMAIN merged = {}
    BY <1>4
  <2>2. DOMAIN merged = {} <=> expected = {}
    BY <1>12
  <2>3. http.calls \in Seq(Calls)
    BY HttpFacts DEF IInv
  <2>4. http.calls = <<>> <=> DOMAIN http.calls = {}
    <3>1. \A s \in Seq(Calls) : s = <<>> <=> DOMAIN s = {}
      OBVIOUS
    <3> QED
      BY <2>3, <3>1, Zenon
  <2> QED
    BY <2>1, <2>2, <2>4 DEF Places
<1>15. response'.status = IF expected = {} /\ Places # {} THEN 204 ELSE 200
  BY <1>1, <1>14
<1>16. Places' = Places /\ expected' = expected /\ ToSet(posted'.places) = ToSet(posted.places)
  BY <1>1 DEF Places, IsNotification
<1>17. BatchRepliesMatch'
  <2>1. \A k \in DOMAIN merged :
          merged[k] = IF merged[k].of \in ToSet(posted'.places)
                      THEN ByBitcoind(merged[k].of) ELSE ByProxy(merged[k].of)
    BY <1>10, <1>16
  <2> QED
    BY <1>1, <1>12, <1>13, <1>15, <1>16, <2>1 DEF BatchRepliesMatch
<1>18. ResponseInv'
  BY <1>1, <1>4, <1>15, <1>17 DEF ResponseInv
<1> QED
  BY <1>2, <1>18 DEF JInv

LEMMA NextJInv == IInv /\ JInv /\ [Next]_vars => JInv'
<1> SUFFICES ASSUME IInv, JInv, [Next]_vars PROVE JInv'
  OBVIOUS
<1>1. CASE TurnAway \/ ComparePanics \/ Authenticate \/ Parse
  BY <1>1, EarlyJInv
<1>2. CASE EndSingle
  BY <1>2, EndSingleJInv
<1>3. ASSUME NEW i \in Places, EndCall(i) PROVE JInv'
  BY <1>3, EndCallJInv
<1>4. CASE (\E i \in Places : Panic(i)) \/ Disconnect
  <2>1. /\ pc' = "closed" /\ running' \subseteq running
        /\ UNCHANGED <<http, user, intercepted, forwarded, posted, response, taken, merged>>
    BY <1>4 DEF Panic, Disconnect, merging
  <2> QED
    BY <2>1, ChannelEnds, MergeKept, ResponseKept DEF JInv
<1>5. CASE JoinFailed
  <2>1. /\ pc' = "responded" /\ response'.body = <<>> /\ response'.status \in {403, 500}
        /\ UNCHANGED <<http, user, running, intercepted, forwarded, taken, merged>>
    BY <1>5 DEF JoinFailed, Respond, ErrorStatus, merging
  <2>2. response'.body \in Seq(Replies) /\ response'.status >= 400
    BY <2>1, NoReplies
  <2>3. ChannelInv' /\ MergeInv'
    BY <2>1, ChannelEnds, MergeKept DEF JInv
  <2> QED
    BY <2>1, <2>2, <2>3, ResponseKept DEF JInv
<1>6. CASE Join
  <2>1. /\ pc = "batch" /\ running = {} /\ ErrorsAt = {} /\ pc' = "auth"
        /\ UNCHANGED <<http, user, running, intercepted, forwarded, posted, response, taken, merged>>
    BY <1>6 DEF Join, merging
  <2>2. \A i \in Places : Accounted(i)
    BY <2>1 DEF JInv, ChannelInv
  <2>3. ChannelInv'
    BY <2>1, <2>2, ChannelKept DEF JInv
  <2> QED
    BY <2>1, <2>3, MergeKept, ResponseKept DEF JInv
<1>7. CASE LoadAuth
  <2>1. /\ pc = "auth" /\ pc' \in {"reply", "responded", "closed"}
        /\ pc' = "reply" => posted' = Post
        /\ UNCHANGED <<http, user, running, intercepted, forwarded, taken, merged>>
    BY <1>7 DEF LoadAuth, Respond, merging
  <2>2. /\ http.batch => ErrorsAt = {} /\ \A i \in Places : Accounted(i)
        /\ \A k \in DOMAIN intercepted : intercepted[k].of \notin running
    BY <2>1 DEF JInv, ChannelInv
  <2>3. ChannelInv' /\ MergeInv'
    BY <2>1, <2>2, ChannelKept, MergeKept DEF JInv
  <2>4. \/ pc' # "responded" /\ UNCHANGED response
        \/ response'.status = 500 /\ response'.body = <<>>
    BY <1>7 DEF LoadAuth, Respond
  <2>5. ResponseInv'
    <3>1. CASE pc' # "responded" /\ UNCHANGED response
      BY <3>1, ResponseKept DEF JInv
    <3>2. CASE response'.status = 500 /\ response'.body = <<>>
      <4>1. response'.status >= 400 /\ response'.body \in Seq(Replies)
        BY <3>2, NoReplies
      <4> QED
        BY <3>2, <4>1, ResponseKept DEF JInv
    <3> QED
      BY <2>4, <3>1, <3>2
  <2> QED
    BY <2>3, <2>5 DEF JInv
<1>8. CASE ReplyBatch
  <2>1. /\ pc = "reply" /\ http.batch /\ pc' = "merging"
        /\ UNCHANGED <<http, user, running, intercepted, forwarded, posted, response, taken, merged>>
    BY <1>8 DEF ReplyBatch, merging
  <2>2. /\ ErrorsAt = {} /\ (\A i \in Places : Accounted(i)) /\ posted = Post
        /\ \A k \in DOMAIN intercepted : intercepted[k].of \notin running
    BY <2>1 DEF JInv, ChannelInv
  <2>3. ChannelInv'
    BY <2>1, <2>2, ChannelKept DEF JInv
  <2>4. ResponseInv'
    BY <2>1, ResponseKept DEF JInv
  <2>5. Listing(Left) /\ Listing(Right)
    BY <2>2, ListFacts DEF JInv
  <2>6. MergedUpTo(Left, 0, Right, 0, <<>>)
    <3>1. /\ Len(Left) \in Nat /\ DOMAIN Left = 1 .. Len(Left)
          /\ Len(Right) \in Nat /\ DOMAIN Right = 1 .. Len(Right)
      BY <2>5 DEF Listing
    <3> QED
      BY <3>1 DEF MergedUpTo
  <2>7. /\ taken = [bitcoind |-> 0, proxy |-> 0] /\ merged = <<>>
        /\ taken \in [bitcoind : Nat, proxy : Nat] /\ merged \in Seq(Replies)
    BY <2>1 DEF JInv, MergeInv
  <2>8. Left' = Left /\ Right' = Right
    BY <2>1, ListsStay
  <2>9. MergeInv'
    BY <2>1, <2>6, <2>7, <2>8 DEF MergeInv
  <2> QED
    BY <2>3, <2>4, <2>9 DEF JInv
<1>9. CASE TakeLeft \/ TakeRight
  BY <1>9, TakeJInv
<1>10. CASE RespondMerged
  BY <1>10, RespondMergedJInv
<1>11. CASE ReplySingle \/ ReplyFails
  <2>1. /\ pc = "reply" /\ pc' \in {"responded", "closed"}
        /\ UNCHANGED <<http, user, running, intercepted, forwarded, posted, taken, merged>>
    BY <1>11 DEF ReplySingle, ReplyFails, Respond, merging
  <2>2. ChannelInv' /\ MergeInv'
    BY <2>1, ChannelEnds, MergeKept DEF JInv
  <2>3. BitcoindReplies \in Seq(Replies)
    <3> DEFINE a == Answerable(forwarded)
    <3>1. posted.places = forwarded /\ http \in HttpRequests
      BY <2>1 DEF JInv, ChannelInv, Post, IInv
    <3>2. a \in Seq(Places)
      BY AnswerableFacts DEF IInv, ForwardedInv
    <3>3. BitcoindReplies = [k \in DOMAIN a |-> ByBitcoind(a[k])]
      BY <3>1 DEF BitcoindReplies
    <3> HIDE DEF a
    <3>4. Len(a) \in Nat /\ DOMAIN a = 1 .. Len(a) /\ \A k \in 1 .. Len(a) : a[k] \in Places
      BY <3>2
    <3>5. \A k \in 1 .. Len(a) : ByBitcoind(a[k]) \in Replies
      BY <3>1, <3>4, HttpFacts DEF ByBitcoind, Replies
    <3>6. BitcoindReplies \in [1 .. Len(a) -> Replies]
      BY <3>3, <3>4, <3>5
    <3> QED
      BY <3>4, <3>6
  <2>4. \/ pc' # "responded" /\ UNCHANGED response
        \/ response'.status \in {200, 204, 401, 500} /\ response'.body \in Seq(Replies) /\ ~http.batch
        \/ response'.status = 500 /\ response'.body \in Seq(Replies)
    <3>1. \/ pc' # "responded" /\ UNCHANGED response
          \/ /\ response'.status \in {200, 204, 401, 500} /\ ~http.batch
             /\ response'.body = BitcoindReplies \/ response'.body = <<>>
          \/ response'.status = 500 /\ response'.body = <<>>
      BY <1>11 DEF ReplySingle, ReplyFails, Respond
    <3>2. response'.body = BitcoindReplies \/ response'.body = <<>> => response'.body \in Seq(Replies)
      BY <2>3, NoReplies, Zenon
    <3> QED
      BY <3>1, <3>2
  <2>5. ResponseInv'
    BY <2>1, <2>4, ResponseKept DEF JInv
  <2> QED
    BY <2>2, <2>5 DEF JInv
<1>12. CASE Ended \/ UNCHANGED vars
  <2>1. UNCHANGED <<http, pc, user, running, intercepted, forwarded, posted, taken, merged, response>>
    BY <1>12 DEF Ended, vars, merging
  <2>2. /\ Places' = Places /\ ErrorsAt' = ErrorsAt /\ Post' = Post /\ Left' = Left /\ Right' = Right
        /\ \A i : Accounted(i)' <=> Accounted(i)
        /\ \A i : IsNotification(i)' <=> IsNotification(i)
    BY <2>1, ListsStay DEF Places, ErrorsAt, Post, Path, Accounted, IsNotification
  <2>3. ChannelInv'
    BY <2>1, <2>2 DEF JInv, ChannelInv, Accounted, IsNotification, Places
  <2>4. MergeInv'
    BY <2>1, <2>2 DEF JInv, MergeInv
  <2>5. ResponseInv'
    BY <2>1, <2>2 DEF JInv, ResponseInv, BatchRepliesMatch, IsNotification
  <2> QED
    BY <2>3, <2>4, <2>5 DEF JInv
<1> QED
  BY <1>1, <1>2, <1>3, <1>4, <1>5, <1>6, <1>7, <1>8, <1>9, <1>10, <1>11, <1>12 DEF Next

LEMMA InvariantJInv == Spec => []JInv
BY InitJInv, NextJInv, InvariantIInv, PTL DEF Spec

-----------------------------------------------------------------------------
(* The theorems. *)

\* No call reaches bitcoind that its user may not make, that the proxy answers itself,
\* or that has gone there before; also when the batch it is in has been refused.
THEOREM ForwardingIsSafe == Spec => []OnlyAllowedIsForwarded
<1>1. IInv => OnlyAllowedIsForwarded
  <2> SUFFICES ASSUME IInv, posted # NotPosted PROVE OnlyAllowedIsForwarded
    BY DEF OnlyAllowedIsForwarded
  <2>1. posted = Post /\ posted.places = forwarded /\ posted.path = Path
    BY DEF IInv, PostedInv, Post
  <2>2. user # NoUser
    BY DEF IInv, UserInv
  <2>3. \A k \in DOMAIN forwarded : forwarded[k] \in Places /\ Forwardable(forwarded[k])
    BY DEF IInv, ForwardedInv
  <2> QED
    <3>1. UserOf(http.auth) = user
      BY <2>2 DEF IInv, UserInv
    <3>2. \A j, k \in DOMAIN forwarded : forwarded[j] = forwarded[k] => j = k
      BY DEF IInv, ForwardedInv
    <3>3. ASSUME NEW k \in DOMAIN forwarded
          PROVE  /\ http.calls[forwarded[k]].method \in AllowedOf[user]
                 /\ ~(/\ user \in FetchBlocks /\ http.calls[forwarded[k]].params = "servable"
                      /\ http.calls[forwarded[k]].method \in {"getblock", "getrawtransaction"})
      BY <2>3, InterceptFacts DEF Refused
    <3> QED
      BY <2>1, <2>2, <3>1, <3>2, <3>3 DEF OnlyAllowedIsForwarded
<1> QED
  BY <1>1, InvariantIInv, PTL

\* One call its user may not make fails the whole request, a notification too.
THEOREM RefusalIsTotal == Spec => []RefusalFailsAll
<1>1. IInv => RefusalFailsAll
  BY DEF IInv
<1> QED
  BY <1>1, InvariantIInv, PTL

\* A batch that succeeds is answered with one reply to each call that is no notification,
\* in request order and from where the call went, whatever order the calls end in.
THEOREM RepliesMatchCalls == Spec => []BatchRepliesMatch
<1>1. JInv => BatchRepliesMatch
  BY DEF JInv, ResponseInv
<1> QED
  BY <1>1, InvariantJInv, PTL

\* Every variable of a request has its type: in particular no reply is made for a place
\* the request does not have, and no status but the ones `send` and `proxy_request` give.
THEOREM TypeCorrect == Spec => []TypeOK
<1> DEFINE PcType == pc \in {"arrived", "body", "single", "batch", "auth", "reply", "merging",
                             "responded", "closed"}
           UserType == user \in Users \cup {NoUser}
<1>1. Init => PcType /\ UserType
  BY DEF Init
<1>2. PcType /\ UserType /\ [Next]_vars => (PcType /\ UserType)'
  <2> SUFFICES ASSUME PcType, UserType, [Next]_vars PROVE (PcType /\ UserType)'
    OBVIOUS
  <2> USE DEF Respond, merging
  <2>1. CASE TurnAway \/ ComparePanics \/ Authenticate \/ Parse \/ EndSingle
    BY <2>1 DEF TurnAway, ComparePanics, Authenticate, Parse, EndSingle, UserOf
  <2>2. ASSUME NEW i \in Places, EndCall(i) \/ Panic(i) PROVE (PcType /\ UserType)'
    BY <2>2 DEF EndCall, Panic
  <2>3. CASE JoinFailed \/ Join \/ LoadAuth \/ ReplyBatch \/ TakeLeft \/ TakeRight
    BY <2>3 DEF JoinFailed, Join, LoadAuth, ReplyBatch, TakeLeft, TakeRight
  <2>4. CASE RespondMerged \/ ReplySingle \/ ReplyFails \/ Disconnect
    BY <2>4 DEF RespondMerged, ReplySingle, ReplyFails, Disconnect
  <2>5. CASE Ended \/ UNCHANGED vars
    BY <2>5 DEF Ended, vars
  <2> QED
    BY <2>1, <2>2, <2>3, <2>4, <2>5 DEF Next
<1>3. IInv /\ JInv /\ PcType /\ UserType => TypeOK
  <2> SUFFICES ASSUME IInv, JInv, PcType, UserType PROVE TypeOK
    OBVIOUS
  <2>1. posted.places \in Seq(Places)
    <3>1. posted = NotPosted \/ posted = Post
      BY DEF IInv, PostedInv
    <3>2. NotPosted.places = <<>> /\ Post.places = forwarded
      BY DEF NotPosted, Post
    <3>3. <<>> \in Seq(Places) /\ forwarded \in Seq(Places)
      BY DEF IInv, ForwardedInv
    <3> QED
      BY <3>1, <3>2, <3>3
  <2> QED
    BY <2>1 DEF TypeOK, IInv, ForwardedInv, RefusedInv, JInv, MergeInv, ResponseInv
<1> QED
  BY <1>1, <1>2, <1>3, InvariantIInv, InvariantJInv, PTL DEF Spec

=============================================================================
