---------------------------- MODULE ProxyRequest ----------------------------
(***************************************************************************)
(* One HTTP request to the proxy, from `proxy_request` (src/src/proxy.rs)  *)
(* through `Users::get` and `User::intercept` (src/src/users.rs) to        *)
(* `RpcClient::send` (src/src/client.rs) and back.                         *)
(*                                                                         *)
(* The calls of a batch are intercepted concurrently and end in any order. *)
(* Each goes down one of two channels: with the proxy's own reply, or to   *)
(* be forwarded.  Then one POST carries all that is forwarded, bitcoind's  *)
(* replies are paired with the places of the calls they answer, and both   *)
(* lists are merged in request order.                                      *)
(*                                                                         *)
(* A call is known by its method, by what `intercept` can make of its      *)
(* parameters, and by its version: "v1", "v2", or "note" for a 2.0 call    *)
(* without an id.  A reply is known by the place of the call it is for and *)
(* by who wrote it.  How long an interception takes, and what bitcoind and *)
(* its peers say meanwhile, is the business of Interception and BlockFetch.*)
(***************************************************************************)
EXTENDS Naturals, Sequences, SequencesExt, FiniteSets, InterceptKinds

CONSTANTS
  Calls,        \* the JSON-RPC calls a client may make
  MaxBatch,     \* bound on the length of a batch
  Users,        \* configured user names
  PasswordOf,   \* PasswordOf[u]: the password of u
  Hashed,       \* the users whose password is configured as a salted hash
  AllowedOf,    \* AllowedOf[u]: the methods u may call: `allowed_calls`, or all
  FetchBlocks,  \* the users with `fetch_blocks`
  OverrideOf,   \* OverrideOf[u]: `override_wallet`, or NoPath
  Auths,        \* Authorization headers: <<name, password>>, or NoAuth
  NoAuth,       \* no header, or one that is not Basic, base64, UTF-8 and "n:p"
  Blank,        \* the empty password
  NoUser, NoPath

ASSUME ProxyAssumption ==
  /\ \A c \in Calls : c.version \in {"v1", "v2", "note"}
  /\ MaxBatch \in Nat
  /\ NoUser \notin Users

VARIABLES
  http,         \* the request: path, post (is it a POST), auth, batch, calls, parses
  pc,
  user,         \* the authenticated user
  running,      \* places of the calls whose interception has not ended
  intercepted,  \* the channel of replies and refusals
  forwarded,    \* the channel of places to forward
  posted,       \* what has gone to bitcoind: the path and the places, in order
  taken,        \* how far `merge_by` has got in bitcoind's replies and in the proxy's
  merged,       \* what it has given so far
  response      \* status and body

merging == <<taken, merged>>
vars == <<http, pc, user, running, intercepted, forwarded, posted, merging, response>>

Paths == {"/", "/wallet/w", "/other"}
HttpRequests ==
  [path : Paths, post : BOOLEAN, auth : Auths, parses : BOOLEAN,
   batch : {FALSE}, calls : [1 .. 1 -> Calls]]
    \cup
  [path : Paths, post : BOOLEAN, auth : Auths, parses : BOOLEAN,
   batch : {TRUE}, calls : UNION {[1 .. n -> Calls] : n \in 0 .. MaxBatch}]

NotPosted == [path |-> NoPath, places |-> <<>>]
NoResponse == [status |-> 0, body |-> <<>>]
Places == DOMAIN http.calls
IsNotification(i) == http.calls[i].version = "note"

-----------------------------------------------------------------------------

Init ==
  /\ http \in HttpRequests
  /\ pc = "arrived"
  /\ user = NoUser
  /\ running = {}
  /\ intercepted = <<>>
  /\ forwarded = <<>>
  /\ posted = NotPosted
  /\ taken = [bitcoind |-> 0, proxy |-> 0]
  /\ merged = <<>>
  /\ response = NoResponse

\* `Users::get`: decode the header, look the name up, compare the password.
UserOf(auth) ==
  IF auth # NoAuth /\ auth[1] \in Users /\ PasswordOf[auth[1]] = auth[2]
  THEN auth[1] ELSE NoUser

\* `xor_contents` takes remainders by the length of the password it is given.
Incomparable(auth) ==
  /\ auth # NoAuth /\ auth[1] \in Users \ Hashed
  /\ auth[2] = Blank /\ PasswordOf[auth[1]] # Blank

Respond(status, body) ==
  /\ pc' = "responded"
  /\ response' = [status |-> status, body |-> body]

\* The answers of `proxy_request` that need no look at the body.
TurnAway ==
  /\ pc = "arrived"
  /\ \/ http.path = "/other" /\ Respond(404, <<>>)
     \/ http.path # "/other" /\ ~http.post /\ Respond(405, <<>>)
     \/ /\ http.path # "/other" /\ http.post
        /\ UserOf(http.auth) = NoUser /\ ~Incomparable(http.auth)
        /\ Respond(401, <<>>)
  /\ UNCHANGED <<http, user, running, intercepted, forwarded, posted, merging>>

\* The comparison panics and hyper closes the connection.
ComparePanics ==
  /\ pc = "arrived"
  /\ http.path # "/other" /\ http.post /\ Incomparable(http.auth)
  /\ pc' = "closed"
  /\ UNCHANGED <<http, user, running, intercepted, forwarded, posted, response, merging>>

Authenticate ==
  /\ pc = "arrived"
  /\ http.path # "/other" /\ http.post /\ UserOf(http.auth) # NoUser
  /\ user' = UserOf(http.auth)
  /\ pc' = "body"
  /\ UNCHANGED <<http, running, intercepted, forwarded, posted, response, merging>>

\* Slip: the calls are counted from zero and looked up from one.
ParseFromZero ==
  /\ pc = "body"
  /\ pc' = IF http.batch THEN "batch" ELSE "single"
  /\ running' = {i - 1 : i \in Places}
  /\ UNCHANGED <<http, user, intercepted, forwarded, posted, response, merging>>

\* The body is read, and parses or not.
Parse ==
  /\ pc = "body"
  /\ \/ /\ http.parses
        /\ pc' = IF http.batch THEN "batch" ELSE "single"
        /\ running' = Places
        /\ UNCHANGED response
     \/ ~http.parses /\ Respond(500, <<>>) /\ UNCHANGED running
  /\ UNCHANGED <<http, user, intercepted, forwarded, posted, merging>>

\* Where calls are forwarded to.
Path == IF OverrideOf[user] = NoPath THEN http.path ELSE OverrideOf[user]

\* Slip: allowed_calls is not looked at.
InterceptAllowingAll(u, call) ==
  IF u \in FetchBlocks /\ call.params = "servable" THEN {"result", "error"} ELSE {"none"}

\* What becomes of a call, as `User::intercept` returns it: InterceptKinds, or a refusal.
Intercept(u, call) ==
  CASE call.method \notin AllowedOf[u] -> {"refused"}
    [] call.method \in AllowedOf[u] /\ u \in FetchBlocks /\ call.method = "getblock" ->
         InterceptGetBlock(call)
    [] call.method \in AllowedOf[u] /\ u \in FetchBlocks /\ call.method = "getrawtransaction" ->
         InterceptRawTransaction(call)
    [] OTHER -> {"none"}

ByProxy(i) == [of |-> i, by |-> "proxy"]
ByBitcoind(i) == [of |-> i, by |-> "bitcoind"]

\* `into_response_to`: the HTTP status of a single call the proxy answers.
StatusOf(outcome, call) ==
  CASE outcome = "refused" -> 403
    [] outcome # "refused" /\ call.version = "note" -> 204
    [] outcome \in {"error", "broken"} /\ call.version = "v1" -> 500
    [] OTHER -> 200

\* A single call is answered, or is to be forwarded as it is.
EndSingle ==
  /\ pc = "single" /\ running # {}
  /\ \E outcome \in Intercept(user, http.calls[1]) \ {"panic"} :
       \/ /\ outcome = "none"
          /\ forwarded' = <<1>>
          /\ pc' = "auth"
          /\ UNCHANGED response
       \/ /\ outcome # "none"
          /\ LET status == StatusOf(outcome, http.calls[1])
             IN Respond(status, IF status = 204 THEN <<>> ELSE <<ByProxy(1)>>)
          /\ UNCHANGED forwarded
  /\ running' = {}
  /\ UNCHANGED <<http, user, intercepted, posted, merging>>

\* Slip: nothing that becomes of a notification is reported.
ReportedUnlessNotification(i, outcome) == outcome # "none" /\ ~IsNotification(i)

\* `Some(Ok(_)) if req.is_notification() => ()`.
Reported(i, outcome) ==
  \/ outcome \in {"refused", "broken"}
  \/ outcome \in {"result", "error"} /\ ~IsNotification(i)

\* The interception of the i-th call of a batch ends.
EndCall(i) ==
  /\ pc = "batch" /\ i \in running
  /\ \E outcome \in Intercept(user, http.calls[i]) \ {"panic"} :
       /\ forwarded' = IF outcome = "none" THEN Append(forwarded, i) ELSE forwarded
       /\ intercepted' = IF Reported(i, outcome)
                         THEN Append(intercepted, [of |-> i, outcome |-> outcome])
                         ELSE intercepted
  /\ running' = running \ {i}
  /\ UNCHANGED <<http, pc, user, posted, response, merging>>

\* The task panics and hyper closes the connection.
Panic(i) ==
  /\ i \in running
  /\ "panic" \in Intercept(user, http.calls[i])
  /\ pc' = "closed"
  /\ running' = running \ {i}
  /\ UNCHANGED <<http, user, intercepted, forwarded, posted, response, merging>>

ErrorsAt == {k \in DOMAIN intercepted : intercepted[k].outcome \in {"refused", "broken"}}
ErrorStatus(outcome) == IF outcome = "refused" THEN 403 ELSE 500
Post == [path |-> Path, places |-> forwarded]

\* `try_join!` when an interception has failed.  `send_batch` is polled first, and
\* once: it may have got as far as handing the POST to a pooled connection, or may
\* fail itself; then `try_collect` ends the batch.
JoinFailed ==
  /\ pc = "batch" /\ running = {}
  /\ posted' \in {NotPosted, Post}
  /\ \E k \in ErrorsAt :
       /\ \A j \in ErrorsAt : k <= j
       /\ \/ Respond(ErrorStatus(intercepted[k].outcome), <<>>)
          \/ posted' = NotPosted /\ Respond(500, <<>>)
  /\ UNCHANGED <<http, user, running, intercepted, forwarded, merging>>

Join ==
  /\ pc = "batch" /\ running = {} /\ ErrorsAt = {}
  /\ pc' = "auth"
  /\ UNCHANGED <<http, user, running, intercepted, forwarded, posted, response, merging>>

\* `try_load`.  A failure is a 500 for a batch; for a single call it is the error of
\* the whole request, for which hyper closes the connection.  Loaded, the POST goes.
LoadAuth ==
  /\ pc = "auth"
  /\ \/ pc' = "reply" /\ posted' = Post /\ UNCHANGED response
     \/ http.batch /\ Respond(500, <<>>) /\ UNCHANGED posted
     \/ ~http.batch /\ pc' = "closed" /\ UNCHANGED <<posted, response>>
  /\ UNCHANGED <<http, user, running, intercepted, forwarded, merging>>

\* The elements of a finite set in an order, which is given as a set of pairs.
InOrder(S, before) ==
  CHOOSE f \in [1 .. Cardinality(S) -> S] :
    \A j, k \in DOMAIN f : j < k => <<f[j], f[k]>> \in before

\* `filter(|(_, req)| !req.is_notification())`.
Answerable(places) ==
  LET kept == {k \in DOMAIN places : ~IsNotification(places[k])}
      at == InOrder(kept, {jk \in kept \X kept : jk[1] < jk[2]})
  IN [k \in DOMAIN at |-> places[at[k]]]

\* bitcoind's replies: in the order of the POST, and none to a notification.
BitcoindReplies ==
  LET answered == Answerable(posted.places)
  IN [k \in DOMAIN answered |-> ByBitcoind(answered[k])]

\* Slip: bitcoind is taken to answer notifications too.
AnsweredAll == posted.places

\* The places bitcoind's replies are paired with.
Answered == Answerable(posted.places)

\* `zip`.
Paired ==
  LET n == IF Len(Answered) < Len(BitcoindReplies) THEN Len(Answered) ELSE Len(BitcoindReplies)
  IN [k \in 1 .. n |-> [place |-> Answered[k], reply |-> BitcoindReplies[k]]]

OwnReplies ==
  [k \in DOMAIN intercepted |->
     [place |-> intercepted[k].of, reply |-> ByProxy(intercepted[k].of)]]

\* Slip: the lists are merged as they come.
Unsorted(s) == s

\* `sort_by_key`, which is stable.
Sorted(s) ==
  LET before == {jk \in (DOMAIN s) \X (DOMAIN s) :
                   \/ s[jk[1]].place < s[jk[2]].place
                   \/ s[jk[1]].place = s[jk[2]].place /\ jk[1] < jk[2]}
      at == InOrder(DOMAIN s, before)
  IN [k \in DOMAIN at |-> s[at[k]]]

\* bitcoind answers a batch.  From here to the response nothing is awaited: both lists
\* are put in request order (Left, Right) and merged, and nothing else can come between.
ReplyBatch ==
  /\ pc = "reply" /\ http.batch
  /\ pc' = "merging"
  /\ UNCHANGED <<http, user, running, intercepted, forwarded, posted, merging, response>>

Left == Sorted(Paired)
Right == Sorted(OwnReplies)

\* `merge_by`: one reply is taken from the left, or from the right, as `a < b` says, or
\* from the list that is left.
TakeLeft ==
  /\ pc = "merging" /\ taken.bitcoind < Len(Left)
  /\ taken.proxy < Len(Right) => Left[taken.bitcoind + 1].place < Right[taken.proxy + 1].place
  /\ merged' = Append(merged, Left[taken.bitcoind + 1].reply)
  /\ taken' = [taken EXCEPT !.bitcoind = @ + 1]
  /\ UNCHANGED <<http, pc, user, running, intercepted, forwarded, posted, response>>

TakeRight ==
  /\ pc = "merging" /\ taken.proxy < Len(Right)
  /\ taken.bitcoind < Len(Left) => ~(Left[taken.bitcoind + 1].place < Right[taken.proxy + 1].place)
  /\ merged' = Append(merged, Right[taken.proxy + 1].reply)
  /\ taken' = [taken EXCEPT !.proxy = @ + 1]
  /\ UNCHANGED <<http, pc, user, running, intercepted, forwarded, posted, response>>

\* Both lists are used up: `collect`, and the answer.
RespondMerged ==
  /\ pc = "merging" /\ taken = [bitcoind |-> Len(Left), proxy |-> Len(Right)]
  /\ Respond(IF merged = <<>> /\ http.calls # <<>> THEN 204 ELSE 200, merged)
  /\ UNCHANGED <<http, user, running, intercepted, forwarded, posted, merging>>

\* bitcoind answers a single call, with success, a failed 1.x call or a refused header;
\* its answer is passed on as it is.
ReplySingle ==
  /\ pc = "reply" /\ ~http.batch
  /\ \/ Respond(IF IsNotification(1) THEN 204 ELSE 200, BitcoindReplies)
     \/ http.calls[1].version = "v1" /\ Respond(500, BitcoindReplies)
     \/ Respond(401, <<>>)
  /\ UNCHANGED <<http, user, running, intercepted, forwarded, posted, merging>>

\* The POST fails, or what comes back is no array of replies.
ReplyFails ==
  /\ pc = "reply"
  /\ \/ http.batch /\ Respond(500, <<>>)
     \/ ~http.batch /\ pc' = "closed" /\ UNCHANGED response
  /\ UNCHANGED <<http, user, running, intercepted, forwarded, posted, merging>>

\* The client goes away, or its body cannot be read: the task is dropped where it waits.
Disconnect ==
  /\ pc \in {"body", "single", "batch", "auth", "reply"}
  /\ pc' = "closed"
  /\ UNCHANGED <<http, user, running, intercepted, forwarded, posted, response, merging>>

Ended ==
  /\ pc \in {"responded", "closed"}
  /\ UNCHANGED vars

Next ==
  \/ TurnAway \/ ComparePanics \/ Authenticate \/ Parse \/ EndSingle
  \/ \E i \in Places : EndCall(i) \/ Panic(i)
  \/ JoinFailed \/ Join \/ LoadAuth \/ ReplyBatch \/ TakeLeft \/ TakeRight
  \/ RespondMerged \/ ReplySingle \/ ReplyFails
  \/ Disconnect \/ Ended

Spec == Init /\ [][Next]_vars

-----------------------------------------------------------------------------

Replies == [of : 1 .. MaxBatch + 1, by : {"proxy", "bitcoind"}]

TypeOK ==
  /\ pc \in {"arrived", "body", "single", "batch", "auth", "reply", "merging", "responded",
            "closed"}
  /\ user \in Users \cup {NoUser}
  /\ running \subseteq Places
  /\ intercepted \in Seq([of : Places, outcome : {"result", "error", "refused", "broken"}])
  /\ forwarded \in Seq(Places)
  /\ posted.places \in Seq(Places)
  /\ taken \in [bitcoind : Nat, proxy : Nat]
  /\ merged \in Seq(Replies)
  /\ response.status \in {0, 200, 204, 401, 403, 404, 405, 500}
  /\ response.body \in Seq(Replies)

\* Whatever reaches bitcoind on a client's behalf was authenticated, is a call its user
\* may make and the proxy does not answer, goes to the user's own wallet path, and goes
\* there once: also in a batch that is refused, whose POST may already be out.
OnlyAllowedIsForwarded ==
  posted # NotPosted =>
    /\ UserOf(http.auth) = user /\ user # NoUser
    /\ posted.path = Path
    /\ \A j, k \in DOMAIN posted.places : posted.places[j] = posted.places[k] => j = k
    /\ \A k \in DOMAIN posted.places :
         LET call == http.calls[posted.places[k]]
         IN /\ call.method \in AllowedOf[user]
            /\ ~(/\ user \in FetchBlocks /\ call.params = "servable"
                 /\ call.method \in {"getblock", "getrawtransaction"})

\* A request with a call its user may not make is answered with an error and with no
\* call's reply, a notification's no less than another's, and whatever order the calls
\* of its batch end in.
RefusalFailsAll ==
  pc = "responded" /\ user # NoUser /\ http.parses
  /\ (\E i \in Places : http.calls[i].method \notin AllowedOf[user])
    => response.status >= 400 /\ \A k \in DOMAIN response.body : response.body[k].by = "proxy"

\* A batch that succeeds is answered with one reply to each call that is no
\* notification, in request order, from bitcoind if the call went there and else from
\* the proxy; with 204 if there is no such call.
BatchRepliesMatch ==
  LET body == response.body
      expected == {i \in Places : ~IsNotification(i)}
  IN pc = "responded" /\ http.batch /\ response.status < 400 =>
       /\ response.status = IF expected = {} /\ Places # {} THEN 204 ELSE 200
       /\ {body[k].of : k \in DOMAIN body} = expected
       /\ \A j, k \in DOMAIN body : j < k => body[j].of < body[k].of
       /\ \A k \in DOMAIN body :
            body[k] = IF body[k].of \in ToSet(posted.places)
                      THEN ByBitcoind(body[k].of) ELSE ByProxy(body[k].of)

=============================================================================
