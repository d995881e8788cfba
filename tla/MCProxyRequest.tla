--------------------------- MODULE MCProxyRequest ---------------------------
(* Values for ProxyRequest: a user that may do all, one that may call getblock *)
(* only, into a wallet of its own, and one without fetch_blocks.               *)
EXTENDS ProxyRequest

Call(m, p, v) == [method |-> m, params |-> p, version |-> v]

MCCalls ==
  {Call("getblock", "servable", "v1"), Call("getblock", "servable", "note"),
   Call("getblock", "bad hash", "v2"), Call("getblock", "no hash", "v1"),
   Call("getrawtransaction", "servable", "v2"),
   Call("send", "other", "v2"), Call("send", "other", "note")}

MCPasswordOf == [u \in Users |-> "secret"]
MCAllowedOf ==
  [u \in Users |-> IF u = "limited" THEN {"getblock"}
                   ELSE {"getblock", "getrawtransaction", "send"}]
MCOverrideOf == [u \in Users |-> IF u = "limited" THEN "/wallet/mine" ELSE NoPath]
MCAuths ==
  {NoAuth, <<"nobody", "secret">>, <<"limited", "guess">>, <<"all", Blank>>, <<"plain", Blank>>}
    \cup (Users \X {"secret"})

=============================================================================
