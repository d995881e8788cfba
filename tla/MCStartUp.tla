----------------------------- MODULE MCStartUp -----------------------------
(* Configurations that differ from a plain one in one group of settings. *)
EXTENDS StartUp

Plain ==
  [auth |-> {"cookie"}, address |-> Unset, port |-> Unset, socket |-> Unset,
   users |-> [n \in {} |-> 0], rpcauth |-> Unset, rpccookie |-> Unset, default_fetch |-> FALSE,
   cache_mib |-> 2]

MCSettings ==
  {[password |-> "Cleartext", allowed |-> a, fetch |-> f, wallet |-> w] :
     a \in {Unset, "some"}, f \in {Unset, TRUE, FALSE}, w \in {Unset, "mine"}}
MCLines == {[name |-> n, hex |-> x] : n \in {"u1", "u2", Unset}, x \in BOOLEAN}

MCConfigs ==
  {[Plain EXCEPT !.auth = a, !.address = ad, !.port = p, !.socket = s] :
     a \in SUBSET {"user", "password", "cookie"}, ad \in {Unset, "any"}, p \in {Unset, 1},
     s \in {Unset, "malformed", "name"}}
  \cup
  {[Plain EXCEPT !.users = us, !.rpcauth = r, !.rpccookie = c, !.default_fetch = d] :
     us \in UNION {[N -> MCSettings] : N \in SUBSET {"u1"}},
     r \in {Unset, Unreadable} \cup UNION {[1 .. k -> MCLines] : k \in 0 .. 2},
     c \in {Unset, Unreadable, "u1", "u2"}, d \in BOOLEAN}
  \cup
  {[Plain EXCEPT !.cache_mib = m] : m \in 0 .. 9}

=============================================================================
