------------------------------ MODULE StartUp ------------------------------
(***************************************************************************)
(* `create_state` (src/src/create_state.rs): from the configuration to the *)
(* state that the requests share, or to an error.                          *)
(*                                                                         *)
(* A setting that is not given is Unset.  A file is Unreadable or what is  *)
(* in it: for bitcoin.conf the lines, of which the rpcauth lines name a    *)
(* user and have a hash that is hexadecimal or not; for the cookie the     *)
(* name in it, which is all start-up takes from it.                        *)
(***************************************************************************)
EXTENDS Naturals, Sequences

CONSTANTS
  Configs,    \* configurations
  Settings,   \* what may be configured of a user
  Lines,      \* lines of bitcoin.conf
  MiB,        \* bytes in a mebibyte
  UsizeMax,   \* the largest usize
  Unset, Unreadable

ASSUME StartUpAssumption == MiB \in Nat \ {0} /\ UsizeMax \in Nat /\ Unset # Unreadable

ASSUME ConfigAssumption ==
  /\ \A s \in Settings : DOMAIN s = {"password", "allowed", "fetch", "wallet"}
  /\ \A c \in Configs :
       /\ c.users \in [DOMAIN c.users -> Settings]
       /\ c.rpcauth \in Seq(Lines) \cup {Unset, Unreadable}
       /\ c.cache_mib \in 0 .. UsizeMax

VARIABLES
  config,    \* the configuration
  pc,        \* "auth", "uri", "bind", "rpcauth", "cookie", "build", "serving" or "failed"
  auth,      \* the AuthSource
  bind,      \* where to listen
  users,     \* the map of users, by name
  line,      \* lines of bitcoin.conf read so far
  capacity   \* the bound of the block cache

vars == <<config, pc, auth, bind, users, line, capacity>>

-----------------------------------------------------------------------------

Init ==
  /\ config \in Configs
  /\ pc = "auth"
  /\ auth = Unset
  /\ bind = Unset
  /\ users = config.users
  /\ line = 0
  /\ capacity = 0

Fail == pc' = "failed" /\ UNCHANGED <<auth, bind, users, line, capacity>>

\* AuthSource::from_config: a user with a password, or a cookie, and no mixture.
FromConfig ==
  /\ pc = "auth"
  /\ UNCHANGED config
  /\ IF config.auth \in {{"user", "password"}, {"cookie"}}
     THEN /\ auth' = IF config.auth = {"cookie"} THEN "CookieFile" ELSE "Const"
          /\ pc' = "uri"
          /\ UNCHANGED <<bind, users, line, capacity>>
     ELSE Fail

\* The address and the port of bitcoind make a URI, or do not.
ParseUri ==
  /\ pc = "uri"
  /\ UNCHANGED config
  /\ \/ pc' = "bind" /\ UNCHANGED <<auth, bind, users, line, capacity>>
     \/ Fail

\* Where to listen: an address and a port, with defaults, or a systemd socket.
Bind ==
  /\ pc = "bind"
  /\ UNCHANGED config
  /\ \/ /\ config.socket = Unset
        /\ bind' = <<config.address, config.port>>
        /\ pc' = "rpcauth"
        /\ UNCHANGED <<auth, users, line, capacity>>
     \/ /\ config.socket \notin {Unset, "malformed"} /\ config.address = Unset /\ config.port = Unset
        /\ bind' = config.socket
        /\ pc' = "rpcauth"
        /\ UNCHANGED <<auth, users, line, capacity>>
     \/ /\ config.socket # Unset
        /\ config.address # Unset \/ config.port # Unset \/ config.socket = "malformed"
        /\ Fail

\* A user that is passed through to bitcoind: no restriction and no setting of its own.
Passthrough(password) ==
  [password |-> password, allowed |-> Unset, fetch |-> Unset, wallet |-> Unset]

\* Slip: `entry(..).or_insert`.
AddUnlessPresent(name, user) ==
  IF name \in DOMAIN users THEN users ELSE [n \in DOMAIN users \cup {name} |-> IF n = name THEN user ELSE users[n]]

\* `users.insert`.
With(name, user) == [n \in DOMAIN users \cup {name} |-> IF n = name THEN user ELSE users[n]]

\* The lines of bitcoin.conf, if it is to be read.
ConfLines == IF config.rpcauth \in {Unset, Unreadable} THEN <<>> ELSE config.rpcauth

\* `passthrough_rpcauth`: one line of the file, or its end.
RpcAuth ==
  /\ pc = "rpcauth"
  /\ UNCHANGED config
  /\ \/ config.rpcauth = Unreadable /\ Fail
     \/ /\ config.rpcauth # Unreadable /\ line = Len(ConfLines)
        /\ pc' = "cookie"
        /\ UNCHANGED <<auth, bind, users, line, capacity>>
     \/ /\ line < Len(ConfLines)
        /\ LET l == ConfLines[line + 1]
           IN IF l.name # Unset /\ ~l.hex THEN Fail
              ELSE /\ users' = IF l.name = Unset THEN users ELSE With(l.name, Passthrough("Hash"))
                   /\ line' = line + 1
                   /\ UNCHANGED <<pc, auth, bind, capacity>>

\* `passthrough_rpccookie`: the node must be up, and the user is the name in the cookie.
RpcCookie ==
  /\ pc = "cookie"
  /\ UNCHANGED config
  /\ \/ config.rpccookie = Unreadable /\ Fail
     \/ /\ config.rpccookie # Unreadable
        /\ users' = IF config.rpccookie = Unset THEN users
                    ELSE With(config.rpccookie, Passthrough("CookieFile"))
        /\ pc' = "build"
        /\ UNCHANGED <<auth, bind, line, capacity>>

\* Slip: a user's setting can only add to the switch.
EitherAllows(own, default) == own = TRUE \/ default

\* `fetch_blocks.unwrap_or(default_fetch_blocks)`.
FetchBlocks(own, default) == IF own = Unset THEN default ELSE own

\* Slip: `wrapping_mul`.
WrappingMul(n) == (n * MiB) % (UsizeMax + 1)

\* `saturating_mul(1024 * 1024)`.
SaturatingMul(n) == IF n * MiB > UsizeMax THEN UsizeMax ELSE n * MiB

\* `map_default` and the rest of the state.
Build ==
  /\ pc = "build"
  /\ users' = [n \in DOMAIN users |->
                 [users[n] EXCEPT !.fetch = FetchBlocks(users[n].fetch, config.default_fetch),
                                  !.wallet = IF @ = Unset THEN Unset ELSE <<"/wallet/", @>>]]
  /\ capacity' = SaturatingMul(config.cache_mib)
  /\ pc' = "serving"
  /\ UNCHANGED <<config, auth, bind, line>>

Next == FromConfig \/ ParseUri \/ Bind \/ RpcAuth \/ RpcCookie \/ Build

Spec == Init /\ [][Next]_vars

-----------------------------------------------------------------------------

\* The names that are passed through, and from where.
ByCookie == {config.rpccookie} \ {Unset, Unreadable}
ByRpcAuth == {ConfLines[i].name : i \in DOMAIN ConfLines} \ {Unset}

\* A user for whom fetching is configured neither way.
Silent(n) == n \in DOMAIN config.users => config.users[n].fetch = Unset

\* Once it serves, the proxy knows a user by the last source that names it, with that
\* source's password and permissions: a name of the cookie or of bitcoin.conf is not
\* restricted to calls or a wallet, and its configured password is not good any more.
\* The switch for fetching governs every user that does not say otherwise, those of the
\* cookie and of bitcoin.conf included; one who does and is named again is left to
\* FalseIsRespected.
LastSourceWins ==
  pc = "serving" =>
    /\ DOMAIN users = DOMAIN config.users \cup ByRpcAuth \cup ByCookie
    /\ \A n \in ByCookie \cup ByRpcAuth :
         /\ users[n].password = IF n \in ByCookie THEN "CookieFile" ELSE "Hash"
         /\ users[n].allowed = Unset /\ users[n].wallet = Unset
         /\ Silent(n) => users[n].fetch = config.default_fetch
    /\ \A n \in DOMAIN config.users \ (ByCookie \cup ByRpcAuth) :
         LET u == config.users[n]
         IN /\ <<users[n].password, users[n].allowed>> = <<u.password, u.allowed>>
            /\ users[n].fetch = IF u.fetch # Unset THEN u.fetch ELSE config.default_fetch
            /\ users[n].wallet = IF u.wallet = Unset THEN Unset ELSE <<"/wallet/", u.wallet>>

\* config_spec.toml of default_fetch_blocks: "for all users that do NOT specify
\* fetch_blocks = false".  So one that specifies it does not fetch, whichever other
\* source of users names it too.
FalseIsRespected ==
  pc = "serving" =>
    \A n \in DOMAIN config.users : config.users[n].fetch = FALSE => users[n].fetch = FALSE

\* A larger setting never gives a smaller cache, and only zero turns it off.
CacheGrowsWithSetting ==
  pc = "serving" =>
    /\ (capacity = 0 <=> config.cache_mib = 0)
    /\ capacity >= config.cache_mib
    /\ capacity < config.cache_mib * MiB => capacity = UsizeMax

=============================================================================
