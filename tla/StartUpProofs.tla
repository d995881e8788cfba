--------------------------- MODULE StartUpProofs ---------------------------
(***************************************************************************)
(* StartUp, for any configuration, any lines of bitcoin.conf and any       *)
(* cookie: the users that are served are those of the last source that     *)
(* names them, and the cache is as large as it is set, as far as a usize   *)
(* goes.                                                                   *)
(***************************************************************************)
EXTENDS StartUp, TLAPS

\* The names in the first k lines.
NamedIn(k) == {ConfLines[i].name : i \in 1 .. k} \ {Unset}

\* The users when the names R have been taken from bitcoin.conf and C from the cookie.
Known(R, C) ==
  /\ DOMAIN users = DOMAIN config.users \cup R \cup C
  /\ \A n \in C : users[n] = Passthrough("CookieFile")
  /\ \A n \in R \ C : users[n] = Passthrough("Hash")
  /\ \A n \in DOMAIN config.users \ (R \cup C) : users[n] = config.users[n]

IInv ==
  /\ config \in Configs
  /\ pc \in {"auth", "uri", "bind"} => line = 0 /\ Known({}, {})
  /\ pc = "rpcauth" => line \in 0 .. Len(ConfLines) /\ Known(NamedIn(line), {})
  /\ pc = "cookie" => Known(ByRpcAuth, {})
  /\ pc = "build" => Known(ByRpcAuth, ByCookie)
  /\ LastSourceWins
  /\ CacheGrowsWithSetting

-----------------------------------------------------------------------------

\* The lines that are read form a sequence.
LEMMA ConfLinesType ==
  ASSUME config \in Configs
  PROVE  ConfLines \in Seq(Lines)
<1>1. config.rpcauth \in Seq(Lines) \cup {Unset, Unreadable}
  BY ConfigAssumption
<1>2. <<>> \in Seq(Lines)
  OBVIOUS
<1> QED
  BY <1>1, <1>2 DEF ConfLines

LEMMA InitIInv == Init => IInv
BY DEF Init, IInv, Known, LastSourceWins, CacheGrowsWithSetting

\* A line that names a user.
LEMMA RpcAuthIInv ==
  ASSUME IInv, RpcAuth
  PROVE  IInv'
<1>1. pc = "rpcauth" /\ config' = config /\ config \in Configs
      /\ line \in 0 .. Len(ConfLines) /\ Known(NamedIn(line), {})
  BY DEF IInv, RpcAuth
<1>2. ConfLines \in Seq(Lines) /\ Len(ConfLines) \in Nat /\ DOMAIN ConfLines = 1 .. Len(ConfLines)
  BY <1>1, ConfLinesType
<1>3. ConfLines' = ConfLines /\ ByRpcAuth' = ByRpcAuth
  BY <1>1 DEF ConfLines, ByRpcAuth
<1>4. CASE Fail
  BY <1>1, <1>4 DEF IInv, Fail, LastSourceWins, CacheGrowsWithSetting
<1>5. CASE /\ line = Len(ConfLines) /\ pc' = "cookie"
           /\ UNCHANGED <<auth, bind, users, line, capacity>>
  <2>1. NamedIn(line) = ByRpcAuth
    BY <1>2, <1>5 DEF NamedIn, ByRpcAuth
  <2>2. Known(ByRpcAuth, {})'
    BY <1>1, <1>3, <1>5, <2>1 DEF Known, Passthrough
  <2> QED
    BY <1>1, <1>5, <2>2 DEF IInv, LastSourceWins, CacheGrowsWithSetting
<1>6. CASE /\ line < Len(ConfLines)
           /\ LET l == ConfLines[line + 1]
              IN /\ users' = IF l.name = Unset THEN users ELSE With(l.name, Passthrough("Hash"))
                 /\ line' = line + 1
                 /\ UNCHANGED <<pc, auth, bind, capacity>>
  <2> DEFINE name == ConfLines[line + 1].name
  <2>1. /\ line' = line + 1 /\ pc' = pc /\ line' \in 0 .. Len(ConfLines)
        /\ users' = IF name = Unset THEN users ELSE With(name, Passthrough("Hash"))
    BY <1>1, <1>2, <1>6
  <2>2. NamedIn(line + 1) = NamedIn(line) \cup ({name} \ {Unset})
    <3>1. 1 .. line + 1 = (1 .. line) \cup {line + 1}
      BY <1>1, <1>2
    <3> QED
      BY <3>1 DEF NamedIn
  <2>3. NamedIn(line)' = NamedIn(line + 1)
    BY <1>3, <2>1 DEF NamedIn
  <2> HIDE DEF name
  <2>4. Known(NamedIn(line), {})'
    <3>1. CASE name = Unset
      BY <1>1, <2>1, <2>2, <2>3, <3>1 DEF Known, Passthrough
    <3>2. CASE name # Unset
      <4>1. users' = With(name, Passthrough("Hash"))
        BY <2>1, <3>2
      <4>2. /\ DOMAIN users' = DOMAIN users \cup {name}
            /\ users'[name] = Passthrough("Hash")
            /\ \A n \in DOMAIN users \ {name} : users'[n] = users[n]
        BY <4>1 DEF With
      <4>3. NamedIn(line)' = NamedIn(line) \cup {name}
        BY <2>2, <2>3, <3>2
      <4>4. DOMAIN users' = DOMAIN config.users \cup NamedIn(line)'
        BY <1>1, <4>2, <4>3 DEF Known
      <4>5. \A n \in NamedIn(line)' : users'[n] = Passthrough("Hash")
        BY <1>1, <4>2, <4>3 DEF Known
      <4>6. \A n \in DOMAIN config.users \ NamedIn(line)' : users'[n] = config.users[n]
        BY <1>1, <4>2, <4>3 DEF Known
      <4> QED
        BY <1>1, <4>4, <4>5, <4>6 DEF Known, Passthrough
    <3> QED
      BY <3>1, <3>2
  <2> QED
    BY <1>1, <1>3, <2>1, <2>4 DEF IInv, LastSourceWins, CacheGrowsWithSetting
<1> QED
  BY <1>4, <1>5, <1>6 DEF RpcAuth

LEMMA RpcCookieIInv ==
  ASSUME IInv, RpcCookie
  PROVE  IInv'
<1>1. pc = "cookie" /\ config' = config /\ config \in Configs /\ Known(ByRpcAuth, {})
  BY DEF IInv, RpcCookie
<1>2. ConfLines' = ConfLines /\ ByRpcAuth' = ByRpcAuth /\ ByCookie' = ByCookie
  BY <1>1 DEF ConfLines, ByRpcAuth, ByCookie
<1>3. CASE Fail
  BY <1>1, <1>3 DEF IInv, Fail, LastSourceWins, CacheGrowsWithSetting
<1>4. CASE /\ config.rpccookie # Unreadable
           /\ users' = IF config.rpccookie = Unset THEN users
                       ELSE With(config.rpccookie, Passthrough("CookieFile"))
           /\ pc' = "build"
           /\ UNCHANGED <<auth, bind, line, capacity>>
  <2>1. Known(ByRpcAuth, ByCookie)'
    <3>1. CASE config.rpccookie = Unset
      <4>1. ByCookie = {} /\ users' = users
        BY <1>4, <3>1 DEF ByCookie
      <4> QED
        BY <1>1, <1>2, <4>1 DEF Known, Passthrough
    <3>2. CASE config.rpccookie # Unset
      <4> DEFINE name == config.rpccookie
      <4>1. ByCookie = {name} /\ users' = With(name, Passthrough("CookieFile"))
        BY <1>4, <3>2 DEF ByCookie
      <4> HIDE DEF name
      <4>2. /\ DOMAIN users' = DOMAIN users \cup {name}
            /\ users'[name] = Passthrough("CookieFile")
            /\ \A n \in DOMAIN users \ {name} : users'[n] = users[n]
        BY <4>1 DEF With
      <4>3. DOMAIN users' = DOMAIN config.users \cup ByRpcAuth \cup ByCookie
        BY <1>1, <4>1, <4>2 DEF Known
      <4>4. \A n \in ByRpcAuth \ ByCookie : users'[n] = Passthrough("Hash")
        BY <1>1, <4>1, <4>2 DEF Known
      <4>5. \A n \in DOMAIN config.users \ (ByRpcAuth \cup ByCookie) : users'[n] = config.users[n]
        BY <1>1, <4>1, <4>2 DEF Known
      <4> QED
        BY <1>1, <1>2, <4>1, <4>2, <4>3, <4>4, <4>5 DEF Known, Passthrough
    <3> QED
      BY <3>1, <3>2
  <2> QED
    BY <1>1, <1>4, <2>1 DEF IInv, LastSourceWins, CacheGrowsWithSetting
<1> QED
  BY <1>3, <1>4 DEF RpcCookie

\* The capacity of the cache.
LEMMA SaturatingMulFacts ==
  ASSUME NEW n \in 0 .. UsizeMax
  PROVE  LET c == SaturatingMul(n)
         IN (c = 0 <=> n = 0) /\ c >= n /\ (c < n * MiB => c = UsizeMax)
<1>1. MiB \in Nat /\ MiB >= 1 /\ UsizeMax \in Nat
  BY StartUpAssumption
<1>2. n * MiB \in Nat /\ n * MiB >= n
  BY <1>1
<1> QED
  BY <1>1, <1>2 DEF SaturatingMul

LEMMA BuildIInv ==
  ASSUME IInv, Build
  PROVE  IInv'
<1>1. /\ pc = "build" /\ config' = config /\ config \in Configs /\ Known(ByRpcAuth, ByCookie)
      /\ pc' = "serving" /\ capacity' = SaturatingMul(config.cache_mib)
  BY DEF IInv, Build
<1>2. ConfLines' = ConfLines /\ ByRpcAuth' = ByRpcAuth /\ ByCookie' = ByCookie
  BY <1>1 DEF ConfLines, ByRpcAuth, ByCookie
<1> DEFINE Final(u) == [u EXCEPT !.fetch = FetchBlocks(u.fetch, config.default_fetch),
                                 !.wallet = IF @ = Unset THEN Unset ELSE <<"/wallet/", @>>]
<1>3. users' = [n \in DOMAIN users |-> Final(users[n])]
  BY DEF Build
<1>4. \A p : Final(Passthrough(p)) = [Passthrough(p) EXCEPT !.fetch = config.default_fetch]
  BY DEF Passthrough, FetchBlocks
<1>5. ASSUME NEW u \in Settings
      PROVE  /\ Final(u).password = u.password /\ Final(u).allowed = u.allowed
             /\ Final(u).fetch = IF u.fetch # Unset THEN u.fetch ELSE config.default_fetch
             /\ Final(u).wallet = IF u.wallet = Unset THEN Unset ELSE <<"/wallet/", u.wallet>>
  <2>1. DOMAIN u = {"password", "allowed", "fetch", "wallet"}
    BY ConfigAssumption
  <2> QED
    BY <2>1 DEF FetchBlocks
<1> HIDE DEF Final
<1>6. DOMAIN users' = DOMAIN config.users \cup ByRpcAuth \cup ByCookie
  BY <1>1, <1>3 DEF Known
<1>7. \A n \in ByCookie \cup ByRpcAuth :
        users'[n] = [Passthrough(IF n \in ByCookie THEN "CookieFile" ELSE "Hash")
                       EXCEPT !.fetch = config.default_fetch]
  <2> TAKE n \in ByCookie \cup ByRpcAuth
  <2>1. users[n] = Passthrough(IF n \in ByCookie THEN "CookieFile" ELSE "Hash") /\ n \in DOMAIN users
    BY <1>1 DEF Known
  <2>2. users'[n] = Final(users[n])
    BY <1>3, <2>1
  <2> QED
    BY <1>4, <2>1, <2>2
<1>8. ASSUME NEW n \in DOMAIN config.users \ (ByCookie \cup ByRpcAuth)
      PROVE  LET u == config.users[n]
             IN /\ <<users'[n].password, users'[n].allowed>> = <<u.password, u.allowed>>
                /\ users'[n].fetch = IF u.fetch # Unset THEN u.fetch ELSE config.default_fetch
                /\ users'[n].wallet = IF u.wallet = Unset THEN Unset ELSE <<"/wallet/", u.wallet>>
  <2>1. config.users[n] \in Settings
    BY <1>1, ConfigAssumption
  <2>2. users'[n] = Final(config.users[n])
    BY <1>1, <1>3 DEF Known
  <2> QED
    BY <1>5, <2>1, <2>2
<1>11. ASSUME NEW n \in ByCookie \cup ByRpcAuth
       PROVE  /\ users'[n].password = IF n \in ByCookie THEN "CookieFile" ELSE "Hash"
              /\ users'[n].allowed = Unset /\ users'[n].wallet = Unset
              /\ users'[n].fetch = config.default_fetch
  BY <1>7 DEF Passthrough
<1>9. LastSourceWins'
  BY <1>1, <1>2, <1>6, <1>8, <1>11 DEF LastSourceWins
<1>10. CacheGrowsWithSetting'
  <2>1. config.cache_mib \in 0 .. UsizeMax
    BY <1>1, ConfigAssumption
  <2> QED
    BY <1>1, <2>1, SaturatingMulFacts DEF CacheGrowsWithSetting
<1> QED
  BY <1>1, <1>9, <1>10 DEF IInv

LEMMA NextIInv == IInv /\ [Next]_vars => IInv'
<1> SUFFICES ASSUME IInv, [Next]_vars PROVE IInv'
  OBVIOUS
<1>1. CASE FromConfig \/ ParseUri \/ Bind
  <2>1. /\ pc \in {"auth", "uri", "bind"} /\ config' = config /\ users' = users /\ line' = line
        /\ pc' \in {"uri", "bind", "rpcauth", "failed"}
    BY <1>1 DEF FromConfig, ParseUri, Bind, Fail
  <2>2. line = 0 /\ Known({}, {}) /\ config \in Configs
    BY <2>1 DEF IInv
  <2>3. Known({}, {})'
    BY <2>1, <2>2 DEF Known, Passthrough
  <2>4. NamedIn(0) = {} /\ NamedIn(line)' = {}
    <3>1. 1 .. 0 = {} /\ line' = 0
      BY <2>1, <2>2
    <3> QED
      BY <3>1 DEF NamedIn
  <2>5. line' \in 0 .. Len(ConfLines')
    <3>1. ConfLines' = ConfLines /\ Len(ConfLines) \in Nat
      BY <2>1, <2>2, ConfLinesType DEF ConfLines
    <3> QED
      BY <2>1, <2>2, <3>1
  <2>6. Known(NamedIn(line), {})'
    BY <2>3, <2>4 DEF Known
  <2> QED
    BY <2>1, <2>2, <2>3, <2>5, <2>6 DEF IInv, LastSourceWins, CacheGrowsWithSetting
<1>2. CASE RpcAuth
  BY <1>2, RpcAuthIInv
<1>3. CASE RpcCookie
  BY <1>3, RpcCookieIInv
<1>4. CASE Build
  BY <1>4, BuildIInv
<1>5. CASE UNCHANGED vars
  <2>1. UNCHANGED <<config, pc, users, line, capacity>>
    BY <1>5 DEF vars
  <2>2. ConfLines' = ConfLines /\ ByRpcAuth' = ByRpcAuth /\ ByCookie' = ByCookie
        /\ NamedIn(line)' = NamedIn(line)
    BY <2>1 DEF ConfLines, ByRpcAuth, ByCookie, NamedIn
  <2>3. \A R, C : Known(R, C)' <=> Known(R, C)
    BY <2>1 DEF Known, Passthrough
  <2>4. LastSourceWins' /\ CacheGrowsWithSetting'
    BY <2>1, <2>2 DEF IInv, LastSourceWins, Silent, CacheGrowsWithSetting
  <2>5. Known(NamedIn(line), {})' <=> Known(NamedIn(line), {})
    BY <2>1, <2>2 DEF Known, Passthrough
  <2>6. /\ Known(ByRpcAuth, {})' <=> Known(ByRpcAuth, {})
        /\ Known(ByRpcAuth, ByCookie)' <=> Known(ByRpcAuth, ByCookie)
    BY <2>1, <2>2 DEF Known, Passthrough
  <2> QED
    BY <2>1, <2>2, <2>3, <2>4, <2>5, <2>6 DEF IInv
<1> QED
  BY <1>1, <1>2, <1>3, <1>4, <1>5 DEF Next

LEMMA InvariantIInv == Spec => []IInv
BY InitIInv, NextIInv, PTL DEF Spec

-----------------------------------------------------------------------------

\* Whatever is configured, and whatever lines and cookie are found, a user is served with
\* the password and the permissions of the last source that names it.
THEOREM LastSourceServed == Spec => []LastSourceWins
<1>1. IInv => LastSourceWins
  BY DEF IInv
<1> QED
  BY <1>1, InvariantIInv, PTL

\* No setting wraps around to a smaller cache or to none.
THEOREM CacheNeverWraps == Spec => []CacheGrowsWithSetting
<1>1. IInv => CacheGrowsWithSetting
  BY DEF IInv
<1> QED
  BY <1>1, InvariantIInv, PTL

=============================================================================
