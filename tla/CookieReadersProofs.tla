------------------------ MODULE CookieReadersProofs ------------------------
(***************************************************************************)
(* The readers of the cookie file, for any number of tasks, threads and    *)
(* restarts and any modification times: `try_load` hands out no replaced   *)
(* cookie, `cookie_password` accepts one only after the race between its   *)
(* read and its second stat, and each kind of reader behaves beside the    *)
(* other as it does alone.                                                 *)
(***************************************************************************)
EXTENDS CookieReaders, TLAPS

-----------------------------------------------------------------------------
(* AuthSource: `try_load`. *)

\* The header of an entry is no older than a cookie its time belongs to: `try_load`
\* stats first and reads second.
NoOlder(m, h) == \E v \in Cookies : Mtime[v] = m /\ v <= h

GoodHeader(e) == e = Nothing \/ (e \in Entries /\ NoOlder(e.mtime, e.header))

TaskInv(t) ==
  /\ GoodHeader(cache[t])
  /\ since[t] <= starts
  /\ pc[t] \in {"stat", "read"} => header[t] = 0
  /\ pc[t] \in {"read", "write"} =>
       \E v \in Cookies : modified[t] = Mtime[v] /\ v <= starts
  /\ pc[t] = "write" => /\ header[t] \in Cookies
                        /\ NoOlder(modified[t], header[t])
                        /\ since[t] <= header[t]
  /\ pc[t] = "done" /\ header[t] # 0 => since[t] <= header[t] \/ Tied(header[t], since[t], starts)

AuthInv == TypeOK /\ GoodHeader(cached) /\ \A t \in Tasks : TaskInv(t)

-----------------------------------------------------------------------------

LEMMA InitAuthInv == Init => AuthInv
<1> SUFFICES ASSUME Init PROVE AuthInv
  OBVIOUS
<1> USE CookieAssumption DEF Init, FileInit
<1>1. 1 \in Cookies
  BY DEF Cookies
<1>2. FileTypeOK
  BY <1>1 DEF FileTypeOK
<1>3. TypeOK
  BY <1>2 DEF TypeOK
<1>4. \A t \in Tasks : TaskInv(t)
  BY DEF TaskInv, GoodHeader
<1> QED
  BY <1>3, <1>4 DEF AuthInv, GoodHeader

LEMMA CopyCacheAuthInv ==
  ASSUME AuthInv, NEW t \in Tasks, CopyCache(t)
  PROVE  AuthInv'
<1> USE CookieAssumption DEF AuthInv, CopyCache
<1>1. TypeOK'
  BY DEF TypeOK, FileTypeOK, fileVars, Cookies
<1>2. TaskInv(t)'
  BY DEF TaskInv, TypeOK, FileTypeOK, fileVars, Cookies
<1>3. \A u \in Tasks : u # t => TaskInv(u)'
  BY DEF TaskInv, TypeOK, fileVars
<1> QED
  BY <1>1, <1>2, <1>3

LEMMA StatAuthInv ==
  ASSUME AuthInv, NEW t \in Tasks, Stat(t)
  PROVE  AuthInv'
<1> USE CookieAssumption DEF AuthInv
<1>0. file' = file /\ starts' = starts /\ cached' = cached /\ cache' = cache
      /\ since' = since /\ pc[t] = "stat"
  BY DEF Stat, Fail, fileVars
<1>1. CASE file = 0
  <2>1. Fail(t)
    BY <1>1 DEF Stat
  <2>2. TypeOK'
    BY <1>0, <2>1 DEF TypeOK, FileTypeOK, Fail
  <2>3. \A u \in Tasks : TaskInv(u)'
    BY <1>0, <2>1 DEF TaskInv, TypeOK, Fail
  <2> QED
    BY <1>0, <2>2, <2>3
<1>2. CASE file # 0 /\ Hit(t)
  <2>1. /\ header' = [header EXCEPT ![t] = cache[t].header]
        /\ pc' = [pc EXCEPT ![t] = "done"] /\ modified' = modified
    BY <1>2 DEF Stat, Fail
  <2>2. file = starts /\ starts \in Cookies
    BY <1>2 DEF TypeOK, FileTypeOK
  <2>3. cache[t] \in Entries /\ NoOlder(cache[t].mtime, cache[t].header)
    BY <1>2 DEF Hit, TaskInv, GoodHeader
  <2>4. cache[t].header \in Cookies
    BY <2>3 DEF Entries
  <2>5. TypeOK'
    BY <1>0, <2>1, <2>4 DEF TypeOK, FileTypeOK, Cookies
  <2>6. Tied(cache[t].header, since[t], starts)
    <3>1. PICK v \in Cookies : Mtime[v] = Mtime[starts] /\ v <= cache[t].header
      BY <1>2, <2>2, <2>3 DEF Hit, NoOlder
    <3>2. since[t] <= starts /\ starts <= starts
      BY <2>2 DEF TaskInv, Cookies
    <3> QED
      BY <2>2, <3>1, <3>2 DEF Tied
  <2>7. TaskInv(t)'
    BY <1>0, <2>1, <2>6 DEF TaskInv, TypeOK
  <2>8. \A u \in Tasks : u # t => TaskInv(u)'
    BY <1>0, <2>1 DEF TaskInv, TypeOK
  <2> QED
    BY <1>0, <2>5, <2>7, <2>8
<1>3. CASE file # 0 /\ ~Hit(t)
  <2>1. /\ modified' = [modified EXCEPT ![t] = Mtime[file]]
        /\ pc' = [pc EXCEPT ![t] = "read"] /\ header' = header
    BY <1>3 DEF Stat, Fail
  <2>2. file = starts /\ starts \in Cookies /\ Mtime[file] \in Nat /\ starts <= starts
    BY <1>3 DEF TypeOK, FileTypeOK, Cookies
  <2>3. TypeOK'
    BY <1>0, <2>1, <2>2 DEF TypeOK, FileTypeOK
  <2>4. TaskInv(t)'
    BY <1>0, <2>1, <2>2 DEF TaskInv, TypeOK
  <2>5. \A u \in Tasks : u # t => TaskInv(u)'
    BY <1>0, <2>1 DEF TaskInv, TypeOK
  <2> QED
    BY <1>0, <2>3, <2>4, <2>5
<1> QED
  BY <1>1, <1>2, <1>3

LEMMA ReadFileAuthInv ==
  ASSUME AuthInv, NEW t \in Tasks, ReadFile(t)
  PROVE  AuthInv'
<1> USE CookieAssumption DEF AuthInv
<1>0. file' = file /\ starts' = starts /\ cached' = cached /\ cache' = cache
      /\ since' = since /\ modified' = modified /\ pc[t] = "read"
  BY DEF ReadFile, Fail, fileVars
<1>1. CASE file = 0
  <2>1. Fail(t)
    BY <1>1 DEF ReadFile
  <2>2. TypeOK'
    BY <1>0, <2>1 DEF TypeOK, FileTypeOK, Fail
  <2>3. \A u \in Tasks : TaskInv(u)'
    BY <1>0, <2>1 DEF TaskInv, TypeOK, Fail
  <2> QED
    BY <1>0, <2>2, <2>3
<1>2. CASE file # 0
  <2>1. header' = [header EXCEPT ![t] = file] /\ pc' = [pc EXCEPT ![t] = "write"]
    BY <1>2 DEF ReadFile, Fail
  <2>2. file = starts /\ starts \in Cookies
    BY <1>2 DEF TypeOK, FileTypeOK
  <2>3. NoOlder(modified[t], file)
    <3>1. PICK v \in Cookies : modified[t] = Mtime[v] /\ v <= starts
      BY <1>0 DEF TaskInv
    <3> QED
      BY <2>2, <3>1 DEF NoOlder
  <2>4. TypeOK'
    BY <1>0, <2>1, <2>2 DEF TypeOK, FileTypeOK, Cookies
  <2>5. TaskInv(t)'
    BY <1>0, <2>1, <2>2, <2>3 DEF TaskInv, TypeOK
  <2>6. \A u \in Tasks : u # t => TaskInv(u)'
    BY <1>0, <2>1 DEF TaskInv, TypeOK
  <2> QED
    BY <1>0, <2>4, <2>5, <2>6
<1> QED
  BY <1>1, <1>2

LEMMA WriteCacheAuthInv ==
  ASSUME AuthInv, NEW t \in Tasks, WriteCache(t)
  PROVE  AuthInv'
<1> USE CookieAssumption DEF AuthInv
<1>1. /\ pc[t] = "write" /\ cached' = Entry(t) /\ pc' = [pc EXCEPT ![t] = "done"]
      /\ file' = file /\ starts' = starts /\ cache' = cache /\ modified' = modified
      /\ header' = header /\ since' = since
  BY DEF WriteCache, fileVars
<1>2. Entry(t) \in Entries /\ NoOlder(modified[t], header[t])
  BY <1>1 DEF TaskInv, Entry, Entries
<1>3. GoodHeader(cached')
  BY <1>1, <1>2 DEF GoodHeader, Entry
<1>4. TypeOK'
  BY <1>1, <1>2 DEF TypeOK, FileTypeOK
<1>5. \A u \in Tasks : TaskInv(u)'
  BY <1>1 DEF TaskInv, TypeOK
<1> QED
  BY <1>3, <1>4, <1>5

LEMMA LeaveAuthInv ==
  ASSUME AuthInv, NEW t \in Tasks, Leave(t)
  PROVE  AuthInv'
BY DEF AuthInv, Leave, TypeOK, FileTypeOK, TaskInv, fileVars

LEMMA NodeAuthInv ==
  ASSUME AuthInv, Node
  PROVE  AuthInv'
<1> USE CookieAssumption DEF AuthInv
<1>1. UNCHANGED <<cached, pc, cache, modified, header, since>>
  BY DEF Node, taskVars
<1>2. starts' \in Cookies /\ file' \in {0, starts'} /\ starts <= starts'
  BY DEF Node, NodeStarts, NodeStops, TypeOK, FileTypeOK, Cookies
<1>3. TypeOK'
  BY <1>1, <1>2 DEF TypeOK, FileTypeOK
<1>4. \A n \in Nat : n <= starts => n <= starts'
  BY <1>2 DEF TypeOK, FileTypeOK, Cookies
<1>a. \A v, w : Tied(v, w, starts) => Tied(v, w, starts')
  BY <1>4 DEF Tied, Cookies
<1>5. \A u \in Tasks : TaskInv(u)'
  BY <1>1, <1>4, <1>a DEF TaskInv, TypeOK, Cookies
<1> QED
  BY <1>1, <1>3, <1>5

LEMMA NextAuthInv == AuthInv /\ [Next]_vars => AuthInv'
<1> SUFFICES ASSUME AuthInv, [Next]_vars PROVE AuthInv'
  OBVIOUS
<1>1. CASE Node
  BY <1>1, NodeAuthInv
<1>2. CASE \E t \in Tasks :
             CopyCache(t) \/ Stat(t) \/ ReadFile(t) \/ WriteCache(t) \/ Leave(t)
  BY <1>2, CopyCacheAuthInv, StatAuthInv, ReadFileAuthInv, WriteCacheAuthInv, LeaveAuthInv
<1>3. CASE UNCHANGED vars
  BY <1>3 DEF vars, taskVars, AuthInv, TypeOK, FileTypeOK, TaskInv
<1> QED
  BY <1>1, <1>2, <1>3 DEF Next

LEMMA InvariantAuthInv == Spec => []AuthInv
BY InitAuthInv, NextAuthInv, PTL DEF Spec

-----------------------------------------------------------------------------

\* Types of `try_load`'s state.
THEOREM AuthTypeCorrect == Spec => []TypeOK
<1>1. AuthInv => TypeOK
  BY DEF AuthInv
<1> QED
  BY <1>1, InvariantAuthInv, PTL

\* `try_load` hands out a cookie that was already replaced when the call began only if
\* two modification times are the same, for any number of concurrent requests and
\* restarts of the node.
THEOREM AlwaysFresh == Spec => []TryLoadFresh
<1>1. AuthInv => TryLoadFresh
  BY DEF AuthInv, TaskInv, TryLoadFresh, TypeOK
<1> QED
  BY <1>1, InvariantAuthInv, PTL

-----------------------------------------------------------------------------
(* CookiePassword: `cookie_password`. *)

\* So is the password of an entry: the second stat comes after the read.
GoodPassword(e) == e = NoPassword \/ (e \in PasswordEntries /\ NoOlder(e.mtime, e.password))

\* Between two stats: the thread's call saw the file if the file was ever there.
SeenInv(t) ==
  /\ at[t] # "idle" /\ file # 0 => present[t]
  /\ at[t] \in {"check", "read"} => password[t] = 0
  /\ at[t] = "check" /\ statted[t] => present[t]
  /\ at[t] \in {"restat", "write"} => present[t] /\ password[t] \in Cookies
  /\ at[t] = "done" /\ password[t] # 0 => present[t]

\* What the thread knows: the time it saw is that of the cookie current when its
\* call began, and what it read is current until the node replaces it.
TimeInv(t) ==
  /\ began[t] <= starts
  /\ at[t] = "check" /\ statted[t] => began[t] \in Cookies /\ mtime[t] = Mtime[began[t]]
  /\ at[t] = "write" /\ statted[t] => \E v \in Cookies : mtime[t] = Mtime[v]
  /\ at[t] = "restat" /\ ~replaced => password[t] = starts
  /\ at[t] = "write" /\ ~replaced =>
       /\ began[t] <= password[t]
       /\ statted[t] => NoOlder(mtime[t], password[t])
  /\ at[t] = "done" /\ password[t] # 0 /\ ~replaced =>
       began[t] <= password[t] \/ Tied(password[t], began[t], starts)

UsersInv ==
  /\ UsersTypeOK
  /\ ~replaced => GoodPassword(cachedPassword)
  /\ \A t \in Threads : SeenInv(t)
  /\ \A t \in Threads : TimeInv(t)

-----------------------------------------------------------------------------

LEMMA InitUsersInv == UsersInit => UsersInv
<1> SUFFICES ASSUME UsersInit PROVE UsersInv
  OBVIOUS
<1> USE CookieAssumption DEF UsersInit, FileInit
<1>1. 1 \in Cookies
  BY DEF Cookies
<1>2. FileTypeOK
  BY <1>1 DEF FileTypeOK
<1>3. UsersTypeOK
  BY <1>2 DEF UsersTypeOK
<1>4. \A t \in Threads : SeenInv(t) /\ TimeInv(t)
  BY DEF SeenInv, TimeInv
<1> QED
  BY <1>3, <1>4 DEF UsersInv, GoodPassword

LEMMA BeginUsersInv ==
  ASSUME UsersInv, NEW t \in Threads, Begin(t)
  PROVE  UsersInv'
<1> USE CookieAssumption DEF UsersInv
<1>1. /\ file' = file /\ starts' = starts /\ cachedPassword' = cachedPassword /\ replaced' = replaced
      /\ statted' = [statted EXCEPT ![t] = (file # 0)]
      /\ mtime' = [mtime EXCEPT ![t] = IF file # 0 THEN Mtime[file] ELSE 0]
      /\ began' = [began EXCEPT ![t] = starts]
      /\ present' = [present EXCEPT ![t] = (file # 0)]
      /\ password' = [password EXCEPT ![t] = 0]
      /\ at' = [at EXCEPT ![t] = "check"]
  BY DEF Begin, StatFile, fileVars
<1>2. starts \in Cookies /\ starts \in Nat /\ (file # 0 => file = starts)
  BY DEF UsersTypeOK, FileTypeOK, Cookies
<1>3. UsersTypeOK'
  BY <1>1, <1>2 DEF UsersTypeOK, FileTypeOK
<1>4. /\ at'[t] = "check" /\ password'[t] = 0 /\ began'[t] = starts
      /\ statted'[t] = (file # 0) /\ present'[t] = (file # 0)
      /\ file # 0 => mtime'[t] = Mtime[file]
  BY <1>1 DEF UsersTypeOK
<1>5. SeenInv(t)'
  BY <1>1, <1>4 DEF SeenInv
<1>6. TimeInv(t)'
  <2>1. began'[t] <= starts'
    BY <1>1, <1>2, <1>4
  <2>2. statted'[t] => file # 0
    BY <1>4, Zenon
  <2>3. statted'[t] => began'[t] \in Cookies /\ mtime'[t] = Mtime[began'[t]]
    BY <1>2, <1>4, <2>2
  <2> QED
    BY <1>4, <2>1, <2>3 DEF TimeInv
<1>7. \A u \in Threads : u # t => SeenInv(u)' /\ TimeInv(u)'
  BY <1>1 DEF SeenInv, TimeInv, UsersTypeOK
<1> QED
  BY <1>1, <1>3, <1>5, <1>6, <1>7

LEMMA CheckCacheUsersInv ==
  ASSUME UsersInv, NEW t \in Threads, CheckCache(t)
  PROVE  UsersInv'
<1> USE CookieAssumption DEF UsersInv
<1>1. /\ file' = file /\ starts' = starts /\ cachedPassword' = cachedPassword /\ replaced' = replaced
      /\ statted' = statted /\ mtime' = mtime /\ began' = began /\ present' = present
      /\ at[t] = "check"
  BY DEF CheckCache, fileVars
<1>2. CASE CacheAnswers(t)
  <2>1. /\ password' = [password EXCEPT ![t] = cachedPassword.password]
        /\ at' = [at EXCEPT ![t] = "done"]
    BY <1>2 DEF CheckCache
  <2>2. cachedPassword \in PasswordEntries /\ cachedPassword.password \in Cookies /\ statted[t]
    BY <1>2 DEF CacheAnswers, UsersTypeOK, PasswordEntries
  <2>3. ~replaced => Tied(cachedPassword.password, began[t], starts)
    <3>1. began[t] \in Cookies /\ cachedPassword.mtime = Mtime[began[t]] /\ began[t] <= starts
          /\ began[t] <= began[t]
      BY <1>1, <1>2, <2>2 DEF CacheAnswers, TimeInv, Cookies
    <3>2. ~replaced => \E v \in Cookies : Mtime[v] = cachedPassword.mtime /\ v <= cachedPassword.password
      BY <1>2 DEF CacheAnswers, GoodPassword, NoOlder
    <3> QED
      BY <3>1, <3>2 DEF Tied
  <2>4. UsersTypeOK'
    BY <1>1, <2>1, <2>2 DEF UsersTypeOK, FileTypeOK, Cookies
  <2>5. SeenInv(t)' /\ TimeInv(t)'
    BY <1>1, <2>1, <2>2, <2>3 DEF SeenInv, TimeInv, UsersTypeOK
  <2>6. \A u \in Threads : u # t => SeenInv(u)' /\ TimeInv(u)'
    BY <1>1, <2>1 DEF SeenInv, TimeInv, UsersTypeOK
  <2> QED
    BY <1>1, <2>4, <2>5, <2>6
<1>3. CASE ~CacheAnswers(t)
  <2>1. at' = [at EXCEPT ![t] = "read"] /\ password' = password
    BY <1>3 DEF CheckCache
  <2>2. UsersTypeOK'
    BY <1>1, <2>1 DEF UsersTypeOK, FileTypeOK
  <2>3. \A u \in Threads : SeenInv(u)' /\ TimeInv(u)'
    BY <1>1, <2>1 DEF SeenInv, TimeInv, UsersTypeOK
  <2> QED
    BY <1>1, <2>2, <2>3
<1> QED
  BY <1>2, <1>3

LEMMA ReadPasswordUsersInv ==
  ASSUME UsersInv, NEW t \in Threads, ReadPassword(t)
  PROVE  UsersInv'
<1> USE CookieAssumption DEF UsersInv
<1>1. /\ file' = file /\ starts' = starts /\ cachedPassword' = cachedPassword /\ replaced' = replaced
      /\ statted' = statted /\ mtime' = mtime /\ began' = began /\ present' = present
      /\ at[t] = "read"
      /\ password' = [password EXCEPT ![t] = file]
      /\ at' = [at EXCEPT ![t] = IF file # 0 THEN "restat" ELSE "done"]
  BY DEF ReadPassword, fileVars
<1>2. starts \in Cookies /\ starts \in Nat /\ (file # 0 => file = starts) /\ file \in Nat
  BY DEF UsersTypeOK, FileTypeOK, Cookies
<1>3. UsersTypeOK'
  BY <1>1, <1>2 DEF UsersTypeOK, FileTypeOK
<1>4. SeenInv(t)' /\ TimeInv(t)'
  BY <1>1, <1>2 DEF SeenInv, TimeInv, UsersTypeOK
<1>5. \A u \in Threads : u # t => SeenInv(u)' /\ TimeInv(u)'
  BY <1>1 DEF SeenInv, TimeInv, UsersTypeOK
<1> QED
  BY <1>1, <1>3, <1>4, <1>5

\* The second stat sees the cookie that was read, unless it was replaced.
LEMMA RestatUsersInv ==
  ASSUME UsersInv, NEW t \in Threads, Restat(t)
  PROVE  UsersInv'
<1> USE CookieAssumption DEF UsersInv
<1>1. /\ file' = file /\ starts' = starts /\ cachedPassword' = cachedPassword /\ replaced' = replaced
      /\ statted' = [statted EXCEPT ![t] = (file # 0)]
      /\ mtime' = [mtime EXCEPT ![t] = IF file # 0 THEN Mtime[file] ELSE 0]
      /\ began' = began /\ present' = present /\ password' = password
      /\ at[t] = "restat" /\ at' = [at EXCEPT ![t] = "write"]
  BY DEF Restat, StatFile, fileVars
<1>2. starts \in Cookies /\ starts \in Nat /\ (file # 0 => file = starts)
  BY DEF UsersTypeOK, FileTypeOK, Cookies
<1>3. NoOlder(Mtime[starts], starts)
  BY <1>2 DEF NoOlder
<1>4. UsersTypeOK'
  BY <1>1, <1>2 DEF UsersTypeOK, FileTypeOK
<1>5. SeenInv(t)'
  BY <1>1 DEF SeenInv, UsersTypeOK
<1>6. TimeInv(t)'
  BY <1>1, <1>2, <1>3 DEF TimeInv, UsersTypeOK
<1>7. \A u \in Threads : u # t => SeenInv(u)' /\ TimeInv(u)'
  BY <1>1 DEF SeenInv, TimeInv, UsersTypeOK
<1> QED
  BY <1>1, <1>4, <1>5, <1>6, <1>7

LEMMA StorePasswordUsersInv ==
  ASSUME UsersInv, NEW t \in Threads, StorePassword(t)
  PROVE  UsersInv'
<1> USE CookieAssumption DEF UsersInv
<1>1. /\ file' = file /\ starts' = starts /\ replaced' = replaced
      /\ statted' = statted /\ mtime' = mtime /\ began' = began /\ present' = present
      /\ password' = password
      /\ at[t] = "write" /\ at' = [at EXCEPT ![t] = "done"]
      /\ cachedPassword' = IF statted[t] THEN [mtime |-> mtime[t], password |-> password[t]]
                           ELSE cachedPassword
  BY DEF StorePassword, fileVars
<1>2. statted[t] => [mtime |-> mtime[t], password |-> password[t]] \in PasswordEntries
  BY <1>1 DEF SeenInv, TimeInv, PasswordEntries
<1>3. UsersTypeOK'
  BY <1>1, <1>2 DEF UsersTypeOK, FileTypeOK
<1>4. ~replaced' => GoodPassword(cachedPassword')
  <2>1. CASE statted[t]
    BY <1>1, <1>2, <2>1 DEF TimeInv, GoodPassword
  <2>2. CASE ~statted[t]
    BY <1>1, <2>2
  <2> QED
    BY <2>1, <2>2
<1>5. \A u \in Threads : SeenInv(u)' /\ TimeInv(u)'
  BY <1>1 DEF SeenInv, TimeInv, UsersTypeOK
<1> QED
  BY <1>3, <1>4, <1>5

LEMMA CompareUsersInv ==
  ASSUME UsersInv, NEW t \in Threads, Compare(t)
  PROVE  UsersInv'
<1> USE DEF UsersInv, Compare, fileVars
<1>1. UsersTypeOK'
  BY DEF UsersTypeOK, FileTypeOK
<1>2. \A u \in Threads : SeenInv(u)' /\ TimeInv(u)'
  BY DEF SeenInv, TimeInv, UsersTypeOK
<1> QED
  BY <1>1, <1>2

LEMMA NodeMovesUsersInv ==
  ASSUME UsersInv, NodeMoves
  PROVE  UsersInv'
<1> USE CookieAssumption DEF UsersInv
<1>1. /\ UNCHANGED <<cachedPassword, at, mtime, statted, password, began>>
      /\ present' = [t \in Threads |-> present[t] \/ file' # 0]
      /\ replaced' = (replaced \/ (file' # 0 /\ \E t \in Threads : at[t] = "restat"))
  BY DEF NodeMoves, threadVars
<1>2. starts' \in Cookies /\ file' \in {0, starts'} /\ starts <= starts'
  BY DEF NodeMoves, NodeStarts, NodeStops, UsersTypeOK, FileTypeOK, Cookies
<1>3. UsersTypeOK'
  BY <1>1, <1>2 DEF UsersTypeOK, FileTypeOK
<1>4. \A n \in Nat : n <= starts => n <= starts'
  BY <1>2 DEF UsersTypeOK, FileTypeOK, Cookies
<1>5. ~replaced' => ~replaced
  BY <1>1
<1>6. ASSUME NEW u \in Threads, at[u] = "restat", ~replaced' PROVE starts' = starts
  <2>1. file' = 0
    BY <1>1, <1>6
  <2> QED
    BY <2>1 DEF NodeMoves, NodeStarts, NodeStops, UsersTypeOK, FileTypeOK, Cookies
<1>7. \A u \in Threads : SeenInv(u)'
  <2>1. \A u \in Threads : (present[u] => present'[u]) /\ (file' # 0 => present'[u])
    BY <1>1, <1>3 DEF UsersTypeOK
  <2> QED
    BY <1>1, <2>1 DEF SeenInv
<1>a. \A v, w : Tied(v, w, starts) => Tied(v, w, starts')
  BY <1>4 DEF Tied, Cookies
<1>8. \A u \in Threads : TimeInv(u)'
  BY <1>1, <1>4, <1>5, <1>6, <1>a DEF TimeInv, UsersTypeOK
<1> QED
  BY <1>1, <1>3, <1>5, <1>7, <1>8

LEMMA NextUsersInv == UsersInv /\ [UsersNext]_usersVars => UsersInv'
<1> SUFFICES ASSUME UsersInv, [UsersNext]_usersVars PROVE UsersInv'
  OBVIOUS
<1>1. CASE NodeMoves
  BY <1>1, NodeMovesUsersInv
<1>2. CASE \E t \in Threads : \/ Begin(t) \/ CheckCache(t) \/ ReadPassword(t)
                              \/ Restat(t) \/ StorePassword(t) \/ Compare(t)
  BY <1>2, BeginUsersInv, CheckCacheUsersInv, ReadPasswordUsersInv, RestatUsersInv, StorePasswordUsersInv, CompareUsersInv
<1>3. CASE UNCHANGED usersVars
  BY <1>3 DEF usersVars, threadVars, UsersInv, UsersTypeOK, FileTypeOK, SeenInv, TimeInv
<1> QED
  BY <1>1, <1>2, <1>3 DEF UsersNext

LEMMA InvariantUsersInv == UsersSpec => []UsersInv
BY InitUsersInv, NextUsersInv, PTL DEF UsersSpec

-----------------------------------------------------------------------------

\* Types of `cookie_password`'s state.
THEOREM UsersTypeCorrect == UsersSpec => []UsersTypeOK
<1>1. UsersInv => UsersTypeOK
  BY DEF UsersInv
<1> QED
  BY <1>1, InvariantUsersInv, PTL

\* No password is accepted on the strength of a cookie that was absent for the
\* whole of the call to `cookie_password`.
THEOREM NoCookieNoMatch == UsersSpec => []DownMatchesNothing
<1>1. UsersInv => DownMatchesNothing
  BY DEF UsersInv, SeenInv, DownMatchesNothing
<1> QED
  BY <1>1, InvariantUsersInv, PTL

\* The race between the read and the second stat, and two cookies with the same
\* modification time, are the only ways to a stale password: other threads and restarts
\* elsewhere in the call are harmless.
THEOREM OnlyTheRestatRaces == UsersSpec => []FreshUnlessReplacedMidCall
<1>1. UsersInv => FreshUnlessReplacedMidCall
  BY DEF UsersInv, TimeInv, UsersTypeOK, FreshUnlessReplacedMidCall
<1> QED
  BY <1>1, InvariantUsersInv, PTL

\* Loading the header and comparing passwords share the cookie file and disturb each other
\* in nothing: what holds of either alone holds of it beside the other.
THEOREM ReadersApart == ReadersSpec => Spec /\ UsersSpec
<1>1. ReadersInit => Init /\ UsersInit
  BY DEF ReadersInit
<1>2. [ReadersNext]_readersVars => [Next]_vars
  <2>1. CASE NodeBesideReaders
    BY <2>1 DEF NodeBesideReaders, NodeMoves, Next, Node
  <2>2. CASE \E t \in Tasks : TaskStep(t)
    BY <2>2 DEF TaskStep, Next
  <2>3. CASE \E t \in Threads : ThreadStep(t)
    BY <2>3 DEF ThreadStep, Begin, StatFile, CheckCache, ReadPassword, Restat, StorePassword,
                Compare, fileVars, vars
  <2>4. CASE UNCHANGED readersVars
    BY <2>4 DEF readersVars, usersVars, fileVars, vars
  <2> QED
    BY <2>1, <2>2, <2>3, <2>4 DEF ReadersNext
<1>3. [ReadersNext]_readersVars => [UsersNext]_usersVars
  <2>1. CASE NodeBesideReaders
    BY <2>1 DEF NodeBesideReaders, UsersNext
  <2>2. CASE \E t \in Tasks : TaskStep(t)
    BY <2>2 DEF TaskStep, CopyCache, Stat, Fail, ReadFile, WriteCache, Leave, fileVars,
                usersVars
  <2>3. CASE \E t \in Threads : ThreadStep(t)
    BY <2>3 DEF ThreadStep, UsersNext
  <2>4. CASE UNCHANGED readersVars
    BY <2>4 DEF readersVars
  <2> QED
    BY <2>1, <2>2, <2>3, <2>4 DEF ReadersNext
<1> QED
  BY <1>1, <1>2, <1>3, PTL DEF ReadersSpec, Spec, UsersSpec

\* So all of it holds of the two beside each other, as they are in the proxy.
THEOREM ReadersCorrect ==
  ReadersSpec => [](TypeOK /\ TryLoadFresh /\ DownMatchesNothing /\ FreshUnlessReplacedMidCall)
BY ReadersApart, AuthTypeCorrect, AlwaysFresh, NoCookieNoMatch, OnlyTheRestatRaces, PTL

=============================================================================
