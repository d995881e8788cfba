--------------------------- MODULE CookiePassword ---------------------------
(***************************************************************************)
(* Password::CookieFile (src/src/users.rs): a user of the proxy whose      *)
(* password is the password half of bitcoind's cookie.                     *)
(*                                                                         *)
(* `cookie_password` runs to completion on the thread that authenticates a *)
(* request, but the node and the other threads run beside it: a step here  *)
(* is one system call or one use of the cache's lock.  Unlike AuthSource   *)
(* it stats a second time, after the read, and stores what it read under   *)
(* the second time.                                                        *)
(*                                                                         *)
(* The password in cookie v is v itself.  bitcoind always writes the ':'   *)
(* that `split_once` looks for.                                            *)
(***************************************************************************)
EXTENDS CookieFile

CONSTANT Threads

VARIABLES
  cachedPassword,  \* `cached`: [mtime, password], or NoPassword
  at,              \* where each thread is in `cookie_password`
  mtime,           \* the modification time the thread last saw
  statted,         \* whether its last stat succeeded
  password,        \* the password the thread read, or returned; 0 is `None`
  began,           \* history: the latest cookie when the thread began its call
  present,         \* history: the file was there at some time during the call
  replaced         \* history: a cookie was replaced between a read and its re-stat

threadVars == <<at, mtime, statted, password, began>>
usersVars == <<file, starts, cachedPassword, threadVars, present, replaced>>

NoPassword == [mtime |-> 0, password |-> 0]
PasswordEntries == [mtime : {Mtime[v] : v \in Cookies}, password : Cookies]

-----------------------------------------------------------------------------

UsersInit ==
  /\ FileInit
  /\ cachedPassword = NoPassword
  /\ at = [t \in Threads |-> "idle"]
  /\ mtime = [t \in Threads |-> 0]
  /\ statted = [t \in Threads |-> FALSE]
  /\ password = [t \in Threads |-> 0]
  /\ began = [t \in Threads |-> 0]
  /\ present = [t \in Threads |-> FALSE]
  /\ replaced = FALSE

\* `std::fs::metadata(path).and_then(|m| m.modified())`: the time, or failure.
StatFile(t) ==
  /\ statted' = [statted EXCEPT ![t] = (file # 0)]
  /\ mtime' = [mtime EXCEPT ![t] = IF file # 0 THEN Mtime[file] ELSE 0]
  /\ UNCHANGED fileVars

Begin(t) ==
  /\ at[t] = "idle"
  /\ StatFile(t)
  /\ began' = [began EXCEPT ![t] = starts]
  /\ present' = [present EXCEPT ![t] = (file # 0)]
  /\ password' = [password EXCEPT ![t] = 0]
  /\ at' = [at EXCEPT ![t] = "check"]
  /\ UNCHANGED <<cachedPassword, replaced>>

\* Slip: a failed stat is answered from the cache.
CachedEvenWhenAbsent(t) ==
  cachedPassword # NoPassword /\ (~statted[t] \/ cachedPassword.mtime = mtime[t])

\* Slip: whatever is cached is good for whatever file is there.
AnyCached(t) == statted[t] /\ cachedPassword # NoPassword

\* The cache answers: the stat succeeded and the entry is of that time.
CacheAnswers(t) ==
  statted[t] /\ cachedPassword # NoPassword /\ cachedPassword.mtime = mtime[t]

\* `cached.read()` and the comparison under the lock.
CheckCache(t) ==
  /\ at[t] = "check"
  /\ IF CacheAnswers(t)
     THEN /\ password' = [password EXCEPT ![t] = cachedPassword.password]
          /\ at' = [at EXCEPT ![t] = "done"]
     ELSE /\ at' = [at EXCEPT ![t] = "read"]
          /\ UNCHANGED password
  /\ UNCHANGED <<fileVars, cachedPassword, mtime, statted, began, present, replaced>>

\* `read_to_string(path).ok()?`: a failed stat does not stop it.
ReadPassword(t) ==
  /\ at[t] = "read"
  /\ password' = [password EXCEPT ![t] = file]
  /\ at' = [at EXCEPT ![t] = IF file # 0 THEN "restat" ELSE "done"]
  /\ UNCHANGED <<fileVars, cachedPassword, mtime, statted, began, present, replaced>>

Restat(t) ==
  /\ at[t] = "restat"
  /\ StatFile(t)
  /\ at' = [at EXCEPT ![t] = "write"]
  /\ UNCHANGED <<cachedPassword, password, began, present, replaced>>

\* `cached.write()`, when the second stat succeeded, and the return.
StorePassword(t) ==
  /\ at[t] = "write"
  /\ cachedPassword' = IF statted[t] THEN [mtime |-> mtime[t], password |-> password[t]]
                       ELSE cachedPassword
  /\ at' = [at EXCEPT ![t] = "done"]
  /\ UNCHANGED <<fileVars, mtime, statted, password, began, present, replaced>>

Compare(t) ==
  /\ at[t] = "done"
  /\ at' = [at EXCEPT ![t] = "idle"]
  /\ UNCHANGED <<fileVars, cachedPassword, mtime, statted, password, began, present, replaced>>

NodeMoves ==
  /\ NodeStarts \/ NodeStops
  /\ present' = [t \in Threads |-> present[t] \/ file' # 0]
  /\ replaced' = (replaced \/ (file' # 0 /\ \E t \in Threads : at[t] = "restat"))
  /\ UNCHANGED <<cachedPassword, threadVars>>

UsersNext ==
  \/ NodeMoves
  \/ \E t \in Threads : \/ Begin(t) \/ CheckCache(t) \/ ReadPassword(t)
                        \/ Restat(t) \/ StorePassword(t) \/ Compare(t)

UsersSpec == UsersInit /\ [][UsersNext]_usersVars

-----------------------------------------------------------------------------

UsersTypeOK ==
  /\ FileTypeOK
  /\ cachedPassword \in PasswordEntries \cup {NoPassword}
  /\ at \in [Threads -> {"idle", "check", "read", "restat", "write", "done"}]
  /\ mtime \in [Threads -> Nat]
  /\ statted \in [Threads -> BOOLEAN]
  /\ password \in [Threads -> Nat]
  /\ began \in [Threads -> Nat]
  /\ present \in [Threads -> BOOLEAN]
  /\ replaced \in BOOLEAN

\* While the node is down no password matches (users.rs:85): an answer means the
\* cookie was there at some time during the call.
DownMatchesNothing ==
  \A t \in Threads : at[t] = "done" /\ password[t] # 0 => present[t]

\* A thread returns a password that was already replaced when its call began only
\* if, some time before, the node replaced the cookie between a thread's read and
\* its second stat, or a later cookie has the modification time of that one or of one
\* before it.
FreshUnlessReplacedMidCall ==
  \A t \in Threads :
    at[t] = "done" /\ password[t] # 0 /\ password[t] < began[t] =>
      replaced \/ Tied(password[t], began[t], starts)

\* What users.rs says of itself ("a file replaced mid-read must not be cached
\* against the mtime of contents that were never read", and of the test "the
\* cookie it replaced stops working"): a call never returns a password that had
\* already been replaced when the call began.
ReplacedStopsWorking ==
  \A t \in Threads : at[t] = "done" /\ password[t] # 0 => password[t] >= began[t]

=============================================================================
