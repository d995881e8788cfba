--------------------------- MODULE CookieReaders ---------------------------
(***************************************************************************)
(* bitcoind's cookie file and its two kinds of readers in the proxy: the   *)
(* tasks that load the header for bitcoind (AuthSource) and the threads    *)
(* that compare a user's password with it (CookiePassword).  They share    *)
(* the file and nothing else: each has a cache of its own.                 *)
(***************************************************************************)
EXTENDS AuthSource, CookiePassword

readersVars == <<usersVars, cached, taskVars>>

ReadersInit == Init /\ UsersInit

\* The node starts or stops while any of them is at any point.
NodeBesideReaders == NodeMoves /\ UNCHANGED <<cached, taskVars>>

TaskStep(t) ==
  /\ CopyCache(t) \/ Stat(t) \/ ReadFile(t) \/ WriteCache(t) \/ Leave(t)
  /\ UNCHANGED <<cachedPassword, threadVars, present, replaced>>

ThreadStep(t) ==
  /\ \/ Begin(t) \/ CheckCache(t) \/ ReadPassword(t)
     \/ Restat(t) \/ StorePassword(t) \/ Compare(t)
  /\ UNCHANGED <<cached, taskVars>>

ReadersNext ==
  \/ NodeBesideReaders
  \/ \E t \in Tasks : TaskStep(t)
  \/ \E t \in Threads : ThreadStep(t)

ReadersSpec == ReadersInit /\ [][ReadersNext]_readersVars

=============================================================================
