----------------------------- MODULE AuthSource -----------------------------
(***************************************************************************)
(* AuthSource::CookieFile (src/src/client.rs): the Authorization header    *)
(* the proxy presents to bitcoind, cached against the modification time of *)
(* the cookie file.                                                        *)
(*                                                                         *)
(* Every request to bitcoind, of whichever task, calls `try_load`, which   *)
(* suspends four times: to copy the cache, to stat, to read, and to take   *)
(* the write lock.  Between any two of these the node may stop or start    *)
(* and other tasks may run through the whole of `try_load`.                *)
(*                                                                         *)
(* AuthSource::Const holds a fixed header and no state.  The header made   *)
(* from cookie v (base64 of the file less its newline) is v itself.        *)
(***************************************************************************)
EXTENDS CookieFile

CONSTANT Tasks

VARIABLES
  cached,    \* `cached`: [mtime, header], or Nothing
  pc,        \* where each task is in `try_load`
  cache,     \* the task's copy of `cached`
  modified,  \* the modification time the task saw
  header,    \* the header the task read, or returned; 0 is an error
  since      \* history: the latest cookie when the task called `try_load`

taskVars == <<pc, cache, modified, header, since>>
vars == <<file, starts, cached, taskVars>>

Nothing == [mtime |-> 0, header |-> 0]
Entries == [mtime : {Mtime[v] : v \in Cookies}, header : Cookies]

-----------------------------------------------------------------------------

Init ==
  /\ FileInit
  /\ cached = Nothing
  /\ pc = [t \in Tasks |-> "idle"]
  /\ cache = [t \in Tasks |-> Nothing]
  /\ modified = [t \in Tasks |-> 0]
  /\ header = [t \in Tasks |-> 0]
  /\ since = [t \in Tasks |-> 0]

\* `cached.read().await.clone()`
CopyCache(t) ==
  /\ pc[t] = "idle"
  /\ pc' = [pc EXCEPT ![t] = "stat"]
  /\ cache' = [cache EXCEPT ![t] = cached]
  /\ since' = [since EXCEPT ![t] = starts]
  /\ header' = [header EXCEPT ![t] = 0]
  /\ UNCHANGED <<fileVars, cached, modified>>

\* `?` on a metadata or read error: the call ends without a header.
Fail(t) ==
  /\ pc' = [pc EXCEPT ![t] = "done"]
  /\ UNCHANGED <<cached, cache, modified, header, since>>

Hit(t) == cache[t] # Nothing /\ cache[t].mtime = Mtime[file]

\* `tokio::fs::metadata(..).modified()`, then the match on the copied cache.
Stat(t) ==
  /\ pc[t] = "stat"
  /\ UNCHANGED fileVars
  /\ \/ file = 0 /\ Fail(t)
     \/ /\ file # 0 /\ Hit(t)
        /\ header' = [header EXCEPT ![t] = cache[t].header]
        /\ pc' = [pc EXCEPT ![t] = "done"]
        /\ UNCHANGED <<cached, cache, modified, since>>
     \/ /\ file # 0 /\ ~Hit(t)
        /\ modified' = [modified EXCEPT ![t] = Mtime[file]]
        /\ pc' = [pc EXCEPT ![t] = "read"]
        /\ UNCHANGED <<cached, cache, header, since>>

\* Slip: a read error is treated as an empty cookie.
ReadFileUnchecked(t) ==
  /\ pc[t] = "read"
  /\ header' = [header EXCEPT ![t] = file]
  /\ pc' = [pc EXCEPT ![t] = "write"]
  /\ UNCHANGED <<fileVars, cached, cache, modified, since>>

\* `load_from_file`
ReadFile(t) ==
  /\ pc[t] = "read"
  /\ UNCHANGED fileVars
  /\ \/ file = 0 /\ Fail(t)
     \/ /\ file # 0
        /\ header' = [header EXCEPT ![t] = file]
        /\ pc' = [pc EXCEPT ![t] = "write"]
        /\ UNCHANGED <<cached, cache, modified, since>>

\* Slip: the entry is keyed by the modification time at the end of the call.
EntryRestatted(t) ==
  [mtime |-> IF file = 0 THEN modified[t] ELSE Mtime[file], header |-> header[t]]

\* The entry `try_load` stores: the time it saw before it read.
Entry(t) == [mtime |-> modified[t], header |-> header[t]]

\* `*cached.write().await = Some(..)` and the return.
WriteCache(t) ==
  /\ pc[t] = "write"
  /\ cached' = Entry(t)
  /\ pc' = [pc EXCEPT ![t] = "done"]
  /\ UNCHANGED <<fileVars, cache, modified, header, since>>

\* The caller has its answer, or was cancelled at an await before the write.
Leave(t) ==
  /\ pc[t] # "idle"
  /\ pc' = [pc EXCEPT ![t] = "idle"]
  /\ UNCHANGED <<fileVars, cached, cache, modified, header, since>>

Node == (NodeStarts \/ NodeStops) /\ UNCHANGED <<cached, taskVars>>

Next ==
  \/ Node
  \/ \E t \in Tasks :
       CopyCache(t) \/ Stat(t) \/ ReadFile(t) \/ WriteCache(t) \/ Leave(t)

Spec == Init /\ [][Next]_vars

-----------------------------------------------------------------------------

TypeOK ==
  /\ FileTypeOK
  /\ cached \in Entries \cup {Nothing}
  /\ pc \in [Tasks -> {"idle", "stat", "read", "write", "done"}]
  /\ cache \in [Tasks -> Entries \cup {Nothing}]
  /\ modified \in [Tasks -> Nat]
  /\ header \in [Tasks -> Nat]
  /\ since \in [Tasks -> Nat]

\* `try_load` returns a cookie that had already been replaced when it was called only if
\* a cookie since then has the modification time of that one or of one before it.  Else
\* a request is refused by bitcoind only if the node restarted while it was under way,
\* whatever other tasks did to the shared cache.
TryLoadFresh ==
  \A t \in Tasks : pc[t] = "done" /\ header[t] # 0 /\ header[t] < since[t] =>
    Tied(header[t], since[t], starts)

=============================================================================
