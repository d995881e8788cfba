-------------------------- MODULE BlockCacheStore --------------------------
(***************************************************************************)
(* BlockCache implements BlockStore.  While an insert is in its eviction   *)
(* loop it holds the mutex, and what others can last have seen is what was *)
(* held before; the history variable `before` keeps that.                  *)
(***************************************************************************)
EXTENDS BlockCache

VARIABLE before  \* history: what was held when the mutex was last free

storeVars == <<cacheVars, before>>

StoreInit == Init /\ before = {}
StoreNext == Next /\ before' = IF evicting THEN before ELSE Held
StoreSpec == StoreInit /\ [][StoreNext]_storeVars

Visible == IF evicting THEN before ELSE Held

Store == INSTANCE BlockStore WITH store <- Visible

\* Seen from outside the mutex, an insert happens at one moment: it does nothing, or the
\* new block is in and some others are out, and however many blocks its loop evicts the
\* new one is never among them.  This is the cache that BlockFetch reckons with.
ImplementsBlockStore == Store!Spec

=============================================================================
