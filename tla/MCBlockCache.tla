---------------------------- MODULE MCBlockCache ----------------------------
(* Model values for BlockCache: four hashes and blocks of five lengths, one  *)
(* of them larger than the whole cache.                                      *)
EXTENDS BlockCacheStore

CONSTANTS b0, b1, b2, b3, big

MCBlocks == {b0, b1, b2, b3, big}
MCLenOf == [b \in MCBlocks |->
              CASE b = b0 -> 0 [] b = b1 -> 1 [] b = b2 -> 2
                [] b = b3 -> 3 [] b = big -> 5]

=============================================================================
