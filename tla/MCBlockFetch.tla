---------------------------- MODULE MCBlockFetch ----------------------------
(* Values for BlockFetch: two calls for the same block, of which the later may find in the *)
(* cache what the other has put there.                                                     *)
EXTENDS BlockFetch

CONSTANTS h1

MCHashOf == [c \in Calls |-> h1]

=============================================================================
