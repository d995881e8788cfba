----------------------------- MODULE MCPeerFetch -----------------------------
(* Model values for PeerFetch: an honest peer and one that may send anything; *)
(* two fetches, of different hashes.                                          *)
EXTENDS PeerFetch

CONSTANTS f1, f2, h1, h2

MCHashOf == [f \in Fetches |-> IF f = f2 THEN h2 ELSE h1]

=============================================================================
