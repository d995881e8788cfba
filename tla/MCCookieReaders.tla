-------------------------- MODULE MCCookieReaders --------------------------
(* Two starts of the node in one tick, then its clock goes back.  As tasks and threads    *)
(* share nothing they write, each kind is explored while the other has not begun.         *)
EXTENDS CookieReaders

MCMtime == [v \in Cookies |-> <<10, 20, 20, 5>>[v]]

OneKind == (\A t \in Tasks : since[t] = 0) \/ (\A t \in Threads : began[t] = 0)

=============================================================================
