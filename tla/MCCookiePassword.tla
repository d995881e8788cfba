-------------------------- MODULE MCCookiePassword --------------------------
(* Times for CookiePassword: the node's clock goes back and no two times are the same. *)
EXTENDS CookiePassword

MCDistinct == [v \in Cookies |-> <<10, 20, 5>>[v]]

=============================================================================
