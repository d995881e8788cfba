--------------------------- MODULE InterceptKinds ---------------------------
(***************************************************************************)
(* What `User::intercept` (src/src/users.rs) may make of a call of a user  *)
(* with `fetch_blocks`.  ProxyRequest takes it for granted; Interception   *)
(* shows it.                                                               *)
(*                                                                         *)
(* "none" is `Ok(None)`, to be forwarded; "result" and "error" are         *)
(* replies; "broken" is an `Err` without a status; "panic" is `params[0]`  *)
(* of an empty array.                                                      *)
(***************************************************************************)

InterceptGetBlock(call) ==
  CASE call.params = "servable" -> {"result", "error", "broken"}
    [] call.params = "bad hash" -> {"broken"}
    [] call.params = "no hash" -> {"panic"}
    [] OTHER -> {"none"}

InterceptRawTransaction(call) ==
  IF call.params = "servable" THEN {"result", "error"} ELSE {"none"}

=============================================================================
