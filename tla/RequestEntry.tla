---------------------------- MODULE RequestEntry ----------------------------
(***************************************************************************)
(* How a request gets into `proxy_request` (src/src/proxy.rs): its         *)
(* credentials are compared (PasswordCheck), and once the user is let in   *)
(* its body is read (RpcWire).  ProxyRequest goes on from there.           *)
(***************************************************************************)
EXTENDS PasswordCheck, RpcWire

entryVars == <<vars, bodyVars>>

EntryInit == Init /\ BodyInit

CheckCredentials == Next /\ UNCHANGED bodyVars

ReadBody ==
  /\ pc = "done" /\ matches
  /\ BodyNext
  /\ UNCHANGED vars

EntryNext == CheckCredentials \/ ReadBody

\* The comparison does not wait for anything.
EntryFairness == WF_entryVars(CheckCredentials)

EntrySpec == EntryInit /\ [][EntryNext]_entryVars /\ EntryFairness

=============================================================================
