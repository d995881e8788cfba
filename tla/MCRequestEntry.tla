--------------------------- MODULE MCRequestEntry ---------------------------
(* Any credentials with an empty object, or the right ones with any object: members of    *)
(* every key with every value, an unknown and an escaped one, and values that a reader    *)
(* refuses for what they are.                                                             *)
EXTENDS RequestEntry

MCMembers ==
  {[key |-> k, escaped |-> FALSE, value |-> v] :
     k \in {"jsonrpc", "id", "method", "params"}, v \in {"null", "string", "array"}}
    \cup {[key |-> "other", escaped |-> FALSE, value |-> "null"],
          [key |-> "other", escaped |-> FALSE, value |-> "unreadable"],
          [key |-> "id", escaped |-> FALSE, value |-> "unreadable"],
          [key |-> "params", escaped |-> FALSE, value |-> "deepest"],
          [key |-> "id", escaped |-> TRUE, value |-> "string"]}

RightCredentials == name = <<97>> /\ kind = "Cleartext" /\ stored = <<98>> /\ text = <<97, 58, 98>>

MCInit ==
  \/ members = <<>> /\ EntryInit
  \/ RightCredentials /\ EntryInit

MCSpec == MCInit /\ [][EntryNext]_entryVars /\ EntryFairness

=============================================================================
