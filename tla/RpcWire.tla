------------------------------ MODULE RpcWire ------------------------------
(***************************************************************************)
(* A JSON-RPC request between the body of a caller's POST and the body of  *)
(* the POST to bitcoind (src/src/client.rs).  A request on its own is read *)
(* by a visitor written by hand, one in a batch by the derived reader of   *)
(* RpcRequest, and both are written by its derived writer.                 *)
(*                                                                         *)
(* A request is the sequence of the members of a JSON object.  Here both   *)
(* readers go through the same members, one at a time.  A key may be       *)
(* written with escapes; the visitor asks for keys it can borrow from the  *)
(* body, which such a key is not.  A value may be good JSON and yet be     *)
(* refused by a reader that wants it as a `Value`; skipping it never fails.*)
(***************************************************************************)
EXTENDS Naturals, Sequences, SequencesExt

CONSTANTS
  Members,     \* members: a key, whether it is escaped, and a value
  MaxMembers,  \* bound on the members of an object
  Absent

Keys == {"jsonrpc", "id", "method", "params"}

\* Values: null, a string, an array or object; one nested as deep as serde_json goes, so
\* that in a batch it is a level too deep; and one that is no `Value` anywhere: a number
\* out of range, half a surrogate pair, or one nested deeper still.
Values == {"null", "string", "array", "deepest", "unreadable"}

ASSUME WireAssumption ==
  /\ Members \subseteq [key : Keys \cup {"other"}, escaped : BOOLEAN, value : Values]
  /\ MaxMembers \in Nat
  /\ Absent \notin Values

VARIABLES
  members,  \* the object
  pos,      \* how many members have been read
  alone,    \* what the visitor has made of them
  inBatch   \* what the derived reader has

bodyVars == <<members, pos, alone, inBatch>>

Nothing == [k \in Keys |-> Absent]
Reading == [pc |-> "reading", req |-> Nothing]
Fails(r) == [r EXCEPT !.pc = "error"]

-----------------------------------------------------------------------------

BodyInit ==
  /\ \E n \in 0 .. MaxMembers : members \in [1 .. n -> Members]
  /\ pos = 0
  /\ alone = Reading
  /\ inBatch = Reading

\* Whether a value is one of the type of a field.
Fits(key, value) ==
  /\ value # "unreadable"
  /\ key = "method" => value = "string"
  /\ key = "params" => value \in {"array", "deepest"}

\* A field of type Option<Value> takes null for absent.
Optional(value) == IF value = "null" THEN Absent ELSE value

\* Slip: `id` without `deserialize_with = "present"`, and without `Some(..)`.
NullIdIsNone(key, value) == Optional(value)

\* What a field is set to: `id` keeps null apart from absent.
FieldValue(key, value) == IF key = "id" THEN value ELSE Optional(value)

\* What the visitor cannot take: its method and params are options, which null fits, and a
\* member it does not know is read as a `Value`.
Refused(m) == m.value # "null" /\ ~Fits(m.key, m.value)

\* What the derived reader cannot take, a level down: a member it does not know is skipped.
RefusedInBatch(m) == m.key # "other" /\ (m.value = "deepest" \/ ~Fits(m.key, m.value))

\* Slip: a member it does not know is an error.
VisitKnownMember(m) ==
  IF m.escaped \/ m.key = "other" \/ Refused(m) THEN Fails(alone)
  ELSE [alone EXCEPT !.req[m.key] = FieldValue(m.key, m.value)]

\* One round of the loop of `visit_map`.
VisitMember(m) ==
  IF m.escaped \/ Refused(m) THEN Fails(alone)
  ELSE IF m.key = "other" THEN alone
  ELSE [alone EXCEPT !.req[m.key] = FieldValue(m.key, m.value)]

\* The derived reader refuses a field that comes twice; it must remember even one that
\* was null.
DerivedMember(m) ==
  IF m.key = "other" THEN inBatch
  ELSE IF \E j \in 1 .. pos : members[j].key = m.key THEN Fails(inBatch)
  ELSE IF RefusedInBatch(m) THEN Fails(inBatch)
  ELSE [inBatch EXCEPT !.req[m.key] = FieldValue(m.key, m.value)]

ReadMember ==
  /\ pos < Len(members)
  /\ pos' = pos + 1
  /\ alone' = IF alone.pc = "reading" THEN VisitMember(members[pos + 1]) ELSE alone
  /\ inBatch' = IF inBatch.pc = "reading" THEN DerivedMember(members[pos + 1]) ELSE inBatch
  /\ UNCHANGED members

\* The object ends: method and params must have come.
Closed(r) ==
  IF Absent \in {r.req["method"], r.req["params"]} THEN Fails(r) ELSE [r EXCEPT !.pc = "read"]

Close ==
  /\ pos = Len(members) /\ "reading" \in {alone.pc, inBatch.pc}
  /\ alone' = IF alone.pc = "reading" THEN Closed(alone) ELSE alone
  /\ inBatch' = IF inBatch.pc = "reading" THEN Closed(inBatch) ELSE inBatch
  /\ UNCHANGED <<members, pos>>

BodyNext == ReadMember \/ Close

\* The members written of a request: those that are not `None`.
Serialized(req) == {[key |-> k, value |-> req[k]] : k \in {k \in Keys : req[k] # Absent}}

\* `is_notification`: bitcoind runs it and never answers.  The string is "2.0".
IsNotification(req) == req["id"] = Absent /\ req["jsonrpc"] = "string"

-----------------------------------------------------------------------------

\* The value of the last member of a key, Absent if there is none.
Sent(k) ==
  LET last == SelectLastInSeq(members, LAMBDA m : m.key = k)
  IN IF last = 0 THEN Absent ELSE members[last].value

\* "Forwarded as sent" (client.rs): of the members bitcoind knows, those the caller sent
\* and no others are forwarded, with their values, however many others there were; only a
\* version of null is left out.  In particular a request is a notification to bitcoind if
\* and only if the caller sent no id.
ForwardedAsSent ==
  \A r \in {alone, inBatch} : r.pc = "read" =>
    /\ Serialized(r.req) = {[key |-> k, value |-> Sent(k)] :
                             k \in {k \in Keys : Sent(k) # Absent /\ (k = "jsonrpc" => Sent(k) # "null")}}
    /\ IsNotification(r.req) <=> Sent("id") = Absent /\ Sent("jsonrpc") = "string"

\* The two readers agree on what a request is, and on what is none, except that only the
\* visitor stumbles over an escaped key or an unknown member that is no `Value`, and only
\* the derived reader over a repeated key or a field nested to the limit.
ReadersAgree ==
  "reading" \notin {alone.pc, inBatch.pc} =>
    \/ alone = inBatch
    \/ alone.pc = "error" /\ inBatch.pc = "error"
    \/ /\ alone.pc = "error"
       /\ \E j \in DOMAIN members :
            members[j].escaped \/ (members[j].key = "other" /\ members[j].value = "unreadable")
    \/ /\ inBatch.pc = "error"
       /\ \E j \in DOMAIN members :
            \/ members[j].key # "other" /\ members[j].value = "deepest"
            \/ \E l \in DOMAIN members : j # l /\ members[j].key = members[l].key

=============================================================================
