--------------------------- MODULE PasswordCheck ---------------------------
(***************************************************************************)
(* `Users::get` and the comparison of passwords (src/src/users.rs), byte   *)
(* by byte: ProxyRequest takes it to be equality, with a panic.            *)
(*                                                                         *)
(* A configured user has a password in one of three forms.  For a hash,    *)
(* HMAC is taken to be injective: what is stored stands for the password   *)
(* it was made from.  For a cookie, what is stored is what CookiePassword  *)
(* returns, NoCookie if nothing.                                           *)
(***************************************************************************)
EXTENDS Naturals, Sequences, SequencesExt

CONSTANTS
  Bytes,        \* the bytes text is made of
  MaxName,      \* bound on the length of a user's name
  MaxPassword,  \* bound on the length of a stored password
  MaxText,      \* bound on the length of the credentials
  NoCookie      \* stands for the password when there is no cookie

Colon == 58

\* Lengths fit in a byte, so that eight bits do for all of `xor_contents`.
ASSUME TextAssumption ==
  /\ Bytes \subseteq 0 .. 255 /\ Colon \in Bytes
  /\ MaxName \in Nat /\ MaxPassword \in 0 .. 255 /\ MaxText \in 0 .. 255
  /\ NoCookie \notin Seq(Bytes)

Texts(n) == UNION {[1 .. k -> Bytes] : k \in 0 .. n}

VARIABLES
  name, kind, stored,  \* the configured user: its name, and its password's form and value
  text,                \* the header, decoded
  pc,                  \* "get", "fold", "done" or "panic"
  other,               \* the password given
  i, bits,             \* `xor_contents`: bytes folded so far, and the bits set in `acc`
  matches              \* the verdict

vars == <<name, kind, stored, text, pc, other, i, bits, matches>>

-----------------------------------------------------------------------------

Init ==
  /\ name \in Texts(MaxName)
  /\ kind \in {"Cleartext", "Hash", "CookieFile"}
  /\ stored \in Texts(MaxPassword) \cup (IF kind = "CookieFile" THEN {NoCookie} ELSE {})
  /\ text \in Texts(MaxText)
  /\ pc = "get"
  /\ other = <<>>
  /\ i = 0
  /\ bits = {}
  /\ matches = FALSE

Ends(verdict) ==
  /\ pc' = "done"
  /\ matches' = verdict
  /\ UNCHANGED <<i, bits>>

\* `split_once(":")`: where.
SplitAt(s) == SelectInSeq(s, LAMBDA b : b = Colon)

\* Slip: the fold starts from the bytes alone.
StartAtZero(a, b) == {}

\* The bits of a number, and of the exclusive or of two.
BitsOf(n) == {k \in 0 .. 7 : (n \div 2^k) % 2 = 1}
Xor(m, n) == SymDiff(BitsOf(m), BitsOf(n))

StartOfFold(a, b) == Xor(Len(a), Len(b))

\* Split the text, look the user up, and begin the comparison its password asks for.
Get ==
  /\ pc = "get"
  /\ UNCHANGED <<name, kind, stored, text>>
  /\ LET at == SplitAt(text)
         given == SubSeq(text, at + 1, Len(text))
     IN IF at = 0 \/ SubSeq(text, 1, at - 1) # name
        THEN Ends(FALSE) /\ UNCHANGED other
        ELSE /\ other' = given
             /\ \/ kind = "Hash" /\ Ends(given = stored)
                \/ kind # "Hash" /\ stored = NoCookie /\ Ends(FALSE)
                \/ kind # "Hash" /\ stored = <<>> /\ Ends(given = <<>>)
                \/ /\ kind # "Hash" /\ stored \notin {NoCookie, <<>>}
                   /\ pc' = "fold"
                   /\ bits' = StartOfFold(stored, given)
                   /\ UNCHANGED <<i, matches>>

FoldGoesOn == i < Len(stored)

\* Slip: `b[i]`.
PanicsPastTheEnd == i >= Len(other)

\* `b[i % b.len()]` panics if `b` has no bytes.
Panics == Len(other) = 0

\* One byte of `xor_contents`.
Fold ==
  /\ pc = "fold" /\ FoldGoesOn
  /\ UNCHANGED <<name, kind, stored, text, other, matches>>
  /\ IF Panics
     THEN pc' = "panic" /\ UNCHANGED <<i, bits>>
     ELSE /\ bits' = bits \cup Xor(stored[i + 1], other[(i % Len(other)) + 1])
          /\ i' = i + 1
          /\ UNCHANGED pc

Compared ==
  /\ pc = "fold" /\ ~FoldGoesOn
  /\ UNCHANGED <<name, kind, stored, text, other>>
  /\ Ends(bits = {})

Next == Get \/ Fold \/ Compared

Spec == Init /\ [][Next]_vars /\ WF_vars(Next)

-----------------------------------------------------------------------------

\* The user is let in by its name, a colon and its password and by nothing else, although
\* the comparison goes round a shorter password again and again; a name with a colon in it
\* never gets in, and nobody does without a cookie.
LetInByPasswordOnly ==
  pc = "done" =>
    (matches <=> /\ stored # NoCookie
                 /\ Colon \notin ToSet(name)
                 /\ text = name \o <<Colon>> \o stored)

\* An empty password is given for one that is stored and not empty.
EmptyGiven ==
  /\ kind # "Hash" /\ stored \notin {NoCookie, <<>>}
  /\ Colon \notin ToSet(name) /\ text = name \o <<Colon>>

\* The comparison always comes to a verdict, except that an empty password given for one
\* that is stored and not empty panics (`i % b.len()` in `xor_contents`).
VerdictOrPanic == <>(pc = IF EmptyGiven THEN "panic" ELSE "done")

=============================================================================
