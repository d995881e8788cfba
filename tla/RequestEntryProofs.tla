------------------------- MODULE RequestEntryProofs -------------------------
(***************************************************************************)
(* RequestEntry, for credentials over any bytes and bodies of any length:  *)
(* who is let in, what is forwarded of a request, and where its two        *)
(* readers differ.                                                         *)
(***************************************************************************)
EXTENDS RequestEntry, SequenceTheorems, WellFoundedInduction, TLAPS

\* The credentials split into a name and a password.
SplitsInto(n, p) ==
  /\ SplitAt(text) # 0
  /\ SubSeq(text, 1, SplitAt(text) - 1) = n
  /\ SubSeq(text, SplitAt(text) + 1, Len(text)) = p

\* The byte of the password given that the j-th of the one stored is compared with.
Opposite(j) == other[((j - 1) % Len(other)) + 1]

\* In the middle of the fold no bit is set if and only if the lengths are the same and so
\* are the bytes up to there.
FoldInv ==
  /\ stored \in Seq(Bytes) \ {<<>>}
  /\ other \in Seq(Bytes) /\ Len(other) <= 255
  /\ SplitsInto(name, other)
  /\ i \in 0 .. Len(stored)
  /\ bits = {} <=> Len(stored) = Len(other) /\ \A j \in 1 .. i : stored[j] = Opposite(j)

CheckInv ==
  /\ name \in Seq(Bytes)
  /\ text \in Seq(Bytes) /\ Len(text) <= 255
  /\ stored \in Seq(Bytes) \cup {NoCookie} /\ (stored # NoCookie => Len(stored) <= 255)
  /\ pc = "get" => i = 0
  /\ pc = "fold" => FoldInv
  /\ LetInByPasswordOnly

\* How the comparison may end; while it goes on, whether it will panic shows in the
\* password given.
EndsRight ==
  pc \in {"done", "panic"} => pc = IF EmptyGiven THEN "panic" ELSE "done"

OutcomeInv ==
  /\ pc \in {"get", "fold", "done", "panic"}
  /\ pc = "fold" => /\ EmptyGiven <=> Len(other) = 0
                    /\ i > 0 => Len(other) # 0
  /\ EndsRight

\* What a request is when the first p members have been read: of each field, the last
\* member of its key.
Latest(req, p) ==
  \A k \in Keys :
    \/ req[k] = Absent /\ \A j \in 1 .. p : members[j].key # k
    \/ \E j \in 1 .. p :
         /\ members[j].key = k
         /\ req[k] = FieldValue(k, members[j].value)
         /\ \A l \in j + 1 .. p : members[l].key # k

\* A reader that has failed only when the object ended.
Incomplete(r) ==
  /\ pos = Len(members)
  /\ Latest(r.req, pos)
  /\ Absent \in {r.req["method"], r.req["params"]}

Readers == [pc : {"reading", "read", "error"}, req : [Keys -> Values \cup {Absent}]]

Repeated(p) ==
  \E j, l \in 1 .. p : j # l /\ members[j].key = members[l].key /\ members[j].key # "other"

VisitorInv ==
  /\ alone.pc # "error" =>
       /\ Latest(alone.req, pos)
       /\ \A j \in 1 .. pos : ~members[j].escaped /\ ~Refused(members[j])
  /\ alone.pc = "error" =>
       \/ \E j \in 1 .. pos : members[j].escaped \/ Refused(members[j])
       \/ Incomplete(alone)

DerivedInv ==
  /\ inBatch.pc # "error" =>
       /\ Latest(inBatch.req, pos)
       /\ \A j \in 1 .. pos : ~RefusedInBatch(members[j])
       /\ ~Repeated(pos)
  /\ inBatch.pc = "error" =>
       \/ \E j \in 1 .. pos : RefusedInBatch(members[j])
       \/ Repeated(pos)
       \/ Incomplete(inBatch)

BodyInv ==
  /\ members \in Seq(Members)
  /\ pos \in 0 .. Len(members)
  /\ alone \in Readers /\ inBatch \in Readers
  /\ \A r \in {alone, inBatch} :
       r.pc = "read" => pos = Len(members) /\ Absent \notin {r.req["method"], r.req["params"]}
  /\ VisitorInv
  /\ DerivedInv

-----------------------------------------------------------------------------

\* A number has the bits of its half, one place up.
LEMMA Halves ==
  ASSUME NEW n \in 0 .. 255
  PROVE  /\ n \div 2^7 \in {0, 1}
         /\ n \div 2^7 = (n \div 2^7) % 2
         /\ n \div 2^6 = 2 * (n \div 2^7) + ((n \div 2^6) % 2)
         /\ n \div 2^5 = 2 * (n \div 2^6) + ((n \div 2^5) % 2)
         /\ n \div 2^4 = 2 * (n \div 2^5) + ((n \div 2^4) % 2)
         /\ n \div 2^3 = 2 * (n \div 2^4) + ((n \div 2^3) % 2)
         /\ n \div 2^2 = 2 * (n \div 2^3) + ((n \div 2^2) % 2)
         /\ n \div 2^1 = 2 * (n \div 2^2) + ((n \div 2^1) % 2)
         /\ n = n \div 2^0
         /\ n \div 2^0 = 2 * (n \div 2^1) + ((n \div 2^0) % 2)
<1>1. 2^0 = 1 /\ 2^1 = 2 /\ 2^2 = 4 /\ 2^3 = 8 /\ 2^4 = 16 /\ 2^5 = 32 /\ 2^6 = 64 /\ 2^7 = 128
  OBVIOUS
<1>2. n \div 128 \in {0, 1} /\ n \div 128 = (n \div 128) % 2
  OBVIOUS
<1>3. n \div 64 = 2 * (n \div 128) + ((n \div 64) % 2)
  OBVIOUS
<1>4. n \div 32 = 2 * (n \div 64) + ((n \div 32) % 2)
  OBVIOUS
<1>5. n \div 16 = 2 * (n \div 32) + ((n \div 16) % 2)
  OBVIOUS
<1>6. n \div 8 = 2 * (n \div 16) + ((n \div 8) % 2)
  OBVIOUS
<1>7. n \div 4 = 2 * (n \div 8) + ((n \div 4) % 2)
  OBVIOUS
<1>8. n \div 2 = 2 * (n \div 4) + ((n \div 2) % 2)
  OBVIOUS
<1>9. n = n \div 1 /\ n = 2 * (n \div 2) + ((n \div 1) % 2)
  OBVIOUS
<1> QED
  BY <1>1, <1>2, <1>3, <1>4, <1>5, <1>6, <1>7, <1>8, <1>9

\* The exclusive or of two bytes is zero only if they are the same.
LEMMA XorZero ==
  ASSUME NEW m \in 0 .. 255, NEW n \in 0 .. 255
  PROVE  Xor(m, n) = {} <=> m = n
<1>1. m = n => Xor(m, n) = {}
  BY DEF Xor, SymDiff
<1>2. ASSUME Xor(m, n) = {}
      PROVE  m = n
  <2>1. BitsOf(m) = BitsOf(n)
    BY <1>2 DEF Xor, SymDiff
  <2>2. ASSUME NEW k \in 0 .. 7
        PROVE  (m \div 2^k) % 2 = 1 <=> (n \div 2^k) % 2 = 1
    BY <2>1 DEF BitsOf
  <2>3. ASSUME NEW q \in Nat, NEW r \in Nat, q % 2 = 1 <=> r % 2 = 1
        PROVE  q % 2 = r % 2
    BY <2>3
  <2>4. m \div 2^7 = n \div 2^7
    BY <2>2, Halves
  <2>5. m \div 2^6 = n \div 2^6
    <3>1. m \div 2^6 \in Nat /\ n \div 2^6 \in Nat
      OBVIOUS
    <3>2. (m \div 2^6) % 2 = (n \div 2^6) % 2
      BY <2>2, <2>3, <3>1
    <3> QED
      BY <2>4, <3>2, Halves
  <2>6. m \div 2^5 = n \div 2^5
    <3>1. m \div 2^5 \in Nat /\ n \div 2^5 \in Nat
      OBVIOUS
    <3>2. (m \div 2^5) % 2 = (n \div 2^5) % 2
      BY <2>2, <2>3, <3>1
    <3> QED
      BY <2>5, <3>2, Halves
  <2>7. m \div 2^4 = n \div 2^4
    <3>1. m \div 2^4 \in Nat /\ n \div 2^4 \in Nat
      OBVIOUS
    <3>2. (m \div 2^4) % 2 = (n \div 2^4) % 2
      BY <2>2, <2>3, <3>1
    <3> QED
      BY <2>6, <3>2, Halves
  <2>8. m \div 2^3 = n \div 2^3
    <3>1. m \div 2^3 \in Nat /\ n \div 2^3 \in Nat
      OBVIOUS
    <3>2. (m \div 2^3) % 2 = (n \div 2^3) % 2
      BY <2>2, <2>3, <3>1
    <3> QED
      BY <2>7, <3>2, Halves
  <2>9. m \div 2^2 = n \div 2^2
    <3>1. m \div 2^2 \in Nat /\ n \div 2^2 \in Nat
      OBVIOUS
    <3>2. (m \div 2^2) % 2 = (n \div 2^2) % 2
      BY <2>2, <2>3, <3>1
    <3> QED
      BY <2>8, <3>2, Halves
  <2>10. m \div 2^1 = n \div 2^1
    <3>1. m \div 2^1 \in Nat /\ n \div 2^1 \in Nat
      OBVIOUS
    <3>2. (m \div 2^1) % 2 = (n \div 2^1) % 2
      BY <2>2, <2>3, <3>1
    <3> QED
      BY <2>9, <3>2, Halves
  <2>11. m \div 2^0 = n \div 2^0
    <3>1. m \div 2^0 \in Nat /\ n \div 2^0 \in Nat
      OBVIOUS
    <3>2. (m \div 2^0) % 2 = (n \div 2^0) % 2
      BY <2>2, <2>3, <3>1
    <3> QED
      BY <2>10, <3>2, Halves
  <2> QED
    BY <2>11, Halves
<1> QED
  BY <1>1, <1>2

\* A set of naturals has a least element.
LEMMA LeastNat ==
  ASSUME NEW T, T \subseteq Nat, T # {}
  PROVE  \E n \in T : \A m \in T : n <= m
<1>1. PICK n \in T : \A m \in T : ~(<<m, n>> \in OpToRel(<, Nat))
  BY NatLessThanWellFounded, WFMin, Zenon
<1>2. \A m \in T : ~(m < n)
  BY <1>1 DEF OpToRel
<1> QED
  BY <1>2

\* `split_once` splits at the first colon, if there is one.
LEMMA SplitFacts ==
  ASSUME NEW s \in Seq(Bytes)
  PROVE  /\ SplitAt(s) = 0 => \A j \in 1 .. Len(s) : s[j] # Colon
         /\ SplitAt(s) # 0 => /\ SplitAt(s) \in 1 .. Len(s)
                              /\ s[SplitAt(s)] = Colon
                              /\ \A j \in 1 .. SplitAt(s) - 1 : s[j] # Colon
         /\ SplitAt(s) \in 0 .. Len(s)
<1> DEFINE T == {j \in 1 .. Len(s) : s[j] = Colon}
<1>1. SplitAt(s) = IF T # {} THEN CHOOSE x \in T : \A y \in T : x =< y ELSE 0
  BY DEF SplitAt, SelectInSeq, Min
<1>2. CASE T = {}
  BY <1>1, <1>2
<1>3. CASE T # {}
  <2>1. \E x \in T : \A y \in T : x =< y
    <3>1. T \subseteq Nat
      OBVIOUS
    <3> QED
      BY <1>3, <3>1, LeastNat, Zenon
  <2>2. SplitAt(s) \in T /\ \A y \in T : SplitAt(s) =< y
    BY <1>1, <1>3, <2>1
  <2>3. Len(s) \in Nat
    OBVIOUS
  <2> QED
    BY <2>2, <2>3
<1> QED
  BY <1>2, <1>3

\* A text splits into a name and a password if and only if it is them with a colon between
\* and the name has none.
LEMMA SplitIff ==
  ASSUME NEW s \in Seq(Bytes), NEW n \in Seq(Bytes), NEW p \in Seq(Bytes)
  PROVE  /\ SplitAt(s) # 0
         /\ SubSeq(s, 1, SplitAt(s) - 1) = n
         /\ SubSeq(s, SplitAt(s) + 1, Len(s)) = p
         <=>
         /\ Colon \notin ToSet(n)
         /\ s = n \o <<Colon>> \o p
<1> DEFINE at == SplitAt(s)
           c == <<Colon>>
           whole == (n \o c) \o p
<1>1. c \in Seq(Bytes) /\ Len(c) = 1 /\ c[1] = Colon
  BY TextAssumption
<1>2. /\ n \o c \in Seq(Bytes) /\ Len(n \o c) = Len(n) + 1
      /\ \A j \in 1 .. Len(n) + 1 : (n \o c)[j] = IF j <= Len(n) THEN n[j] ELSE c[j - Len(n)]
  BY <1>1, ConcatProperties
<1>3. /\ whole \in Seq(Bytes) /\ Len(whole) = Len(n) + 1 + Len(p)
      /\ \A j \in 1 .. Len(n) + 1 + Len(p) :
           whole[j] = IF j <= Len(n) + 1 THEN (n \o c)[j] ELSE p[j - (Len(n) + 1)]
  <2>1. \A j \in 1 .. Len(n \o c) + Len(p) :
          whole[j] = IF j <= Len(n \o c) THEN (n \o c)[j] ELSE p[j - Len(n \o c)]
    BY <1>2, ConcatProperties
  <2> QED
    BY <1>2, <2>1, ConcatProperties
<1>4. Len(n) \in Nat /\ Len(p) \in Nat /\ Len(s) \in Nat
  OBVIOUS
<1>5. /\ \A j \in 1 .. Len(n) : whole[j] = n[j]
      /\ whole[Len(n) + 1] = Colon
      /\ \A j \in 1 .. Len(p) : whole[Len(n) + 1 + j] = p[j]
  BY <1>1, <1>2, <1>3, <1>4
<1>6. ASSUME at # 0, SubSeq(s, 1, at - 1) = n, SubSeq(s, at + 1, Len(s)) = p
      PROVE  Colon \notin ToSet(n) /\ s = whole
  <2>1. at \in 1 .. Len(s) /\ s[at] = Colon /\ \A j \in 1 .. at - 1 : s[j] # Colon
    BY <1>6, SplitFacts
  <2>2. Len(n) = at - 1 /\ \A j \in 1 .. at - 1 : n[j] = s[j]
    BY <1>6, <2>1, <1>4
  <2>3. Len(p) = Len(s) - at /\ \A j \in 1 .. Len(s) - at : p[j] = s[at + j]
    <3>1. /\ Len(SubSeq(s, at + 1, Len(s))) = Len(s) - at
          /\ \A j \in 1 .. Len(s) - at : SubSeq(s, at + 1, Len(s))[j] = s[at + j]
      BY <2>1, <1>4
    <3> QED
      BY <3>1, <1>6
  <2>4. Colon \notin ToSet(n)
    BY <2>1, <2>2 DEF ToSet
  <2>5. Len(s) = Len(whole)
    BY <1>3, <1>4, <2>1, <2>2, <2>3
  <2>6. ASSUME NEW j \in 1 .. Len(s)
        PROVE  s[j] = whole[j]
    <3>0. at \in Nat /\ j \in Nat
      BY <2>1, <1>4
    <3>1. CASE j < at
      BY <3>1, <1>5, <2>1, <2>2
    <3>2. CASE j = at
      BY <3>2, <1>5, <2>1, <2>2
    <3>3. CASE j > at
      <4>1. j - at \in 1 .. Len(p) /\ Len(n) + 1 + (j - at) = j
        BY <3>3, <2>1, <2>2, <2>3, <1>4
      <4>2. whole[j] = p[j - at]
        BY <4>1, <1>5
      <4>3. p[j - at] = s[at + (j - at)] /\ at + (j - at) = j
        BY <3>0, <4>1, <2>3
      <4> QED
        BY <4>2, <4>3
    <3>4. j < at \/ j = at \/ j > at
      BY <3>0
    <3> QED
      BY <3>1, <3>2, <3>3, <3>4, Zenon
  <2>7. s = whole
    BY <2>5, <2>6, <1>3, SeqEqual
  <2> QED
    BY <2>4, <2>7
<1>7. ASSUME Colon \notin ToSet(n), s = whole
      PROVE  at # 0 /\ SubSeq(s, 1, at - 1) = n /\ SubSeq(s, at + 1, Len(s)) = p
  <2>1. \A j \in 1 .. Len(n) : s[j] # Colon
    BY <1>7, <1>5 DEF ToSet
  <2>2. s[Len(n) + 1] = Colon /\ Len(n) + 1 \in 1 .. Len(s)
    BY <1>7, <1>3, <1>4, <1>5
  <2>3. at # 0
    BY <2>2, SplitFacts
  <2>4. at \in 1 .. Len(s) /\ s[at] = Colon /\ \A j \in 1 .. at - 1 : s[j] # Colon
    BY <2>3, SplitFacts
  <2>5. at = Len(n) + 1
    BY <2>1, <2>2, <2>4, <1>4
  <2>6. SubSeq(s, 1, at - 1) = n
    <3>1. /\ SubSeq(s, 1, at - 1) \in Seq(Bytes) /\ Len(SubSeq(s, 1, at - 1)) = Len(n)
          /\ \A j \in 1 .. Len(n) : SubSeq(s, 1, at - 1)[j] = s[j]
      BY <2>4, <2>5, <1>4
    <3> QED
      BY <3>1, <1>5, <1>7, SeqEqual
  <2>7. SubSeq(s, at + 1, Len(s)) = p
    <3>1. /\ SubSeq(s, at + 1, Len(s)) \in Seq(Bytes) /\ Len(SubSeq(s, at + 1, Len(s))) = Len(p)
          /\ \A j \in 1 .. Len(p) : SubSeq(s, at + 1, Len(s))[j] = s[at + j]
      BY <2>4, <2>5, <1>3, <1>4, <1>7
    <3>2. \A j \in 1 .. Len(p) : s[at + j] = p[j]
      BY <2>5, <1>5, <1>7
    <3> QED
      BY <3>1, <3>2, SeqEqual
  <2> QED
    BY <2>3, <2>6, <2>7
<1> QED
  BY <1>6, <1>7

\* The texts of up to n bytes are sequences of bytes.
LEMMA TextType ==
  ASSUME NEW n \in Nat, NEW s \in Texts(n)
  PROVE  s \in Seq(Bytes) /\ Len(s) \in 0 .. n
<1>1. PICK k \in 0 .. n : s \in [1 .. k -> Bytes]
  BY DEF Texts
<1>2. k \in Nat /\ k <= n
  OBVIOUS
<1> QED
  BY <1>1, <1>2

LEMMA InitCheckInv == Init => CheckInv
<1> SUFFICES ASSUME Init PROVE CheckInv
  OBVIOUS
<1>1. name \in Seq(Bytes)
  BY TextType, TextAssumption DEF Init
<1>2. text \in Seq(Bytes) /\ Len(text) <= 255
  BY TextType, TextAssumption DEF Init
<1>3. stored \in Seq(Bytes) \cup {NoCookie} /\ (stored # NoCookie => Len(stored) <= 255)
  <2>1. CASE stored \in Texts(MaxPassword)
    BY <2>1, TextType, TextAssumption
  <2>2. CASE stored \notin Texts(MaxPassword)
    BY <2>2 DEF Init
  <2> QED
    BY <2>1, <2>2
<1> QED
  BY <1>1, <1>2, <1>3 DEF Init, CheckInv, LetInByPasswordOnly

\* The verdict on what the credentials split into.
LEMMA Verdict ==
  ASSUME CheckInv, NEW p \in Seq(Bytes), SplitsInto(name, p)
  PROVE  /\ stored # NoCookie /\ Colon \notin ToSet(name) /\ text = name \o <<Colon>> \o stored
         <=> p = stored
<1>1. name \in Seq(Bytes) /\ text \in Seq(Bytes) /\ stored \in Seq(Bytes) \cup {NoCookie}
  BY DEF CheckInv
<1>2. CASE stored = NoCookie
  BY <1>2, TextAssumption
<1>3. CASE stored # NoCookie
  <2>1. stored \in Seq(Bytes)
    BY <1>1, <1>3
  <2>2. SplitsInto(name, stored) <=> Colon \notin ToSet(name) /\ text = name \o <<Colon>> \o stored
    <3>1. (/\ SplitAt(text) # 0
           /\ SubSeq(text, 1, SplitAt(text) - 1) = name
           /\ SubSeq(text, SplitAt(text) + 1, Len(text)) = stored)
          <=> Colon \notin ToSet(name) /\ text = name \o <<Colon>> \o stored
      BY <1>1, <2>1, SplitIff, Zenon
    <3> QED
      BY <3>1, Zenon DEF SplitsInto
  <2> QED
    BY <1>3, <2>2 DEF SplitsInto
<1> QED
  BY <1>2, <1>3

LEMMA GetCheckInv ==
  ASSUME CheckInv, Get
  PROVE  CheckInv'
<1> DEFINE at == SplitAt(text)
           given == SubSeq(text, at + 1, Len(text))
           right == /\ stored # NoCookie
                    /\ Colon \notin ToSet(name)
                    /\ text = name \o <<Colon>> \o stored
<1>1. /\ name \in Seq(Bytes) /\ text \in Seq(Bytes) /\ Len(text) <= 255
      /\ stored \in Seq(Bytes) \cup {NoCookie} /\ (stored # NoCookie => Len(stored) <= 255)
      /\ i = 0
      /\ name' = name /\ text' = text /\ stored' = stored
  BY DEF CheckInv, Get
<1>2. at \in 0 .. Len(text)
  BY <1>1, SplitFacts
<1>3. given \in Seq(Bytes) /\ Len(given) \in 0 .. 255 /\ Len(given) <= 255
  <2>1. Len(text) \in Nat /\ at \in Nat /\ at <= Len(text)
    BY <1>1, <1>2
  <2>2. given \in Seq(Bytes) /\ Len(given) = Len(text) - at
    BY <1>1, <2>1
  <2>3. Len(text) - at \in 0 .. 255
    <3>1. \A l, k \in Nat : k <= l /\ l <= 255 => l - k \in 0 .. 255
      OBVIOUS
    <3> QED
      BY <1>1, <2>1, <3>1, Zenon
  <2>4. Len(given) \in 0 .. 255
    BY <2>2, <2>3, Zenon
  <2>5. \A l \in 0 .. 255 : l <= 255
    OBVIOUS
  <2> QED
    BY <2>2, <2>4, <2>5, Zenon
<1>4. ASSUME Ends(right)
      PROVE  CheckInv'
  <2>1. pc' = "done" /\ (matches' <=> right)
    BY <1>4 DEF Ends
  <2>2. LetInByPasswordOnly'
    BY <1>1, <2>1 DEF LetInByPasswordOnly
  <2> QED
    BY <1>1, <2>1, <2>2 DEF CheckInv
<1>5. CASE at = 0 \/ SubSeq(text, 1, at - 1) # name
  <2>1. ~right
    <3>1. ~SplitsInto(name, stored)
      BY <1>5 DEF SplitsInto
    <3>2. CASE stored = NoCookie
      BY <3>2
    <3>3. CASE stored # NoCookie
      <4>1. stored \in Seq(Bytes)
        BY <1>1, <3>3
      <4> QED
        BY <1>1, <3>1, <4>1, SplitIff, Zenon DEF SplitsInto
    <3> QED
      BY <3>2, <3>3
  <2>2. Ends(FALSE)
    BY <1>5 DEF Get
  <2> QED
    BY <1>4, <2>1, <2>2
<1>6. CASE ~(at = 0 \/ SubSeq(text, 1, at - 1) # name)
  <2>1. SplitsInto(name, given)
    BY <1>6 DEF SplitsInto
  <2>2. right <=> given = stored
    BY <1>3, <2>1, Verdict
  <2>3. /\ other' = given
        /\ \/ kind = "Hash" /\ Ends(given = stored)
           \/ kind # "Hash" /\ stored = NoCookie /\ Ends(FALSE)
           \/ kind # "Hash" /\ stored = <<>> /\ Ends(given = <<>>)
           \/ /\ stored \notin {NoCookie, <<>>}
              /\ pc' = "fold"
              /\ bits' = StartOfFold(stored, given)
              /\ UNCHANGED <<i, matches>>
    BY <1>6 DEF Get
  <2>4. CASE Ends(given = stored)
    BY <1>4, <2>2, <2>4 DEF Ends
  <2>5. CASE stored = NoCookie /\ Ends(FALSE)
    BY <1>4, <2>5 DEF Ends
  <2>6. CASE stored = <<>> /\ Ends(given = <<>>)
    BY <1>4, <2>2, <2>6 DEF Ends
  <2>7. CASE /\ stored \notin {NoCookie, <<>>}
             /\ pc' = "fold"
             /\ bits' = StartOfFold(stored, given)
             /\ UNCHANGED <<i, matches>>
    <3>1. stored \in Seq(Bytes) /\ Len(stored) \in 0 .. 255 /\ Len(given) \in 0 .. 255
      <4>1. stored \in Seq(Bytes) /\ Len(stored) <= 255
        BY <1>1, <2>7
      <4>2. Len(stored) \in Nat
        BY <4>1
      <4>3. \A l \in Nat : l <= 255 => l \in 0 .. 255
        OBVIOUS
      <4> QED
        BY <4>1, <4>2, <4>3, <1>3, Zenon
    <3>2. bits' = {} <=> Len(stored) = Len(given)
      <4>1. bits' = Xor(Len(stored), Len(given))
        BY <2>7 DEF StartOfFold
      <4> QED
        BY <3>1, <4>1, XorZero
    <3>3. SplitsInto(name, other)'
      BY <1>1, <2>1, <2>3 DEF SplitsInto
    <3>4. i' = 0 /\ 1 .. i' = {}
      BY <1>1, <2>7
    <3>5. FoldInv'
      BY <1>1, <1>3, <2>3, <2>7, <3>1, <3>2, <3>3, <3>4 DEF FoldInv
    <3> QED
      BY <1>1, <2>7, <3>5 DEF CheckInv, LetInByPasswordOnly
  <2> QED
    BY <2>3, <2>4, <2>5, <2>6, <2>7
<1> QED
  BY <1>5, <1>6

LEMMA FoldCheckInv ==
  ASSUME CheckInv, Fold
  PROVE  CheckInv'
<1>1. /\ FoldInv /\ pc = "fold" /\ i < Len(stored)
      /\ UNCHANGED <<name, stored, text, other, matches>>
  BY DEF CheckInv, Fold, FoldGoesOn
<1>2. CASE Panics
  <2>1. pc' = "panic"
    BY <1>2 DEF Fold
  <2> QED
    BY <1>1, <2>1 DEF CheckInv, LetInByPasswordOnly
<1>3. CASE ~Panics
  <2>1. /\ bits' = bits \cup Xor(stored[i + 1], other[(i % Len(other)) + 1])
        /\ i' = i + 1
        /\ pc' = pc
    BY <1>3 DEF Fold
  <2>2. stored \in Seq(Bytes) /\ other \in Seq(Bytes) /\ Len(other) # 0
    BY <1>1, <1>3 DEF FoldInv, Panics
  <2>3. Len(stored) \in Nat /\ Len(other) \in Nat \ {0} /\ i \in Nat
    BY <1>1, <2>2 DEF FoldInv
  <2>4. i + 1 \in 1 .. Len(stored) /\ (i % Len(other)) + 1 \in 1 .. Len(other)
    <3>1. i % Len(other) \in 0 .. Len(other) - 1
      BY <2>3
    <3> QED
      BY <1>1, <2>3, <3>1
  <2>5. stored[i + 1] \in 0 .. 255 /\ other[(i % Len(other)) + 1] \in 0 .. 255
    <3>1. stored[i + 1] \in Bytes /\ other[(i % Len(other)) + 1] \in Bytes
      BY <2>2, <2>4, ElementOfSeq, Zenon
    <3>2. \A b \in Bytes : b \in 0 .. 255
      BY TextAssumption
    <3> QED
      BY <3>1, <3>2, Zenon
  <2>6. (i + 1) - 1 = i
    BY <2>3
  <2>7. Xor(stored[i + 1], other[(i % Len(other)) + 1]) = {} <=> stored[i + 1] = Opposite(i + 1)
    <3>1. Opposite(i + 1) = other[(i % Len(other)) + 1]
      BY <2>6, Zenon DEF Opposite
    <3> QED
      <4> DEFINE a == stored[i + 1]
                 b == other[(i % Len(other)) + 1]
      <4>1. a \in 0 .. 255 /\ b \in 0 .. 255 /\ Opposite(i + 1) = b
        BY <2>5, <3>1
      <4> HIDE DEF a, b
      <4>2. Xor(a, b) = {} <=> a = Opposite(i + 1)
        BY <4>1, XorZero
      <4> QED
        BY <4>2 DEF a, b
  <2>8. bits' = {} <=> bits = {} /\ stored[i + 1] = Opposite(i + 1)
    BY <2>1, <2>7
  <2>9. 1 .. i' = (1 .. i) \cup {i + 1}
    BY <2>1, <2>3
  <2>10. \A j : Opposite(j)' = Opposite(j)
    BY <1>1 DEF Opposite
  <2>11. bits' = {} <=>
           Len(stored) = Len(other) /\ \A j \in 1 .. i' : stored[j] = Opposite(j)
    BY <1>1, <2>8, <2>9, Zenon DEF FoldInv
  <2>12. i' \in 0 .. Len(stored)
    BY <2>1, <2>3, <2>4
  <2>13. FoldInv'
    <3>1. SplitsInto(name, other)'
      BY <1>1 DEF FoldInv, SplitsInto
    <3>2. (bits = {} <=> Len(stored) = Len(other) /\ \A j \in 1 .. i : stored[j] = Opposite(j))'
      BY <1>1, <2>10, <2>11
    <3> QED
      BY <1>1, <2>12, <3>1, <3>2 DEF FoldInv
  <2> QED
    BY <1>1, <2>1, <2>13 DEF CheckInv, LetInByPasswordOnly
<1> QED
  BY <1>2, <1>3

LEMMA ComparedCheckInv ==
  ASSUME CheckInv, Compared
  PROVE  CheckInv'
<1>1. /\ FoldInv /\ pc = "fold" /\ ~(i < Len(stored))
      /\ UNCHANGED <<name, stored, text, other>>
      /\ pc' = "done" /\ matches' = (bits = {})
  BY DEF CheckInv, Compared, FoldGoesOn, Ends
<1>2. /\ stored \in Seq(Bytes) /\ other \in Seq(Bytes) /\ SplitsInto(name, other)
      /\ i \in 0 .. Len(stored)
      /\ bits = {} <=> Len(stored) = Len(other) /\ \A j \in 1 .. i : stored[j] = Opposite(j)
  BY <1>1 DEF FoldInv
<1>3. i = Len(stored) /\ Len(stored) \in Nat /\ Len(other) \in Nat
  BY <1>1, <1>2
<1>4. ASSUME Len(stored) = Len(other), NEW j \in 1 .. Len(stored)
      PROVE  Opposite(j) = other[j]
  <2>1. j - 1 \in Nat /\ j - 1 < Len(other)
    BY <1>3, <1>4
  <2>2. (j - 1) % Len(other) = j - 1
    BY <1>3, <2>1
  <2>3. (j - 1) + 1 = j
    BY <1>3
  <2> QED
    BY <2>2, <2>3 DEF Opposite
<1>5. bits = {} <=> stored = other
  <2>1. ASSUME bits = {} PROVE stored = other
    <3>1. Len(stored) = Len(other) /\ \A j \in 1 .. Len(stored) : stored[j] = other[j]
      BY <1>2, <1>3, <1>4, <2>1
    <3> QED
      BY <1>2, <3>1, SeqEqual
  <2>2. ASSUME stored = other PROVE bits = {}
    <3>1. Len(stored) = Len(other) /\ \A j \in 1 .. Len(stored) : stored[j] = Opposite(j)
      BY <1>4, <2>2
    <3> QED
      BY <1>2, <1>3, <3>1
  <2> QED
    BY <2>1, <2>2
<1>6. /\ stored # NoCookie /\ Colon \notin ToSet(name) /\ text = name \o <<Colon>> \o stored
      <=> other = stored
  BY <1>2, Verdict
<1>7. LetInByPasswordOnly'
  BY <1>1, <1>5, <1>6 DEF LetInByPasswordOnly
<1> QED
  BY <1>1, <1>7 DEF CheckInv

LEMMA NextCheckInv ==
  ASSUME CheckInv, [EntryNext]_entryVars
  PROVE  CheckInv'
<1>1. CASE Get
  BY <1>1, GetCheckInv
<1>2. CASE Fold
  BY <1>2, FoldCheckInv
<1>3. CASE Compared
  BY <1>3, ComparedCheckInv
<1>4. CASE UNCHANGED vars
  BY <1>4 DEF vars, CheckInv, FoldInv, SplitsInto, Opposite, LetInByPasswordOnly
<1> QED
  BY <1>1, <1>2, <1>3, <1>4 DEF EntryNext, CheckCredentials, ReadBody, Next, entryVars

\* Whether the credentials split into the name and an empty password.
LEMMA EmptySplit ==
  ASSUME CheckInv
  PROVE  Colon \notin ToSet(name) /\ text = name \o <<Colon>> <=> SplitsInto(name, <<>>)
<1>1. name \in Seq(Bytes) /\ text \in Seq(Bytes) /\ <<>> \in Seq(Bytes)
  BY DEF CheckInv
<1>2. (/\ SplitAt(text) # 0
       /\ SubSeq(text, 1, SplitAt(text) - 1) = name
       /\ SubSeq(text, SplitAt(text) + 1, Len(text)) = <<>>)
      <=> Colon \notin ToSet(name) /\ text = name \o <<Colon>> \o <<>>
  BY <1>1, SplitIff, Zenon
<1>3. name \o <<Colon>> \in Seq(Bytes)
  BY <1>1, TextAssumption
<1>4. (name \o <<Colon>>) \o <<>> = name \o <<Colon>>
  BY <1>3, ConcatEmptySeq
<1> QED
  BY <1>2, <1>4, Zenon DEF SplitsInto

LEMMA NextOutcomeInv ==
  ASSUME CheckInv, OutcomeInv, [EntryNext]_entryVars
  PROVE  OutcomeInv'
<1> DEFINE given == SubSeq(text, SplitAt(text) + 1, Len(text))
<1>1. CASE Get
  <2>1. UNCHANGED <<name, kind, stored, text>> /\ EmptyGiven' = EmptyGiven
    BY <1>1 DEF Get, EmptyGiven
  <2>2. EmptyGiven <=> /\ kind # "Hash" /\ stored \notin {NoCookie, <<>>}
                       /\ SplitsInto(name, <<>>)
    BY EmptySplit DEF EmptyGiven
  <2>3. \A verdict : Ends(verdict) => pc' = "done"
    BY DEF Ends
  <2>4. CASE SplitAt(text) = 0 \/ SubSeq(text, 1, SplitAt(text) - 1) # name
    <3>1. ~EmptyGiven
      BY <2>2, <2>4 DEF SplitsInto
    <3>2. pc' = "done"
      BY <1>1, <2>3, <2>4 DEF Get
    <3> QED
      BY <2>1, <3>1, <3>2 DEF OutcomeInv, EndsRight
  <2>5. CASE ~(SplitAt(text) = 0 \/ SubSeq(text, 1, SplitAt(text) - 1) # name)
    <3>1. SplitsInto(name, <<>>) <=> given = <<>>
      BY <2>5 DEF SplitsInto
    <3>2. CASE kind = "Hash" \/ stored = NoCookie \/ stored = <<>>
      <4>1. ~EmptyGiven /\ pc' = "done"
        BY <1>1, <2>3, <2>5, <3>2 DEF Get, EmptyGiven
      <4> QED
        BY <2>1, <4>1 DEF OutcomeInv, EndsRight
    <3>3. CASE ~(kind = "Hash" \/ stored = NoCookie \/ stored = <<>>)
      <4>1. pc' = "fold" /\ other' = given /\ i' = i /\ pc = "get"
        BY <1>1, <2>5, <3>3 DEF Get
      <4>2. other' \in Seq(Bytes)
        BY <1>1, <4>1, GetCheckInv DEF CheckInv, FoldInv
      <4>3. EmptyGiven <=> other' = <<>>
        BY <2>2, <3>1, <3>3, <4>1
      <4>4. EmptyGiven <=> Len(other') = 0
        BY <4>2, <4>3, EmptySeq
      <4>5. i' = 0
        BY <4>1 DEF CheckInv
      <4>6. EmptyGiven' <=> Len(other') = 0
        BY <2>1, <4>4
      <4>7. ~(i' > 0)
        BY <4>5
      <4> QED
        BY <4>1, <4>6, <4>7, Zenon DEF OutcomeInv, EndsRight
    <3> QED
      BY <3>2, <3>3
  <2> QED
    BY <2>4, <2>5
<1>2. CASE Fold
  <2>1. pc = "fold" /\ UNCHANGED <<name, kind, stored, text, other>> /\ EmptyGiven' = EmptyGiven
    BY <1>2 DEF Fold, EmptyGiven
  <2>2. EmptyGiven <=> Panics
    BY <2>1 DEF OutcomeInv, Panics
  <2>3. CASE Panics
    BY <1>2, <2>1, <2>2, <2>3 DEF Fold, OutcomeInv, EndsRight
  <2>4. CASE ~Panics
    BY <1>2, <2>1, <2>2, <2>4 DEF Fold, Panics, OutcomeInv, EndsRight
  <2> QED
    BY <2>3, <2>4
<1>3. CASE Compared
  <2>1. /\ pc = "fold" /\ pc' = "done" /\ ~(i < Len(stored))
        /\ EmptyGiven' = EmptyGiven
    BY <1>3 DEF Compared, Ends, FoldGoesOn, EmptyGiven
  <2>2. stored \in Seq(Bytes) /\ stored # <<>> /\ i \in 0 .. Len(stored)
    BY <2>1 DEF CheckInv, FoldInv
  <2>3. Len(stored) \in Nat \ {0}
    BY <2>2, EmptySeq
  <2>4. i > 0
    BY <2>1, <2>2, <2>3
  <2>5. ~EmptyGiven
    BY <2>1, <2>4 DEF OutcomeInv
  <2> QED
    BY <2>1, <2>5 DEF OutcomeInv, EndsRight
<1>4. CASE UNCHANGED vars
  BY <1>4 DEF vars, OutcomeInv, EndsRight, EmptyGiven
<1> QED
  BY <1>1, <1>2, <1>3, <1>4 DEF EntryNext, CheckCredentials, ReadBody, Next, entryVars

\* A user is let in by its name and its password and by nothing else, whatever bytes they
\* are made of and however long they are: `Users::get` and `xor_contents`.
THEOREM PasswordDecides == EntrySpec => []LetInByPasswordOnly
<1>1. EntryInit => CheckInv
  BY InitCheckInv DEF EntryInit
<1>2. CheckInv /\ [EntryNext]_entryVars => CheckInv'
  BY NextCheckInv
<1>3. CheckInv => LetInByPasswordOnly
  BY DEF CheckInv
<1> QED
  BY <1>1, <1>2, <1>3, PTL DEF EntrySpec

\* A comparison that ends comes to a verdict, unless an empty password was given for one
\* that is not: of all passwords given only the empty one panics (`i % b.len()` in
\* `xor_contents`).  That every comparison ends is VerdictOrPanic.
THEOREM OnlyEmptyPanics == EntrySpec => []EndsRight
<1>1. EntryInit => CheckInv /\ OutcomeInv
  BY InitCheckInv DEF EntryInit, Init, OutcomeInv, EndsRight
<1>2. CheckInv /\ OutcomeInv /\ [EntryNext]_entryVars => (CheckInv /\ OutcomeInv)'
  BY NextCheckInv, NextOutcomeInv
<1>3. OutcomeInv => EndsRight
  BY DEF OutcomeInv
<1> QED
  BY <1>1, <1>2, <1>3, PTL DEF EntrySpec

-----------------------------------------------------------------------------

\* What a member is made of, and what a field can become.
LEMMA MemberType ==
  ASSUME NEW m \in Members
  PROVE  /\ m.key \in Keys \cup {"other"} /\ m.escaped \in BOOLEAN /\ m.value \in Values
         /\ \A k \in Keys : FieldValue(k, m.value) \in Values \cup {Absent}
<1>1. m \in [key : Keys \cup {"other"}, escaped : BOOLEAN, value : Values]
  BY WireAssumption
<1> QED
  BY <1>1 DEF FieldValue, Optional

\* One more member: it is the last of its key.
LEMMA LatestNext ==
  ASSUME NEW p \in Nat, NEW req \in [Keys -> Values \cup {Absent}], Latest(req, p)
  PROVE  /\ members[p + 1].key \notin Keys => Latest(req, p + 1)
         /\ \A k \in Keys : members[p + 1].key = k =>
              Latest([req EXCEPT ![k] = FieldValue(k, members[p + 1].value)], p + 1)
<1>1. 1 .. p + 1 = (1 .. p) \cup {p + 1}
  OBVIOUS
<1>2. ASSUME NEW j \in 1 .. p
      PROVE  j + 1 .. p + 1 = (j + 1 .. p) \cup {p + 1}
  OBVIOUS
<1>3. p + 2 .. p + 1 = {} /\ (p + 1) + 1 .. p + 1 = {}
  OBVIOUS
<1>4. ASSUME NEW k \in Keys, members[p + 1].key # k
      PROVE  \/ req[k] = Absent /\ \A j \in 1 .. p + 1 : members[j].key # k
             \/ \E j \in 1 .. p + 1 :
                  /\ members[j].key = k
                  /\ req[k] = FieldValue(k, members[j].value)
                  /\ \A l \in j + 1 .. p + 1 : members[l].key # k
  <2>1. CASE req[k] = Absent /\ \A j \in 1 .. p : members[j].key # k
    BY <2>1, <1>1, <1>4
  <2>2. CASE \E j \in 1 .. p : /\ members[j].key = k
                               /\ req[k] = FieldValue(k, members[j].value)
                               /\ \A l \in j + 1 .. p : members[l].key # k
    <3>1. PICK j \in 1 .. p : /\ members[j].key = k
                              /\ req[k] = FieldValue(k, members[j].value)
                              /\ \A l \in j + 1 .. p : members[l].key # k
      BY <2>2
    <3>2. \A l \in j + 1 .. p + 1 : members[l].key # k
      BY <1>2, <1>4, <3>1
    <3> QED
      BY <1>1, <3>1, <3>2
  <2> QED
    BY <2>1, <2>2 DEF Latest
<1>5. ASSUME members[p + 1].key \notin Keys
      PROVE  Latest(req, p + 1)
  <2>1. \A k \in Keys : members[p + 1].key # k
    BY <1>5
  <2> QED
    BY <1>4, <2>1 DEF Latest
<1>6. ASSUME NEW k \in Keys, members[p + 1].key = k
      PROVE  Latest([req EXCEPT ![k] = FieldValue(k, members[p + 1].value)], p + 1)
  <2> DEFINE new == [req EXCEPT ![k] = FieldValue(k, members[p + 1].value)]
  <2>1. new[k] = FieldValue(k, members[p + 1].value) /\ \A n \in Keys : n # k => new[n] = req[n]
    OBVIOUS
  <2> HIDE DEF new
  <2>2. ASSUME NEW n \in Keys
        PROVE  \/ new[n] = Absent /\ \A j \in 1 .. p + 1 : members[j].key # n
               \/ \E j \in 1 .. p + 1 :
                    /\ members[j].key = n
                    /\ new[n] = FieldValue(n, members[j].value)
                    /\ \A l \in j + 1 .. p + 1 : members[l].key # n
    <3>1. CASE n = k
      <4>1. p + 1 \in 1 .. p + 1 /\ \A l \in (p + 1) + 1 .. p + 1 : members[l].key # n
        BY <1>3
      <4> QED
        BY <1>6, <2>1, <3>1, <4>1, Zenon
    <3>2. CASE n # k
      BY <1>4, <1>6, <2>1, <3>2
    <3> QED
      BY <3>1, <3>2
  <2>3. Latest(new, p + 1)
    BY <2>2 DEF Latest
  <2> QED
    BY <2>3 DEF new
<1> QED
  BY <1>5, <1>6

\* Two readers that have made a request of the same members have made the same.
LEMMA LatestUnique ==
  ASSUME NEW p \in Nat, NEW q \in [Keys -> Values \cup {Absent}], NEW r \in [Keys -> Values \cup {Absent}],
         Latest(q, p), Latest(r, p)
  PROVE  q = r
<1>1. ASSUME NEW k \in Keys
      PROVE  q[k] = r[k]
  <2>1. CASE \A j \in 1 .. p : members[j].key # k
    BY <2>1 DEF Latest
  <2>2. CASE \E j \in 1 .. p : members[j].key = k
    <3>1. PICK j \in 1 .. p : /\ members[j].key = k
                              /\ q[k] = FieldValue(k, members[j].value)
                              /\ \A l \in j + 1 .. p : members[l].key # k
      BY <2>2 DEF Latest
    <3>2. PICK h \in 1 .. p : /\ members[h].key = k
                              /\ r[k] = FieldValue(k, members[h].value)
                              /\ \A l \in h + 1 .. p : members[l].key # k
      BY <2>2 DEF Latest
    <3>3. ~(j < h) /\ ~(h < j)
      BY <3>1, <3>2
    <3>4. j = h
      BY <3>3
    <3> QED
      BY <3>1, <3>2, <3>4
  <2> QED
    BY <2>1, <2>2
<1> QED
  BY <1>1

LEMMA InitBodyInv == BodyInit => BodyInv
<1> SUFFICES ASSUME BodyInit PROVE BodyInv
  OBVIOUS
<1>1. members \in Seq(Members)
  <2>1. PICK n \in 0 .. MaxMembers : members \in [1 .. n -> Members]
    BY DEF BodyInit
  <2>2. n \in Nat
    BY WireAssumption
  <2> QED
    BY <2>1, <2>2
<1>2. pos = 0 /\ alone = Reading /\ inBatch = Reading /\ Reading \in Readers
  BY DEF BodyInit, Reading, Nothing, Readers
<1>3. Latest(Reading.req, 0) /\ Reading.pc = "reading"
  BY DEF Latest, Reading, Nothing
<1>4. 1 .. 0 = {}
  OBVIOUS
<1>5. VisitorInv /\ DerivedInv
  BY <1>2, <1>3, <1>4 DEF VisitorInv, DerivedInv, Repeated
<1> QED
  BY <1>1, <1>2, <1>3, <1>5 DEF BodyInv

\* A member goes through the visitor.
LEMMA ReadVisitor ==
  ASSUME BodyInv, ReadMember
  PROVE  alone' \in Readers /\ alone'.pc # "read" /\ VisitorInv'
<1> DEFINE m == members[pos + 1]
<1>1. /\ members \in Seq(Members) /\ pos \in Nat /\ pos < Len(members) /\ Len(members) \in Nat
      /\ alone \in Readers /\ VisitorInv
      /\ pos' = pos + 1 /\ members' = members
      /\ alone' = IF alone.pc = "reading" THEN VisitMember(m) ELSE alone
  BY DEF BodyInv, ReadMember
<1>2. m \in Members
  BY <1>1
<1>3. m.key \in Keys \cup {"other"} /\ \A k \in Keys : FieldValue(k, m.value) \in Values \cup {Absent}
  BY <1>2, MemberType
<1>4. 1 .. pos' = (1 .. pos) \cup {pos + 1} /\ pos' \in Nat
  BY <1>1
<1>5. alone.pc # "read"
  BY <1>1 DEF BodyInv
<1>6. alone.pc \in {"reading", "error"} /\ alone.req \in [Keys -> Values \cup {Absent}]
  BY <1>1, <1>5 DEF Readers
<1>7. CASE alone.pc = "error"
  <2>1. alone' = alone
    BY <1>1, <1>7
  <2>2. \E j \in 1 .. pos : members[j].escaped \/ Refused(members[j])
    BY <1>1, <1>7 DEF VisitorInv, Incomplete
  <2>3. \E j \in 1 .. pos' : members'[j].escaped \/ Refused(members'[j])
    BY <1>1, <1>4, <2>2
  <2> QED
    BY <1>1, <1>5, <1>7, <2>1, <2>3 DEF VisitorInv
<1>8. CASE alone.pc = "reading"
  <2>1. /\ Latest(alone.req, pos)
        /\ \A j \in 1 .. pos : ~members[j].escaped /\ ~Refused(members[j])
        /\ alone' = VisitMember(m)
    BY <1>1, <1>8 DEF VisitorInv
  <2>2. \A q : Latest(q, pos + 1) => Latest(q, pos)'
    BY <1>1 DEF Latest
  <2>3. CASE m.escaped \/ Refused(m)
    <3>1. alone' = Fails(alone)
      BY <2>1, <2>3 DEF VisitMember
    <3>2. alone' \in Readers /\ alone'.pc = "error"
      BY <1>1, <3>1 DEF Fails, Readers
    <3> QED
      BY <1>1, <1>4, <2>3, <3>2 DEF VisitorInv
  <2>4. CASE ~m.escaped /\ ~Refused(m)
    <3>1. \A j \in 1 .. pos' : ~members'[j].escaped /\ ~Refused(members'[j])
      BY <1>1, <1>4, <2>1, <2>4
    <3>2. CASE m.key = "other"
      <4>1. alone' = alone
        BY <2>1, <2>4, <3>2 DEF VisitMember
      <4>2. m.key \notin Keys
        BY <3>2 DEF Keys
      <4>3. Latest(alone.req, pos + 1)
        BY <1>1, <1>6, <2>1, <4>2, LatestNext
      <4> QED
        BY <1>1, <1>8, <2>2, <3>1, <4>1, <4>3 DEF VisitorInv
    <3>3. CASE m.key # "other"
      <4>1. m.key \in Keys
        BY <1>3, <3>3
      <4>2. alone' = [alone EXCEPT !.req[m.key] = FieldValue(m.key, m.value)]
        BY <2>1, <2>4, <3>3 DEF VisitMember
      <4>3. /\ alone' \in Readers /\ alone'.pc = "reading"
            /\ alone'.req = [alone.req EXCEPT ![m.key] = FieldValue(m.key, m.value)]
        BY <1>1, <1>3, <1>8, <4>1, <4>2 DEF Readers
      <4>4. Latest(alone'.req, pos + 1)
        BY <1>1, <1>6, <2>1, <4>1, <4>3, LatestNext
      <4> QED
        BY <2>2, <3>1, <4>3, <4>4 DEF VisitorInv
    <3> QED
      BY <3>2, <3>3
  <2> QED
    BY <2>3, <2>4
<1> QED
  BY <1>6, <1>7, <1>8

\* A member goes through the derived reader.
LEMMA ReadDerived ==
  ASSUME BodyInv, ReadMember
  PROVE  inBatch' \in Readers /\ inBatch'.pc # "read" /\ DerivedInv'
<1> DEFINE m == members[pos + 1]
           seen == \E j \in 1 .. pos : members[j].key = m.key
<1>1. /\ members \in Seq(Members) /\ pos \in Nat /\ pos < Len(members) /\ Len(members) \in Nat
      /\ inBatch \in Readers /\ DerivedInv
      /\ pos' = pos + 1 /\ members' = members
      /\ inBatch' = IF inBatch.pc = "reading" THEN DerivedMember(m) ELSE inBatch
  BY DEF BodyInv, ReadMember
<1>2. m \in Members
  BY <1>1
<1>3. m.key \in Keys \cup {"other"} /\ \A k \in Keys : FieldValue(k, m.value) \in Values \cup {Absent}
  BY <1>2, MemberType
<1>4. 1 .. pos' = (1 .. pos) \cup {pos + 1} /\ pos' \in Nat /\ pos + 1 \notin 1 .. pos
  BY <1>1
<1>5. inBatch.pc # "read"
  BY <1>1 DEF BodyInv
<1>6. inBatch.pc \in {"reading", "error"} /\ inBatch.req \in [Keys -> Values \cup {Absent}]
  BY <1>1, <1>5 DEF Readers
<1>7. Repeated(pos)' <=> Repeated(pos) \/ (m.key # "other" /\ seen)
  BY <1>1, <1>4 DEF Repeated
<1>8. CASE inBatch.pc = "error"
  <2>1. inBatch' = inBatch
    BY <1>1, <1>8
  <2>2. (\E j \in 1 .. pos : RefusedInBatch(members[j])) \/ Repeated(pos)
    BY <1>1, <1>8 DEF DerivedInv, Incomplete
  <2>3. (\E j \in 1 .. pos' : RefusedInBatch(members'[j])) \/ Repeated(pos)'
    BY <1>1, <1>4, <1>7, <2>2
  <2> QED
    BY <1>1, <1>5, <1>8, <2>1, <2>3 DEF DerivedInv
<1>9. CASE inBatch.pc = "reading"
  <2>1. /\ Latest(inBatch.req, pos)
        /\ \A j \in 1 .. pos : ~RefusedInBatch(members[j])
        /\ ~Repeated(pos)
        /\ inBatch' = DerivedMember(m)
    BY <1>1, <1>9 DEF DerivedInv
  <2>2. \A q : Latest(q, pos + 1) => Latest(q, pos)'
    BY <1>1 DEF Latest
  <2>3. CASE m.key # "other" /\ (seen \/ RefusedInBatch(m))
    <3>1. inBatch' = Fails(inBatch)
      BY <2>1, <2>3 DEF DerivedMember
    <3>2. inBatch' \in Readers /\ inBatch'.pc = "error"
      BY <1>1, <3>1 DEF Fails, Readers
    <3>3. (\E j \in 1 .. pos' : RefusedInBatch(members'[j])) \/ Repeated(pos)'
      BY <1>1, <1>4, <1>7, <2>3
    <3> QED
      BY <3>2, <3>3 DEF DerivedInv
  <2>4. CASE m.key # "other" /\ ~seen /\ ~RefusedInBatch(m)
    <3>1. m.key \in Keys
      BY <1>3, <2>4
    <3>2. inBatch' = [inBatch EXCEPT !.req[m.key] = FieldValue(m.key, m.value)]
      BY <2>1, <2>4 DEF DerivedMember
    <3>3. /\ inBatch' \in Readers /\ inBatch'.pc = "reading"
          /\ inBatch'.req = [inBatch.req EXCEPT ![m.key] = FieldValue(m.key, m.value)]
      BY <1>1, <1>3, <1>9, <3>1, <3>2 DEF Readers
    <3>4. Latest(inBatch'.req, pos + 1)
      BY <1>1, <1>6, <2>1, <3>1, <3>3, LatestNext
    <3>5. \A j \in 1 .. pos' : ~RefusedInBatch(members'[j])
      BY <1>1, <1>4, <2>1, <2>4
    <3> QED
      BY <1>7, <2>1, <2>2, <2>4, <3>3, <3>4, <3>5 DEF DerivedInv
  <2>5. CASE m.key = "other"
    <3>1. inBatch' = inBatch
      BY <2>1, <2>5 DEF DerivedMember
    <3>2. m.key \notin Keys /\ ~RefusedInBatch(m)
      BY <2>5 DEF Keys, RefusedInBatch
    <3>3. Latest(inBatch.req, pos + 1)
      BY <1>1, <1>6, <2>1, <3>2, LatestNext
    <3>4. \A j \in 1 .. pos' : ~RefusedInBatch(members'[j])
      BY <1>1, <1>4, <2>1, <3>2
    <3> QED
      BY <1>1, <1>7, <1>9, <2>1, <2>2, <2>5, <3>1, <3>3, <3>4 DEF DerivedInv
  <2> QED
    BY <2>3, <2>4, <2>5
<1> QED
  BY <1>6, <1>8, <1>9

LEMMA CloseBodyInv ==
  ASSUME BodyInv, Close
  PROVE  BodyInv'
<1>1. /\ members \in Seq(Members) /\ pos = Len(members) /\ pos \in 0 .. Len(members)
      /\ alone \in Readers /\ inBatch \in Readers /\ VisitorInv /\ DerivedInv
      /\ members' = members /\ pos' = pos
      /\ alone' = IF alone.pc = "reading" THEN Closed(alone) ELSE alone
      /\ inBatch' = IF inBatch.pc = "reading" THEN Closed(inBatch) ELSE inBatch
  BY DEF BodyInv, Close
<1>2. /\ \A q : Latest(q, pos)' <=> Latest(q, pos)
      /\ Repeated(pos)' <=> Repeated(pos)
  BY <1>1 DEF Latest, Repeated
<1>3. ASSUME NEW r \in Readers
      PROVE  /\ Closed(r) \in Readers /\ Closed(r).req = r.req
             /\ Closed(r).pc = IF Absent \in {r.req["method"], r.req["params"]} THEN "error" ELSE "read"
  BY DEF Closed, Fails, Readers
<1>4. /\ alone' \in Readers
      /\ alone'.pc = "read" => Absent \notin {alone'.req["method"], alone'.req["params"]}
      /\ VisitorInv'
  <2>1. CASE alone.pc = "reading"
    <3>1. /\ alone' \in Readers /\ alone'.req = alone.req
          /\ alone'.pc = IF Absent \in {alone.req["method"], alone.req["params"]} THEN "error" ELSE "read"
      BY <1>1, <1>3, <2>1
    <3>2. /\ Latest(alone.req, pos)
          /\ \A j \in 1 .. pos : ~members[j].escaped /\ ~Refused(members[j])
      BY <1>1, <2>1 DEF VisitorInv
    <3> QED
      BY <1>1, <1>2, <3>1, <3>2 DEF VisitorInv, Incomplete
  <2>2. CASE alone.pc # "reading"
    BY <1>1, <1>2, <2>2 DEF BodyInv, VisitorInv, Incomplete
  <2> QED
    BY <2>1, <2>2
<1>5. /\ inBatch' \in Readers
      /\ inBatch'.pc = "read" => Absent \notin {inBatch'.req["method"], inBatch'.req["params"]}
      /\ DerivedInv'
  <2>1. CASE inBatch.pc = "reading"
    <3>1. /\ inBatch' \in Readers /\ inBatch'.req = inBatch.req
          /\ inBatch'.pc = IF Absent \in {inBatch.req["method"], inBatch.req["params"]} THEN "error" ELSE "read"
      BY <1>1, <1>3, <2>1
    <3>2. Latest(inBatch.req, pos) /\ (\A j \in 1 .. pos : ~RefusedInBatch(members[j])) /\ ~Repeated(pos)
      BY <1>1, <2>1 DEF DerivedInv
    <3> QED
      BY <1>1, <1>2, <3>1, <3>2 DEF DerivedInv, Incomplete
  <2>2. CASE inBatch.pc # "reading"
    BY <1>1, <1>2, <2>2 DEF BodyInv, DerivedInv, Incomplete
  <2> QED
    BY <2>1, <2>2
<1> QED
  BY <1>1, <1>4, <1>5 DEF BodyInv

LEMMA NextBodyInv ==
  ASSUME BodyInv, [EntryNext]_entryVars
  PROVE  BodyInv'
<1>1. CASE ReadMember
  <2>1. members' \in Seq(Members) /\ pos' \in 0 .. Len(members')
    BY <1>1 DEF BodyInv, ReadMember
  <2>2. /\ alone' \in Readers /\ alone'.pc # "read" /\ VisitorInv'
        /\ inBatch' \in Readers /\ inBatch'.pc # "read" /\ DerivedInv'
    BY <1>1, ReadVisitor, ReadDerived
  <2> QED
    BY <2>1, <2>2 DEF BodyInv
<1>2. CASE Close
  BY <1>2, CloseBodyInv
<1>3. CASE UNCHANGED bodyVars
  BY <1>3 DEF bodyVars, BodyInv, VisitorInv, DerivedInv, Latest, Repeated, Incomplete
<1> QED
  BY <1>1, <1>2, <1>3 DEF EntryNext, CheckCredentials, ReadBody, BodyNext, entryVars

LEMMA InvariantBodyInv == EntrySpec => []BodyInv
<1>1. EntryInit => BodyInv
  BY InitBodyInv DEF EntryInit
<1>2. BodyInv /\ [EntryNext]_entryVars => BodyInv'
  BY NextBodyInv
<1> QED
  BY <1>1, <1>2, PTL DEF EntrySpec

-----------------------------------------------------------------------------

\* What has been made of all members is what was sent, each field as its type keeps it.
LEMMA SentFacts ==
  ASSUME members \in Seq(Members), NEW req, Latest(req, Len(members)), NEW k \in Keys
  PROVE  \/ Sent(k) = Absent /\ req[k] = Absent
         \/ Sent(k) \in Values /\ req[k] = FieldValue(k, Sent(k))
<1> DEFINE T == {j \in 1 .. Len(members) : members[j].key = k}
           last == IF T # {} THEN CHOOSE x \in T : \A y \in T : x >= y ELSE 0
<1>1. Sent(k) = IF last = 0 THEN Absent ELSE members[last].value
  BY DEF Sent, SelectLastInSeq, Max
<1>2. CASE req[k] = Absent /\ \A j \in 1 .. Len(members) : members[j].key # k
  <2>1. T = {}
    BY <1>2
  <2> QED
    BY <1>1, <1>2, <2>1
<1>3. CASE \E j \in 1 .. Len(members) :
             /\ members[j].key = k
             /\ req[k] = FieldValue(k, members[j].value)
             /\ \A l \in j + 1 .. Len(members) : members[l].key # k
  <2>1. PICK j \in 1 .. Len(members) :
             /\ members[j].key = k
             /\ req[k] = FieldValue(k, members[j].value)
             /\ \A l \in j + 1 .. Len(members) : members[l].key # k
    BY <1>3
  <2>2. j \in T /\ \A y \in T : j >= y
    BY <2>1
  <2>3. \A x \in T : (\A y \in T : x >= y) => x = j
    BY <2>2
  <2>4. last = j /\ last # 0
    <3>1. (CHOOSE x \in T : \A y \in T : x >= y) = j
      BY <2>2, <2>3
    <3> QED
      BY <2>2, <3>1
  <2>5. Sent(k) = members[j].value
    BY <1>1, <2>4
  <2>6. members[j] \in Members
    BY <2>1
  <2> QED
    BY <2>1, <2>5, <2>6, MemberType
<1> QED
  BY <1>2, <1>3 DEF Latest

\* What a reader has made of a body that it could read.
LEMMA ReadFacts ==
  ASSUME BodyInv, NEW r \in {alone, inBatch}, r.pc = "read"
  PROVE  /\ members \in Seq(Members) /\ pos = Len(members) /\ Len(members) \in Nat
         /\ r \in Readers /\ r.req \in [Keys -> Values \cup {Absent}]
         /\ Latest(r.req, Len(members))
         /\ r.req["method"] # Absent /\ r.req["params"] # Absent
BY DEF BodyInv, VisitorInv, DerivedInv, Readers

LEMMA BodyForwardedAsSent ==
  ASSUME BodyInv
  PROVE  ForwardedAsSent
<1> SUFFICES ASSUME NEW r \in {alone, inBatch}, r.pc = "read"
             PROVE  /\ Serialized(r.req) = {[key |-> k, value |-> Sent(k)] :
                         k \in {k \in Keys : Sent(k) # Absent /\ (k = "jsonrpc" => Sent(k) # "null")}}
                    /\ IsNotification(r.req) <=> Sent("id") = Absent /\ Sent("jsonrpc") = "string"
  BY DEF ForwardedAsSent
<1>1. /\ members \in Seq(Members) /\ Latest(r.req, Len(members))
      /\ r.req["method"] # Absent /\ r.req["params"] # Absent
  BY ReadFacts
<1>2. \A k \in Keys : \/ Sent(k) = Absent /\ r.req[k] = Absent
                      \/ Sent(k) \in Values /\ r.req[k] = FieldValue(k, Sent(k))
  BY <1>1, SentFacts
<1>3. ASSUME NEW k \in Keys
      PROVE  /\ r.req[k] # Absent <=> Sent(k) # Absent /\ (k = "jsonrpc" => Sent(k) # "null")
             /\ r.req[k] # Absent => r.req[k] = Sent(k)
  BY <1>1, <1>2, WireAssumption DEF FieldValue, Optional, Values, Keys
<1>4. {k \in Keys : r.req[k] # Absent} =
        {k \in Keys : Sent(k) # Absent /\ (k = "jsonrpc" => Sent(k) # "null")}
  BY <1>3
<1>5. Serialized(r.req) = {[key |-> k, value |-> Sent(k)] :
         k \in {k \in Keys : Sent(k) # Absent /\ (k = "jsonrpc" => Sent(k) # "null")}}
  BY <1>3, <1>4 DEF Serialized
<1>6. IsNotification(r.req) <=> Sent("id") = Absent /\ Sent("jsonrpc") = "string"
  BY <1>2, WireAssumption DEF IsNotification, FieldValue, Optional, Values, Keys
<1> QED
  BY <1>5, <1>6

LEMMA BodyReadersAgree ==
  ASSUME BodyInv
  PROVE  ReadersAgree
<1> SUFFICES ASSUME alone.pc # "reading", inBatch.pc # "reading"
             PROVE  \/ alone = inBatch
                    \/ alone.pc = "error" /\ inBatch.pc = "error"
                    \/ /\ alone.pc = "error"
                       /\ \E j \in DOMAIN members :
                            \/ members[j].escaped
                            \/ members[j].key = "other" /\ members[j].value = "unreadable"
                    \/ /\ inBatch.pc = "error"
                       /\ \E j \in DOMAIN members :
                            \/ members[j].key # "other" /\ members[j].value = "deepest"
                            \/ \E l \in DOMAIN members : j # l /\ members[j].key = members[l].key
  BY DEF ReadersAgree
<1>1. /\ alone \in Readers /\ inBatch \in Readers /\ VisitorInv /\ DerivedInv
      /\ members \in Seq(Members) /\ pos \in 0 .. Len(members)
  BY DEF BodyInv
<1>2. /\ alone.pc \in {"read", "error"} /\ inBatch.pc \in {"read", "error"}
      /\ alone.req \in [Keys -> Values \cup {Absent}] /\ inBatch.req \in [Keys -> Values \cup {Absent}]
  BY <1>1 DEF Readers
<1>3. DOMAIN members = 1 .. Len(members) /\ Len(members) \in Nat
  BY <1>1
<1>4. \A j \in 1 .. Len(members) : members[j] \in Members
  BY <1>1
<1>5. CASE alone.pc = "read" /\ inBatch.pc = "read"
  <2>1. alone.req = inBatch.req
    BY <1>2, <1>3, <1>5, ReadFacts, LatestUnique
  <2>2. alone = inBatch
    BY <1>1, <1>5, <2>1 DEF Readers
  <2> QED
    BY <2>2
<1>6. CASE alone.pc = "error" /\ inBatch.pc = "read"
  <2>1. /\ pos = Len(members) /\ Latest(inBatch.req, Len(members))
        /\ inBatch.req["method"] # Absent /\ inBatch.req["params"] # Absent
        /\ \A j \in 1 .. pos : ~RefusedInBatch(members[j])
    BY <1>1, <1>6, ReadFacts DEF DerivedInv
  <2>2. ~Incomplete(alone)
    <3>1. Incomplete(alone) => alone.req = inBatch.req
      BY <1>2, <1>3, <2>1, LatestUnique DEF Incomplete
    <3> QED
      BY <2>1, <3>1 DEF Incomplete
  <2>3. PICK j \in 1 .. pos : members[j].escaped \/ Refused(members[j])
    BY <1>1, <1>6, <2>2 DEF VisitorInv
  <2>4. Refused(members[j]) => members[j].key = "other" /\ members[j].value = "unreadable"
    BY <2>1 DEF Refused, RefusedInBatch, Fits
  <2> QED
    BY <1>3, <1>6, <2>1, <2>3, <2>4
<1>7. CASE alone.pc = "read" /\ inBatch.pc = "error"
  <2>1. /\ pos = Len(members) /\ Latest(alone.req, Len(members))
        /\ alone.req["method"] # Absent /\ alone.req["params"] # Absent
        /\ \A j \in 1 .. pos : ~Refused(members[j])
    BY <1>1, <1>7, ReadFacts DEF VisitorInv
  <2>2. ~Incomplete(inBatch)
    <3>1. Incomplete(inBatch) => inBatch.req = alone.req
      BY <1>2, <1>3, <2>1, LatestUnique DEF Incomplete
    <3> QED
      BY <2>1, <3>1 DEF Incomplete
  <2>3. ASSUME NEW j \in 1 .. pos, RefusedInBatch(members[j])
        PROVE  \/ members[j].key # "other" /\ members[j].value = "deepest"
               \/ \E l \in 1 .. pos : l # j /\ members[l].key = members[j].key
    <3> SUFFICES ASSUME members[j].value # "deepest"
                 PROVE  \E l \in 1 .. pos : l # j /\ members[l].key = members[j].key
      BY <2>3 DEF RefusedInBatch
    <3>1. members[j].value = "null" /\ members[j].key \in {"method", "params"}
      BY <1>4, <2>1, <2>3, MemberType DEF Refused, RefusedInBatch, Fits, Keys
    <3>2. PICK l \in 1 .. pos : /\ members[l].key = members[j].key
                                /\ alone.req[members[j].key] = FieldValue(members[j].key, members[l].value)
      BY <2>1, <3>1 DEF Latest, Keys
    <3>3. members[l].value # "null"
      BY <2>1, <3>1, <3>2 DEF FieldValue, Optional
    <3> QED
      BY <3>1, <3>2, <3>3
  <2>4. \E j \in 1 .. pos :
          \/ members[j].key # "other" /\ members[j].value = "deepest"
          \/ \E l \in 1 .. pos : j # l /\ members[j].key = members[l].key
    BY <1>1, <1>7, <2>2, <2>3 DEF DerivedInv, Repeated
  <2> QED
    BY <1>3, <1>7, <2>1, <2>4
<1> QED
  BY <1>2, <1>5, <1>6, <1>7

\* For bodies of any length, of the members bitcoind knows those the caller sent are
\* forwarded, and no others: the readers of SingleOrBatchRpcRequest and RpcRequest and the
\* writer of the latter.
THEOREM SentIsForwarded == EntrySpec => []ForwardedAsSent
BY InvariantBodyInv, BodyForwardedAsSent, PTL

\* For bodies of any length, a request alone and the same in a batch are read alike, but
\* for escaped and repeated keys, unknown members that are no `Value`, and nesting to the
\* limit: the visitor of SingleOrBatchRpcRequest and the derived
\* reader of RpcRequest.
THEOREM ReadAlike == EntrySpec => []ReadersAgree
BY InvariantBodyInv, BodyReadersAgree, PTL

=============================================================================
