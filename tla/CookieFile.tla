----------------------------- MODULE CookieFile -----------------------------
(***************************************************************************)
(* bitcoind's authentication cookie, as the proxy sees it: a file that the *)
(* node replaces atomically (write aside, rename) every time it starts and *)
(* removes when it stops.  External to the repository.                     *)
(*                                                                         *)
(* Cookies are numbered in the order the node writes them.  What the file  *)
(* system reports for cookie v is Mtime[v]; both readers only ever compare *)
(* modification times for equality, so nothing is assumed of Mtime: it may *)
(* fall (the clock is set back), and two cookies may share a value (the    *)
(* node restarts within one tick of the file system's clock).              *)
(***************************************************************************)
EXTENDS Naturals

CONSTANTS
  MaxStarts,  \* bound on how often the node starts
  Mtime       \* Mtime[v]: the modification time of the v-th cookie

Cookies == 1 .. MaxStarts

ASSUME CookieAssumption ==
  /\ MaxStarts \in Nat \ {0}
  /\ Mtime \in [Cookies -> Nat]

VARIABLES
  file,    \* the cookie now in the file, 0 when there is no file
  starts   \* how often the node has started: the latest cookie's number

fileVars == <<file, starts>>

FileInit ==
  /\ starts = 1
  /\ file \in {0, 1}

\* The node starts, or is restarted so fast that the old file was still there.
NodeStarts ==
  /\ starts < MaxStarts
  /\ starts' = starts + 1
  /\ file' = starts + 1

NodeStops ==
  /\ file # 0
  /\ file' = 0
  /\ UNCHANGED starts

\* A cookie no newer than v and one from w to n have the same modification time: readers
\* cannot tell them apart.
Tied(v, w, n) == \E x, y \in Cookies : x <= v /\ w <= y /\ y <= n /\ Mtime[x] = Mtime[y]

FileTypeOK ==
  /\ starts \in Cookies
  /\ file \in {0, starts}

=============================================================================
