--------------------------- MODULE MCInterception ---------------------------
(* Values for Interception: every shape of parameters the code tells apart,   *)
(* two blocks, and a transaction in one of them and one in neither.           *)
EXTENDS Interception

CONSTANTS h1, h2, t1, t2

MCTxsOf == [h \in Hashes |-> IF h = h1 THEN {t1} ELSE {}]

Get(ps) == [method |-> "getblock", params |-> ps]
GetTx(ps) == [method |-> "getrawtransaction", params |-> ps]

MCRequests ==
  {Get(<<>>), Get(<<h1>>), Get(<<"junk">>), Get(<<h1, "null">>), Get(<<"junk", "2">>)}
    \cup {Get(<<h, v>>) : h \in {h1, h2}, v \in {"0", "1", "2"}}
    \cup {GetTx(<<>>), GetTx(<<t1>>), GetTx(<<t1, "1">>), GetTx(<<"junk", "1", h1>>),
          GetTx(<<t1, "true", "junk">>)}
    \cup {GetTx(<<t, v, h1>>) : t \in {t1, t2}, v \in {"null", "false", "true", "0", "1", "2", "junk"}}

=============================================================================
