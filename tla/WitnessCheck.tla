---------------------------- MODULE WitnessCheck ----------------------------
(***************************************************************************)
(* `check_witnesses` (src/src/fetch_blocks.rs), the check PeerFetch sees   *)
(* as the `witness` flag of a block.                                       *)
(*                                                                         *)
(* The hash and the merkle root of a block fix everything in it but its    *)
(* witnesses, so that is what a block from a peer may differ in from the   *)
(* block that was mined.  (Transactions repeated at its end can leave both *)
(* roots as they are; such a block is outside this model, in which the     *)
(* transactions are those mined.)  Hashes are taken to be injective: a wtxid is the *)
(* transaction with its witness, a root the wtxids under it, a commitment  *)
(* the root with its salt.                                                 *)
(***************************************************************************)
EXTENDS Naturals, Sequences

CONSTANTS
  Txs,         \* the transactions of the block but the coinbase
  Witnesses,   \* witness data such a transaction may carry
  NoWitness,   \* and that of one that carries none
  MaxOutputs,  \* bound on the outputs of the coinbase
  MaxItems     \* bound on the items of its witness

ASSUME WitnessAssumption ==
  NoWitness \notin Witnesses /\ MaxOutputs \in Nat /\ MaxItems \in Nat

UpTo(S, n) == UNION {[1 .. k -> S] : k \in 0 .. n}

\* An item of the coinbase's witness: 32 bytes, all zero or not, or another length.
Items == {"zero32", "other32", "other length"}
Salts == {"zero32", "other32"}
Roots == [Txs -> Witnesses \cup {NoWitness}]

\* A script of an output: whether it starts with COMMITMENT_MAGIC, whether it has 38
\* bytes or more, and its bytes 6 to 38.
Output == [magic : BOOLEAN, long : BOOLEAN, bytes : (Roots \X Salts) \cup {<<"anything">>}]

Block == [outputs : UpTo(Output, MaxOutputs), coinbase : UpTo(Items, MaxItems), txs : Roots]

VARIABLES
  mined,     \* the block asked for
  received,  \* what the last peer sent of it
  verdict    \* "none" yet, "accepted" or "refused"

witnessVars == <<mined, received, verdict>>

-----------------------------------------------------------------------------

IsCommitment(o) == o.long /\ o.magic
Commits(b) == \E i \in DOMAIN b.outputs : IsCommitment(b.outputs[i])

\* Slip: `position`.
FirstPosition(b) ==
  CHOOSE i \in DOMAIN b.outputs :
    IsCommitment(b.outputs[i]) /\ \A j \in DOMAIN b.outputs : IsCommitment(b.outputs[j]) => j >= i

\* `rposition`.
Position(b) ==
  CHOOSE i \in DOMAIN b.outputs :
    IsCommitment(b.outputs[i]) /\ \A j \in DOMAIN b.outputs : IsCommitment(b.outputs[j]) => j <= i

Carries(b) == b.coinbase # <<>> \/ \E t \in Txs : b.txs[t] # NoWitness

\* Slip: a commitment needs a reserved value behind it.
ReservedRequired(b) == IF Len(b.coinbase) = 1 THEN {b.coinbase[1]} \cap Salts ELSE {}

\* The salt, if the coinbase's witness has a shape that gives one.
Reserved(b) ==
  CASE Len(b.coinbase) = 0 -> {"zero32"}
    [] Len(b.coinbase) = 1 -> {b.coinbase[1]} \cap Salts
    [] OTHER -> {}

check_witness_commitment(b) ==
  \E salt \in Reserved(b) : b.outputs[Position(b)].bytes = <<b.txs, salt>>

\* Slip: rust-bitcoin's rule, that a block with no witness at all is in order.
SatisfiedByNone(b) ==
  \/ ~Carries(b)
  \/ Commits(b) /\ check_witness_commitment(b)

check_witnesses(b) == IF Commits(b) THEN check_witness_commitment(b) ELSE ~Carries(b)

-----------------------------------------------------------------------------
(* The blocks that are mined: BIP141, and what miners did before it.       *)

\* The output that counts is the last of 38 bytes or more that starts with the magic.
Committed(b) == {i \in DOMAIN b.outputs : b.outputs[i].magic /\ b.outputs[i].long}
Commitment(b) == b.outputs[CHOOSE i \in Committed(b) : \A j \in Committed(b) : j <= i].bytes

\* SegWit is active: a commitment is right, its salt is in the coinbase, and without one
\* there are no witnesses.
Active(b) ==
  /\ Committed(b) = {} => ~Carries(b)
  /\ Committed(b) # {} => \E salt \in Salts : b.coinbase = <<salt>> /\ Commitment(b) = <<b.txs, salt>>

\* Before that there are no witnesses, and a miner that signals commits to that.
Signalling(b) ==
  /\ ~Carries(b)
  /\ Committed(b) # {} => Commitment(b) = <<b.txs, "zero32">>

WitnessInit ==
  /\ mined \in {b \in Block : Active(b) \/ Signalling(b)}
  /\ received = mined
  /\ verdict = "none"

\* A peer answers; a block that is refused makes `runner` turn to the next peer.
Receive ==
  /\ verdict # "accepted"
  /\ \E cw \in UpTo(Items, MaxItems), ws \in Roots :
       received' = [mined EXCEPT !.coinbase = cw, !.txs = ws]
  /\ verdict' = IF check_witnesses(received') THEN "accepted" ELSE "refused"
  /\ UNCHANGED mined

WitnessSpec == WitnessInit /\ [][Receive]_witnessVars

-----------------------------------------------------------------------------

\* A block as it was mined, in whatever era, passes: one that did not could not be had
\* from any peer, "since every peer returns the same bytes" (test of fetch_blocks.rs).
MinedIsAccepted == received = mined => verdict # "refused"

\* An accepted block has the witnesses the block was mined with.  Only of the coinbase a
\* witness of 32 zero bytes and none at all are not told apart.
WitnessesAsMined ==
  verdict = "accepted" =>
    /\ received.txs = mined.txs
    /\ received.coinbase # mined.coinbase => {received.coinbase, mined.coinbase} = {<<>>, <<"zero32">>}

=============================================================================
