--------------------------- MODULE MCWitnessCheck ---------------------------
(* Two transactions, two outputs and a witness of up to two items. *)
EXTENDS WitnessCheck

=============================================================================
