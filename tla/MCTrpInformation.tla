-------------------------- MODULE MCTrpInformation --------------------------
(* Small instances of TrpInformation for TLC. *)
EXTENDS TrpInformation

CONSTANTS r1, r2, g1, g2

=============================================================================
