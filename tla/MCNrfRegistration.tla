------------------------- MODULE MCNrfRegistration -------------------------
(* Small instances of NrfRegistration for TLC. *)
EXTENDS NrfRegistration

CONSTANTS c1, c2, c3

=============================================================================
