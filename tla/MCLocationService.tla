------------------------- MODULE MCLocationService -------------------------
(* Small instances of LocationService for TLC. *)
EXTENDS LocationService, TLC

CONSTANTS r1, r2, s1, s2

(* Subscribers are interchangeable. *)
SupiSymmetry == Permutations(Supis)

=============================================================================
