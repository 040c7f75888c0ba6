------------------------- MODULE PositionEstimation -------------------------
(***************************************************************************)
(* lls_estimation: the linear system whose least-squares solution is the   *)
(* position, up to the call of LAPACK, which is external.  Numbers are     *)
(* integers here: lengths in millimetres.                                  *)
(*                                                                         *)
(* trp_pos is a sequence of at least four positions <<x, y, z>>, the first *)
(* being the reference, and dd_estimated[i] says by how much the TRP i + 1 *)
(* is farther from the UE than the reference.                              *)
(***************************************************************************)
EXTENDS Integers, Sequences

CONSTANT FallbackUeHeight   \* height of a UE seen by four TRPs only

ASSUME HeightAssumption == FallbackUeHeight \in Int

(* The unknowns are x, y, z and r0, the distance of the reference.         *)
Unknowns == 4

Equations(trp_pos) == Len(trp_pos) - 1

SolveZ(trp_pos) == Equations(trp_pos) >= Unknowns

R0InSystem(dd_estimated) == \E i \in DOMAIN dd_estimated : dd_estimated[i] # 0

Square(n) == n * n

Norm2(p) == Square(p[1]) + Square(p[2]) + Square(p[3])

(* Mutant of Row: the sign of the difference is wrong.                     *)
Row_Sign(p0, p, d) ==
  [a |-> <<2 * (p[1] - p0[1]), 2 * (p[2] - p0[2]), 2 * (p[3] - p0[3]), -2 * d>>,
   b |-> Norm2(p) - Norm2(p0) - Square(d)]

(* The equation of one TRP.                                                *)
Row(p0, p, d) ==
  [a |-> <<2 * (p[1] - p0[1]), 2 * (p[2] - p0[2]), 2 * (p[3] - p0[3]), 2 * d>>,
   b |-> Norm2(p) - Norm2(p0) - Square(d)]

(* With the height known its term goes to the right, and r0 to its column. *)
FixHeight(row) ==
  [a |-> [row.a EXCEPT ![3] = row.a[4]],
   b |-> row.b - row.a[3] * FallbackUeHeight]

System(trp_pos, dd_estimated) ==
  [i \in 1..Equations(trp_pos) |->
     LET row == Row(trp_pos[1], trp_pos[i + 1], dd_estimated[i])
     IN  IF SolveZ(trp_pos) THEN row ELSE FixHeight(row)]

(* n_solve: the columns that are solved for.  r0 has the last one.         *)
Solved(trp_pos, dd_estimated) ==
  (IF SolveZ(trp_pos) THEN Unknowns ELSE Unknowns - 1)
    - (IF R0InSystem(dd_estimated) THEN 0 ELSE 1)

(* Does u = <<x, y, z, r0>>, read as the code reads the solution, satisfy  *)
(* an equation?                                                            *)
Satisfies(trp_pos, dd_estimated, row, u) ==
  LET column(j) == IF ~SolveZ(trp_pos) /\ j = 3 THEN u[4] ELSE u[j]
      term(j)   == IF j <= Solved(trp_pos, dd_estimated) THEN row.a[j] * column(j) ELSE 0
  IN  term(1) + term(2) + term(3) + term(4) = row.b

Satisfied(trp_pos, dd_estimated, u) ==
  \A i \in 1..Equations(trp_pos) :
    Satisfies(trp_pos, dd_estimated, System(trp_pos, dd_estimated)[i], u)

(* The UE at u is r0 from the reference and farther from the others by     *)
(* what the differences say.                                               *)
SeenFrom(trp_pos, dd_estimated, u) ==
  /\ Norm2(<<u[1] - trp_pos[1][1], u[2] - trp_pos[1][2], u[3] - trp_pos[1][3]>>)
       = Square(u[4])
  /\ \A i \in 1..Equations(trp_pos) :
       LET p == trp_pos[i + 1]
       IN  Norm2(<<u[1] - p[1], u[2] - p[2], u[3] - p[3]>>)
             = Square(u[4] + dd_estimated[i])

=============================================================================
