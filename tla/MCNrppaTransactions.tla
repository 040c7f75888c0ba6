------------------------ MODULE MCNrppaTransactions ------------------------
(* Small instances of NrppaTransactions for TLC. *)
EXTENDS NrppaInvariant, TLC

CONSTANTS r1, r2, h1, h2, sA, sB, t1, t2

(* Two requests, for two subscribers or for one. *)
TwoSubscribers == r1 :> sA @@ r2 :> sB
OneSubscriber  == [r \in Requests |-> sA]

(* Ids and notification threads are interchangeable. *)
IdSymmetry == Permutations(TIds) \cup Permutations(Handlers)

(* So are two requests, if their subscribers change places with them:      *)
(* TwoSubscribers is the same function then.                               *)
UeSymmetry == IdSymmetry \cup {r1 :> r2 @@ r2 :> r1 @@ sA :> sB @@ sB :> sA}

=============================================================================
