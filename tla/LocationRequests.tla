-------------------------- MODULE LocationRequests --------------------------
(***************************************************************************)
(* What determine-location promises to its clients, whatever happens       *)
(* between the LMF, the AMF and the gNBs: every request is answered once,  *)
(* and one fails only for a reason.                                        *)
(***************************************************************************)
EXTENDS Naturals, FiniteSets

CONSTANTS
  Requests,    \* determine-location requests
  Supis,       \* subscribers
  None,        \* no subscriber
  Unserved     \* requests the AMF or a gNB may fail

VARIABLES
  status,       \* what the client of each request has seen
  supi,         \* the subscriber it asks for
  threads,      \* threads of the server
  exposed       \* requests that the failure of another may reach (an input)

vars == <<status, supi, threads>>

Init ==
  /\ status = [r \in Requests |-> "new"]
  /\ supi = [r \in Requests |-> None]
  /\ threads \in Nat \ {0}

Accept(r) ==
  /\ status[r] = "new"
  /\ status' = [status EXCEPT ![r] = "served"]
  /\ \E s \in Supis : supi' = [supi EXCEPT ![r] = s]
  /\ UNCHANGED threads

Locate(r) ==
  /\ status[r] = "served"
  /\ status' = [status EXCEPT ![r] = "located"]
  /\ UNCHANGED <<supi, threads>>

(* The reasons: the network, a server with no thread left for its answers, *)
(* a request for the same subscriber and, for one that is exposed, the     *)
(* failure of another, by the network or already seen.                     *)
Excused(r) ==
  \/ r \in Unserved
  \/ Cardinality({q \in Requests : status[q] = "served"}) >= threads
  \/ \E q \in Requests \ {r} : supi[q] = supi[r]
  \/ /\ r \in exposed
     /\ \E q \in Requests \ {r} :
          status[q] = "failed" \/ (q \in Unserved /\ status[q] # "new")

Fail(r) ==
  /\ status[r] = "served" /\ Excused(r)
  /\ status' = [status EXCEPT ![r] = "failed"]
  /\ UNCHANGED <<supi, threads>>

Next == \E r \in Requests : Accept(r) \/ Locate(r) \/ Fail(r)

SafeSpec == Init /\ [][Next]_vars

Spec ==
  /\ SafeSpec
  /\ \A r \in Requests : WF_vars(Locate(r) \/ Fail(r))

=============================================================================
