--------------------------- MODULE TrpInformation ---------------------------
(***************************************************************************)
(* TRP information (lmf_app::trp_information and the handling of its       *)
(* answers): a request that knows no gNB asks all of them and waits on     *)
(* cv_gnb, while notification threads fill the map gnb and notify one      *)
(* waiter each.  A request that finds any gNB asks nothing.                *)
(*                                                                         *)
(* The mutex cv_m_gnb is held from the look at the map to the wait, over   *)
(* the call to the AMF, and by a handler from its first TRP to its notify. *)
(* Ids, contexts and subscriptions are those of NrppaTransactions and      *)
(* LocationService; here a request and a gNB name an answer.               *)
(***************************************************************************)
EXTENDS Naturals, FiniteSets

CONSTANTS
  Requests,    \* determine-location requests, each with a context
  Gnbs,        \* gNBs the AMF reaches
  Faulty,      \* those that may refuse, or send a TRP that is no use
  TrpCount,    \* TRPs of a gNB
  MaxGnb,      \* bound of the model: gNBs configured
  None         \* nobody

ASSUME ConstantsAssumption ==
  /\ IsFiniteSet(Requests) /\ IsFiniteSet(Gnbs) /\ Faulty \subseteq Gnbs
  /\ TrpCount \in Nat \ {0} /\ MaxGnb \in Nat \ {0}
  /\ None \notin Requests \cup (Requests \X Gnbs)
  /\ Requests \cap (Requests \X Gnbs) = {}

VARIABLES
  lmf_cfg,       \* determine_num_gnb and num_gnb
  pc,            \* per request: where its thread is
  nrppa_tId,     \* per request: is its transaction in its context's table?
  cv_m_gnb,      \* who holds the mutex
  trp,           \* gnb: TRPs known per gNB, 0 for one that is not in the map
  trp_info_err,  \* how many gNBs have refused
  answer,        \* per request and gNB: what has become of the answer
  added          \* TRPs that the handler with the mutex has added

vars == <<lmf_cfg, pc, nrppa_tId, cv_m_gnb, trp, trp_info_err, answer, added>>

Answers   == Requests \X Gnbs
LmfConfig == [determine_num_gnb : BOOLEAN, num_gnb : 1..MaxGnb]

Init ==
  /\ lmf_cfg \in LmfConfig
  /\ pc = [r \in Requests |-> "start"]
  /\ nrppa_tId = [r \in Requests |-> FALSE]
  /\ cv_m_gnb = None
  /\ trp = [g \in Gnbs |-> 0] /\ trp_info_err = 0
  /\ answer = [a \in Answers |-> "none"] /\ added = 0

Known == {g \in Gnbs : trp[g] > 0}

Goto(r, label) == pc' = [pc EXCEPT ![r] = label]

-----------------------------------------------------------------------------
(* trp_information                                                         *)

(* A gNB is known: nothing is asked.                                       *)
AlreadyDone(r) ==
  /\ pc[r] = "start" /\ cv_m_gnb = None
  /\ Known # {}
  /\ Goto(r, "alreadyDone")
  /\ UNCHANGED <<lmf_cfg, nrppa_tId, cv_m_gnb, trp, trp_info_err, answer, added>>

(* Mutant of Lock: the mutex is not kept for the question.                 *)
Lock_Released(r) ==
  /\ pc[r] = "start" /\ cv_m_gnb = None
  /\ Known = {}
  /\ Goto(r, "ask")
  /\ UNCHANGED <<lmf_cfg, nrppa_tId, cv_m_gnb, trp, trp_info_err, answer, added>>

(* None is: the mutex is kept.                                             *)
Lock(r) ==
  /\ pc[r] = "start" /\ cv_m_gnb = None
  /\ Known = {}
  /\ cv_m_gnb' = r
  /\ Goto(r, "ask")
  /\ UNCHANGED <<lmf_cfg, nrppa_tId, trp, trp_info_err, answer, added>>

(* The transaction is entered in the context's table and the AMF asks all. *)
TrpInformationRequest(r) ==
  /\ pc[r] = "ask"
  /\ nrppa_tId' = [nrppa_tId EXCEPT ![r] = TRUE]
  /\ answer' = [a \in Answers |-> IF a[1] = r THEN "asked" ELSE answer[a]]
  /\ Goto(r, "posted")
  /\ UNCHANGED <<lmf_cfg, cv_m_gnb, trp, trp_info_err, added>>

(* The AMF refuses: the transaction is erased again.                       *)
Refused(r) ==
  /\ pc[r] = "ask"
  /\ cv_m_gnb' = None
  /\ Goto(r, "refused")
  /\ UNCHANGED <<lmf_cfg, nrppa_tId, trp, trp_info_err, answer, added>>

(* Its reply cannot be read: the transaction stays in the table.           *)
Unreadable(r) ==
  /\ pc[r] = "posted"
  /\ cv_m_gnb' = None
  /\ Goto(r, "refused")
  /\ UNCHANGED <<lmf_cfg, nrppa_tId, trp, trp_info_err, answer, added>>

(* The predicate of the wait.                                              *)
Received ==
  /\ ~lmf_cfg.determine_num_gnb
  /\ Cardinality(Known) + trp_info_err = lmf_cfg.num_gnb

(* All errors are forgotten and the mutex is given up.  No gNB is known    *)
(* here, so that the predicate cannot hold at once.                        *)
Wait(r) ==
  /\ pc[r] = "posted"
  /\ trp_info_err' = 0
  /\ cv_m_gnb' = None
  /\ Goto(r, "wait")
  /\ UNCHANGED <<lmf_cfg, nrppa_tId, trp, answer, added>>

(* Mutant of Recheck: the wait starts again when its time is over.         *)
Recheck_AfterTimeout(r) ==
  /\ pc[r] \in {"notified", "timedOut"} /\ cv_m_gnb = None
  /\ ~Received
  /\ Goto(r, "wait")
  /\ UNCHANGED <<lmf_cfg, nrppa_tId, cv_m_gnb, trp, trp_info_err, answer, added>>

(* A notified waiter with the mutex looks at the predicate and goes back,  *)
Recheck(r) ==
  /\ pc[r] = "notified" /\ cv_m_gnb = None
  /\ ~Received
  /\ Goto(r, "wait")
  /\ UNCHANGED <<lmf_cfg, nrppa_tId, cv_m_gnb, trp, trp_info_err, answer, added>>

Timeout(r) ==
  /\ pc[r] = "wait"
  /\ Goto(r, "timedOut")
  /\ UNCHANGED <<lmf_cfg, nrppa_tId, cv_m_gnb, trp, trp_info_err, answer, added>>

(* Mutant of WaitFails: the gNBs are not counted.                          *)
WaitFails_Uncounted == trp_info_err > 0 \/ Known = {}

(* The checks after the wait.                                              *)
WaitFails ==
  \/ trp_info_err > 0
  \/ /\ ~lmf_cfg.determine_num_gnb
     /\ ~Received \/ Cardinality(Known) < lmf_cfg.num_gnb
  \/ Known = {}

(* Or the wait is over: the transaction is erased.                         *)
WaitEnds(r) ==
  /\ cv_m_gnb = None
  /\ pc[r] = "timedOut" \/ (pc[r] = "notified" /\ Received)
  /\ nrppa_tId' = [nrppa_tId EXCEPT ![r] = FALSE]
  /\ \/ WaitFails /\ Goto(r, "failed")
     \/ ~WaitFails /\ Goto(r, "informed")
  /\ UNCHANGED <<lmf_cfg, cv_m_gnb, trp, trp_info_err, answer, added>>

(* The request has measured and located: it reads the map, without the     *)
(* mutex, until here.                                                      *)
Locate(r) ==
  /\ pc[r] \in {"informed", "alreadyDone"}
  /\ Goto(r, "located")
  /\ UNCHANGED <<lmf_cfg, nrppa_tId, cv_m_gnb, trp, trp_info_err, answer, added>>

-----------------------------------------------------------------------------
(* Answers.  a = <<request, gNB>>                                          *)

Finish(a) == answer' = [answer EXCEPT ![a] = "gone"]

(* An answer that is lost on its way, ...                                  *)
Lost(a) ==
  /\ answer[a] = "asked"
  /\ Finish(a)
  /\ UNCHANGED <<lmf_cfg, pc, nrppa_tId, cv_m_gnb, trp, trp_info_err, added>>

(* ... or too late: "unknown nrppa transaction id".                        *)
TooLate(a) ==
  /\ answer[a] = "asked" /\ ~nrppa_tId[a[1]]
  /\ Finish(a)
  /\ UNCHANGED <<lmf_cfg, pc, nrppa_tId, cv_m_gnb, trp, trp_info_err, added>>

(* The transaction is looked up without the mutex, ...                     *)
LookUp(a) ==
  /\ answer[a] = "asked" /\ nrppa_tId[a[1]]
  /\ answer' = [answer EXCEPT ![a] = "lookedUp"]
  /\ UNCHANGED <<lmf_cfg, pc, nrppa_tId, cv_m_gnb, trp, trp_info_err, added>>

(* notify_one *)
NotifyOne ==
  \/ \E r \in Requests : pc[r] = "wait" /\ Goto(r, "notified")
  \/ (\A r \in Requests : pc[r] # "wait") /\ UNCHANGED pc

(* Mutant of TrpInformationFailure: it notifies nobody.                    *)
TrpInformationFailure_Silent(a) ==
  /\ answer[a] = "lookedUp" /\ cv_m_gnb = None
  /\ a[2] \in Faulty
  /\ trp_info_err' = trp_info_err + 1
  /\ UNCHANGED pc
  /\ Finish(a)
  /\ UNCHANGED <<lmf_cfg, nrppa_tId, cv_m_gnb, trp, added>>

(* ... and with it a failure is noted                                      *)
TrpInformationFailure(a) ==
  /\ answer[a] = "lookedUp" /\ cv_m_gnb = None
  /\ a[2] \in Faulty
  /\ trp_info_err' = trp_info_err + 1
  /\ NotifyOne
  /\ Finish(a)
  /\ UNCHANGED <<lmf_cfg, nrppa_tId, cv_m_gnb, trp, added>>

(* or the answer entered, TRP by TRP.                                      *)
HandleTrpInformationResponse(a) ==
  /\ answer[a] = "lookedUp" /\ cv_m_gnb = None
  /\ cv_m_gnb' = a
  /\ answer' = [answer EXCEPT ![a] = "adding"]
  /\ UNCHANGED <<lmf_cfg, pc, nrppa_tId, trp, trp_info_err, added>>

(* Mutant of AddTrp: what is there already is added to.                    *)
AddTrp_Again(a) ==
  /\ answer[a] = "adding" /\ added < TrpCount
  /\ trp' = [trp EXCEPT ![a[2]] = @ + 1]
  /\ added' = added + 1
  /\ UNCHANGED <<lmf_cfg, pc, nrppa_tId, cv_m_gnb, trp_info_err, answer>>

(* A gNB is entered with its first TRP.                                    *)
AddTrp(a) ==
  /\ answer[a] = "adding" /\ added < TrpCount
  /\ added = 0 => trp[a[2]] = 0
  /\ trp' = [trp EXCEPT ![a[2]] = @ + 1]
  /\ added' = added + 1
  /\ UNCHANGED <<lmf_cfg, pc, nrppa_tId, cv_m_gnb, trp_info_err, answer>>

(* An exception: the mutex is given up and nobody notified.                *)
Throw(a) ==
  /\ cv_m_gnb' = None /\ added' = 0
  /\ Finish(a)
  /\ UNCHANGED <<lmf_cfg, pc, nrppa_tId, trp, trp_info_err>>

(* Another request's question has been answered before: "not unique".      *)
NotUnique(a) ==
  /\ answer[a] = "adding" /\ added = 0 /\ trp[a[2]] > 0
  /\ Throw(a)

(* A TRP cannot be used: those before it stay.                             *)
Unusable(a) ==
  /\ answer[a] = "adding" /\ added < TrpCount
  /\ a[2] \in Faulty
  /\ Throw(a)

AllAdded(a) ==
  /\ answer[a] = "adding" /\ added = TrpCount
  /\ NotifyOne
  /\ cv_m_gnb' = None /\ added' = 0
  /\ Finish(a)
  /\ UNCHANGED <<lmf_cfg, nrppa_tId, trp, trp_info_err>>

-----------------------------------------------------------------------------
RequestStep(r) ==
  \/ AlreadyDone(r) \/ Lock(r) \/ TrpInformationRequest(r)
  \/ Refused(r) \/ Unreadable(r) \/ Wait(r)
  \/ Recheck(r) \/ Timeout(r) \/ WaitEnds(r) \/ Locate(r)

AnswerStep(a) ==
  \/ Lost(a) \/ TooLate(a) \/ LookUp(a)
  \/ TrpInformationFailure(a) \/ HandleTrpInformationResponse(a)
  \/ AddTrp(a) \/ NotUnique(a) \/ Unusable(a) \/ AllAdded(a)

Ended(r) == pc[r] \in {"located", "failed", "refused"}

Terminated ==
  /\ \A r \in Requests : Ended(r)
  /\ \A a \in Answers : answer[a] \in {"none", "gone"}
  /\ UNCHANGED vars

Next ==
  \/ \E r \in Requests : RequestStep(r)
  \/ \E a \in Answers : AnswerStep(a)
  \/ Terminated

(* Threads run, the wait has a timeout and the HTTP client returns.        *)
Spec ==
  /\ Init /\ [][Next]_vars
  /\ \A r \in Requests : WF_vars(RequestStep(r))
  /\ \A a \in Answers : WF_vars(AnswerStep(a))

-----------------------------------------------------------------------------
(* Properties *)

(* The types of the variables.                                             *)
TypeOK ==
  /\ lmf_cfg \in LmfConfig
  /\ pc \in [Requests -> {"start", "alreadyDone", "ask", "posted", "wait",
                          "notified", "timedOut", "informed", "located",
                          "failed", "refused"}]
  /\ nrppa_tId \in [Requests -> BOOLEAN]
  /\ cv_m_gnb \in Requests \cup Answers \cup {None}
  /\ trp \in [Gnbs -> 0..TrpCount]
  /\ trp_info_err \in Nat
  /\ answer \in [Answers -> {"none", "asked", "lookedUp", "adding", "gone"}]
  /\ added \in 0..TrpCount

(* No gNB is asked once one is known: the mutex is held from the look at   *)
(* the map to the question.  An answer to such a question would be refused *)
(* as "not unique" and wake nobody.                                        *)
AskOnlyUnknown ==
  [][(\E a \in Answers : answer[a] = "none" /\ answer'[a] = "asked")
       => Known = {}]_vars

(* Once a wait for all the gNBs there are has ended well, the map stays as *)
(* it is: the request measures and locates with what it was told, although *)
(* it reads the map without the mutex and answers to others' questions may *)
(* still come.                                                             *)
AllAwaited ==
  ~lmf_cfg.determine_num_gnb /\ Cardinality(Gnbs) <= lmf_cfg.num_gnb

Settled ==
  [][AllAwaited /\ (\E r \in Requests : pc[r] = "informed")
       => UNCHANGED trp]_vars

(* If all configured gNBs have answered, with all their TRPs, not everyone *)
(* who waits for that sleeps: one was woken, or was done before.           *)
Woken(r)  == pc[r] \in {"notified", "timedOut", "informed", "located", "failed"}
Entering  == \E a \in Answers : answer[a] = "adding" /\ added > 0
Complete  == \A g \in Known : trp[g] = TrpCount

NotAllAsleep ==
  Received /\ Complete /\ ~Entering /\ (\E r \in Requests : pc[r] = "wait")
    => \E r \in Requests : Woken(r)

(* Every wait ends, however many waiters one notification leaves asleep    *)
(* and whatever a handler throws with the mutex in its hand.               *)
EveryWaitEnds ==
  \A r \in Requests :
    pc[r] \in {"wait", "notified"} ~> pc[r] \in {"informed", "failed", "located"}

(* "alreadey done": a request that measures knows all configured gNBs.     *)
DoneIfAlreadyDone ==
  \A r \in Requests :
    pc[r] = "alreadyDone" /\ ~lmf_cfg.determine_num_gnb
      => Cardinality(Known) >= lmf_cfg.num_gnb

=============================================================================
