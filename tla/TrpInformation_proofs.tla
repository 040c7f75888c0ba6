----------------------- MODULE TrpInformation_proofs -----------------------
(* Proofs about TrpInformation. *)
EXTENDS TrpInformation, FiniteSetTheorems, TLAPS

(* What the holder of cv_m_gnb may find, and what the others may not do.   *)
MutexInv ==
  /\ \A r \in Requests : pc[r] \in {"ask", "posted"} <=> cv_m_gnb = r
  /\ \A a \in Answers : answer[a] = "adding" <=> cv_m_gnb = a
  /\ \A r \in Requests : pc[r] \in {"ask", "posted"} => Known = {}
  /\ cv_m_gnb \notin Answers => added = 0
  /\ \A a \in Answers : answer[a] = "adding" /\ added > 0 => trp[a[2]] = added

(* A request that is informed knows every gNB there is, so that no answer  *)
(* can add another TRP.                                                    *)
InformedInv ==
  AllAwaited /\ (\E r \in Requests : pc[r] = "informed")
    => /\ Known = Gnbs
       /\ \A a \in Answers : answer[a] = "adding" => added = 0

IInv == TypeOK /\ MutexInv /\ InformedInv /\ NotAllAsleep

USE ConstantsAssumption
USE DEF Answers, Goto, Finish, Throw, NotifyOne

-----------------------------------------------------------------------------
(* Types                                                                   *)

LEMMA TypeInit == Init => TypeOK
BY DEF ConstantsAssumption, Init, TypeOK

(* Only AddTrp could leave its range: it enters no TRP twice.               *)
LEMMA TypeNext ==
  ASSUME TypeOK, MutexInv, [Next]_vars
  PROVE  TypeOK'
<1> USE DEF TypeOK, ConstantsAssumption
<1>1. ASSUME NEW r \in Requests, AlreadyDone(r) PROVE TypeOK'
  BY <1>1 DEF AlreadyDone
<1>2. ASSUME NEW r \in Requests, Lock(r) PROVE TypeOK'
  BY <1>2 DEF Lock
<1>3. ASSUME NEW r \in Requests, TrpInformationRequest(r) PROVE TypeOK'
  BY <1>3 DEF TrpInformationRequest
<1>4. ASSUME NEW r \in Requests, Refused(r) PROVE TypeOK'
  BY <1>4 DEF Refused
<1>5. ASSUME NEW r \in Requests, Unreadable(r) PROVE TypeOK'
  BY <1>5 DEF Unreadable
<1>6. ASSUME NEW r \in Requests, Wait(r) PROVE TypeOK'
  BY <1>6 DEF Wait
<1>7. ASSUME NEW r \in Requests, Recheck(r) PROVE TypeOK'
  BY <1>7 DEF Recheck
<1>8. ASSUME NEW r \in Requests, Timeout(r) PROVE TypeOK'
  BY <1>8 DEF Timeout
<1>9. ASSUME NEW r \in Requests, WaitEnds(r) PROVE TypeOK'
  BY <1>9 DEF WaitEnds
<1>10. ASSUME NEW r \in Requests, Locate(r) PROVE TypeOK'
  BY <1>10 DEF Locate
<1>11. ASSUME NEW a \in Answers, Lost(a) PROVE TypeOK'
  BY <1>11 DEF Lost
<1>12. ASSUME NEW a \in Answers, TooLate(a) PROVE TypeOK'
  BY <1>12 DEF TooLate
<1>13. ASSUME NEW a \in Answers, LookUp(a) PROVE TypeOK'
  BY <1>13 DEF LookUp
<1>14. ASSUME NEW a \in Answers, TrpInformationFailure(a) PROVE TypeOK'
  BY <1>14 DEF TrpInformationFailure
<1>15. ASSUME NEW a \in Answers, HandleTrpInformationResponse(a) PROVE TypeOK'
  BY <1>15 DEF HandleTrpInformationResponse
<1>16. ASSUME NEW a \in Answers, AddTrp(a) PROVE TypeOK'
  <2>1. trp[a[2]] \in Nat /\ trp[a[2]] < TrpCount /\ a[2] \in Gnbs
    BY <1>16 DEF AddTrp, MutexInv
  <2>2. trp' \in [Gnbs -> 0..TrpCount] /\ added' \in 0..TrpCount
    BY <1>16, <2>1 DEF AddTrp
  <2> QED
    BY <1>16, <2>2 DEF AddTrp
<1>17. ASSUME NEW a \in Answers, NotUnique(a) PROVE TypeOK'
  BY <1>17 DEF NotUnique
<1>18. ASSUME NEW a \in Answers, Unusable(a) PROVE TypeOK'
  BY <1>18 DEF Unusable
<1>19. ASSUME NEW a \in Answers, AllAdded(a) PROVE TypeOK'
  BY <1>19 DEF AllAdded
<1>20. ASSUME UNCHANGED vars PROVE TypeOK'
  BY <1>20 DEF vars
<1> HIDE DEF TypeOK, ConstantsAssumption
<1> QED BY <1>1, <1>2, <1>3, <1>4, <1>5, <1>6, <1>7, <1>8, <1>9, <1>10,
       <1>11, <1>12, <1>13, <1>14, <1>15, <1>16, <1>17, <1>18, <1>19, <1>20
       DEF Next, RequestStep, AnswerStep, Terminated

-----------------------------------------------------------------------------
(* The mutex                                                               *)

LEMMA MutexInit == Init => MutexInv
BY DEF ConstantsAssumption, Init, MutexInv, Known

(* Who holds the mutex is one request or one answer at a time.             *)
LEMMA MutexNext ==
  ASSUME TypeOK, MutexInv, [Next]_vars
  PROVE  MutexInv'
<1> USE DEF TypeOK, ConstantsAssumption, MutexInv, Known
<1>1. ASSUME NEW r \in Requests, AlreadyDone(r) PROVE MutexInv'
  BY <1>1 DEF AlreadyDone
<1>2. ASSUME NEW r \in Requests, Lock(r) PROVE MutexInv'
  BY <1>2 DEF Lock
<1>3. ASSUME NEW r \in Requests, TrpInformationRequest(r) PROVE MutexInv'
  BY <1>3 DEF TrpInformationRequest
<1>4. ASSUME NEW r \in Requests, Refused(r) PROVE MutexInv'
  BY <1>4 DEF Refused
<1>5. ASSUME NEW r \in Requests, Unreadable(r) PROVE MutexInv'
  BY <1>5 DEF Unreadable
<1>6. ASSUME NEW r \in Requests, Wait(r) PROVE MutexInv'
  BY <1>6 DEF Wait
<1>7. ASSUME NEW r \in Requests, Recheck(r) PROVE MutexInv'
  BY <1>7 DEF Recheck
<1>8. ASSUME NEW r \in Requests, Timeout(r) PROVE MutexInv'
  BY <1>8 DEF Timeout
<1>9. ASSUME NEW r \in Requests, WaitEnds(r) PROVE MutexInv'
  BY <1>9 DEF WaitEnds
<1>10. ASSUME NEW r \in Requests, Locate(r) PROVE MutexInv'
  BY <1>10 DEF Locate
<1>11. ASSUME NEW a \in Answers, Lost(a) PROVE MutexInv'
  BY <1>11 DEF Lost
<1>12. ASSUME NEW a \in Answers, TooLate(a) PROVE MutexInv'
  BY <1>12 DEF TooLate
<1>13. ASSUME NEW a \in Answers, LookUp(a) PROVE MutexInv'
  BY <1>13 DEF LookUp
<1>14. ASSUME NEW a \in Answers, TrpInformationFailure(a) PROVE MutexInv'
  BY <1>14 DEF TrpInformationFailure
<1>15. ASSUME NEW a \in Answers, HandleTrpInformationResponse(a) PROVE MutexInv'
  BY <1>15 DEF HandleTrpInformationResponse
<1>16. ASSUME NEW a \in Answers, AddTrp(a) PROVE MutexInv'
  BY <1>16 DEF AddTrp
<1>17. ASSUME NEW a \in Answers, NotUnique(a) PROVE MutexInv'
  BY <1>17 DEF NotUnique
<1>18. ASSUME NEW a \in Answers, Unusable(a) PROVE MutexInv'
  BY <1>18 DEF Unusable
<1>19. ASSUME NEW a \in Answers, AllAdded(a) PROVE MutexInv'
  BY <1>19 DEF AllAdded
<1>20. ASSUME UNCHANGED vars PROVE MutexInv'
  BY <1>20 DEF vars
<1> HIDE DEF TypeOK, ConstantsAssumption, MutexInv, Known
<1> QED BY <1>1, <1>2, <1>3, <1>4, <1>5, <1>6, <1>7, <1>8, <1>9, <1>10,
       <1>11, <1>12, <1>13, <1>14, <1>15, <1>16, <1>17, <1>18, <1>19, <1>20
       DEF Next, RequestStep, AnswerStep, Terminated

-----------------------------------------------------------------------------
(* Who is informed                                                         *)

LEMMA InformedInit == Init => InformedInv
BY DEF Init, InformedInv

(* The wait that informs counts all gNBs.                                  *)
LEMMA InformedNext ==
  ASSUME TypeOK, MutexInv, InformedInv, [Next]_vars
  PROVE  InformedInv'
<1> USE DEF TypeOK, ConstantsAssumption, InformedInv, AllAwaited, Known
<1>1. ASSUME NEW r \in Requests, AlreadyDone(r) PROVE InformedInv'
  BY <1>1 DEF AlreadyDone
<1>2. ASSUME NEW r \in Requests, Lock(r) PROVE InformedInv'
  BY <1>2 DEF Lock
<1>3. ASSUME NEW r \in Requests, TrpInformationRequest(r) PROVE InformedInv'
  BY <1>3 DEF TrpInformationRequest
<1>4. ASSUME NEW r \in Requests, Refused(r) PROVE InformedInv'
  BY <1>4 DEF Refused
<1>5. ASSUME NEW r \in Requests, Unreadable(r) PROVE InformedInv'
  BY <1>5 DEF Unreadable
<1>6. ASSUME NEW r \in Requests, Wait(r) PROVE InformedInv'
  BY <1>6 DEF Wait
<1>7. ASSUME NEW r \in Requests, Recheck(r) PROVE InformedInv'
  BY <1>7 DEF Recheck
<1>8. ASSUME NEW r \in Requests, Timeout(r) PROVE InformedInv'
  BY <1>8 DEF Timeout
<1>9. ASSUME NEW r \in Requests, WaitEnds(r) PROVE InformedInv'
  <2>1. CASE AllAwaited /\ ~WaitFails /\ pc' = [pc EXCEPT ![r] = "informed"]
    <3>1. /\ ~(Cardinality(Known) < lmf_cfg.num_gnb)
          /\ Cardinality(Gnbs) <= lmf_cfg.num_gnb
      BY <2>1 DEF WaitFails
    <3>2. /\ IsFiniteSet(Known)
          /\ Cardinality(Known) <= Cardinality(Gnbs)
          /\ Cardinality(Gnbs) = Cardinality(Known) => Gnbs = Known
      BY FS_Subset DEF Known
    <3>3. Cardinality(Known) \in Nat /\ Cardinality(Gnbs) \in Nat
          /\ lmf_cfg.num_gnb \in Nat
      BY <3>2, FS_CardinalityType DEF LmfConfig
    <3>4. Known = Gnbs
      BY <3>1, <3>2, <3>3
    <3>5. \A b \in Answers : answer[b] # "adding"
      BY <1>9 DEF WaitEnds, MutexInv
    <3> QED
      BY <1>9, <3>4, <3>5 DEF WaitEnds
  <2>2. CASE ~AllAwaited \/ pc' = [pc EXCEPT ![r] = "failed"]
    BY <1>9, <2>2 DEF WaitEnds
  <2> QED
    BY <1>9, <2>1, <2>2 DEF WaitEnds
<1>10. ASSUME NEW r \in Requests, Locate(r) PROVE InformedInv'
  BY <1>10 DEF Locate
<1>11. ASSUME NEW a \in Answers, Lost(a) PROVE InformedInv'
  BY <1>11 DEF Lost
<1>12. ASSUME NEW a \in Answers, TooLate(a) PROVE InformedInv'
  BY <1>12 DEF TooLate
<1>13. ASSUME NEW a \in Answers, LookUp(a) PROVE InformedInv'
  BY <1>13 DEF LookUp
<1>14. ASSUME NEW a \in Answers, TrpInformationFailure(a) PROVE InformedInv'
  BY <1>14 DEF TrpInformationFailure
<1>15. ASSUME NEW a \in Answers, HandleTrpInformationResponse(a) PROVE InformedInv'
  <2>1. added = 0
    BY <1>15 DEF HandleTrpInformationResponse, MutexInv
  <2> QED
    BY <1>15, <2>1 DEF HandleTrpInformationResponse
<1>16. ASSUME NEW a \in Answers, AddTrp(a) PROVE InformedInv'
  BY <1>16 DEF AddTrp
<1>17. ASSUME NEW a \in Answers, NotUnique(a) PROVE InformedInv'
  BY <1>17 DEF NotUnique
<1>18. ASSUME NEW a \in Answers, Unusable(a) PROVE InformedInv'
  BY <1>18 DEF Unusable
<1>19. ASSUME NEW a \in Answers, AllAdded(a) PROVE InformedInv'
  BY <1>19 DEF AllAdded
<1>20. ASSUME UNCHANGED vars PROVE InformedInv'
  BY <1>20 DEF vars
<1> HIDE DEF TypeOK, ConstantsAssumption, InformedInv, AllAwaited, Known
<1> QED BY <1>1, <1>2, <1>3, <1>4, <1>5, <1>6, <1>7, <1>8, <1>9, <1>10,
       <1>11, <1>12, <1>13, <1>14, <1>15, <1>16, <1>17, <1>18, <1>19, <1>20
       DEF Next, RequestStep, AnswerStep, Terminated

-----------------------------------------------------------------------------
(* Who sleeps                                                              *)

LEMMA AwakeInit == Init => NotAllAsleep
BY DEF Init, NotAllAsleep

LEMMA ReceivedUnchanged ==
  ASSUME UNCHANGED <<lmf_cfg, trp, trp_info_err>>
  PROVE  (Received' <=> Received) /\ (Complete' <=> Complete)
BY DEF Received, Complete, Known

(* Whoever completes the map notifies one waiter.                           *)
LEMMA AwakeNext ==
  ASSUME TypeOK, MutexInv, NotAllAsleep, [Next]_vars
  PROVE  NotAllAsleep'
<1> USE DEF TypeOK, ConstantsAssumption, NotAllAsleep, Entering, Woken
<1>1. ASSUME NEW r \in Requests, AlreadyDone(r) PROVE NotAllAsleep'
  <2>1. (Received' <=> Received) /\ (Complete' <=> Complete)
    BY <1>1, ReceivedUnchanged DEF AlreadyDone
  <2> QED
    BY <1>1, <2>1 DEF AlreadyDone, MutexInv
<1>2. ASSUME NEW r \in Requests, Lock(r) PROVE NotAllAsleep'
  <2>1. (Received' <=> Received) /\ (Complete' <=> Complete)
    BY <1>2, ReceivedUnchanged DEF Lock
  <2> QED
    BY <1>2, <2>1 DEF Lock, MutexInv
<1>3. ASSUME NEW r \in Requests, TrpInformationRequest(r) PROVE NotAllAsleep'
  <2>1. (Received' <=> Received) /\ (Complete' <=> Complete)
    BY <1>3, ReceivedUnchanged DEF TrpInformationRequest
  <2> QED
    BY <1>3, <2>1 DEF TrpInformationRequest, MutexInv
<1>4. ASSUME NEW r \in Requests, Refused(r) PROVE NotAllAsleep'
  <2>1. (Received' <=> Received) /\ (Complete' <=> Complete)
    BY <1>4, ReceivedUnchanged DEF Refused
  <2> QED
    BY <1>4, <2>1 DEF Refused, MutexInv
<1>5. ASSUME NEW r \in Requests, Unreadable(r) PROVE NotAllAsleep'
  <2>1. (Received' <=> Received) /\ (Complete' <=> Complete)
    BY <1>5, ReceivedUnchanged DEF Unreadable
  <2> QED
    BY <1>5, <2>1 DEF Unreadable, MutexInv
<1>6. ASSUME NEW r \in Requests, Wait(r) PROVE NotAllAsleep'
  <2>1. Known = {} /\ Known' = Known
    BY <1>6 DEF Wait, MutexInv, Known
  <2>2. TypeOK'
    BY <1>6, TypeNext DEF Next, RequestStep, TypeOK
  <2>3. ~Received'
    BY <1>6, <2>1, <2>2, FS_EmptySet DEF Wait, Received, TypeOK, LmfConfig
  <2> QED
    BY <2>3
<1>7. ASSUME NEW r \in Requests, Recheck(r) PROVE NotAllAsleep'
  <2>1. (Received' <=> Received) /\ (Complete' <=> Complete)
    BY <1>7, ReceivedUnchanged DEF Recheck
  <2> QED
    BY <1>7, <2>1 DEF Recheck, MutexInv
<1>8. ASSUME NEW r \in Requests, Timeout(r) PROVE NotAllAsleep'
  <2>1. (Received' <=> Received) /\ (Complete' <=> Complete)
    BY <1>8, ReceivedUnchanged DEF Timeout
  <2> QED
    BY <1>8, <2>1 DEF Timeout, MutexInv
<1>9. ASSUME NEW r \in Requests, WaitEnds(r) PROVE NotAllAsleep'
  <2>1. (Received' <=> Received) /\ (Complete' <=> Complete)
    BY <1>9, ReceivedUnchanged DEF WaitEnds
  <2> QED
    BY <1>9, <2>1 DEF WaitEnds, MutexInv
<1>10. ASSUME NEW r \in Requests, Locate(r) PROVE NotAllAsleep'
  <2>1. (Received' <=> Received) /\ (Complete' <=> Complete)
    BY <1>10, ReceivedUnchanged DEF Locate
  <2> QED
    BY <1>10, <2>1 DEF Locate, MutexInv
<1>11. ASSUME NEW a \in Answers, Lost(a) PROVE NotAllAsleep'
  <2>1. (Received' <=> Received) /\ (Complete' <=> Complete)
    BY <1>11, ReceivedUnchanged DEF Lost
  <2> QED
    BY <1>11, <2>1 DEF Lost, MutexInv
<1>12. ASSUME NEW a \in Answers, TooLate(a) PROVE NotAllAsleep'
  <2>1. (Received' <=> Received) /\ (Complete' <=> Complete)
    BY <1>12, ReceivedUnchanged DEF TooLate
  <2> QED
    BY <1>12, <2>1 DEF TooLate, MutexInv
<1>13. ASSUME NEW a \in Answers, LookUp(a) PROVE NotAllAsleep'
  <2>1. (Received' <=> Received) /\ (Complete' <=> Complete)
    BY <1>13, ReceivedUnchanged DEF LookUp
  <2> QED
    BY <1>13, <2>1 DEF LookUp, MutexInv
<1>14. ASSUME NEW a \in Answers, TrpInformationFailure(a) PROVE NotAllAsleep'
  BY <1>14 DEF TrpInformationFailure
<1>15. ASSUME NEW a \in Answers, HandleTrpInformationResponse(a) PROVE NotAllAsleep'
  <2>1. (Received' <=> Received) /\ (Complete' <=> Complete)
    BY <1>15, ReceivedUnchanged DEF HandleTrpInformationResponse
  <2> QED
    BY <1>15, <2>1 DEF HandleTrpInformationResponse, MutexInv
<1>16. ASSUME NEW a \in Answers, AddTrp(a) PROVE NotAllAsleep'
  BY <1>16 DEF AddTrp
<1>17. ASSUME NEW a \in Answers, NotUnique(a) PROVE NotAllAsleep'
  <2>1. (Received' <=> Received) /\ (Complete' <=> Complete)
    BY <1>17, ReceivedUnchanged DEF NotUnique
  <2> QED
    BY <1>17, <2>1 DEF NotUnique, MutexInv
<1>18. ASSUME NEW a \in Answers, Unusable(a) PROVE NotAllAsleep'
  <2>1. (Received' <=> Received) /\ (Complete' <=> Complete)
    BY <1>18, ReceivedUnchanged DEF Unusable
  <2>2. CASE added = 0
    BY <1>18, <2>1, <2>2 DEF Unusable, MutexInv
  <2>3. CASE added # 0
    <3>1. a[2] \in Gnbs /\ trp[a[2]] = added /\ added > 0 /\ added < TrpCount
      BY <1>18, <2>3 DEF Unusable, MutexInv
    <3>2. ~Complete
      BY <3>1 DEF Complete, Known
    <3> QED
      BY <2>1, <3>2
  <2> QED
    BY <2>2, <2>3
<1>19. ASSUME NEW a \in Answers, AllAdded(a) PROVE NotAllAsleep'
  BY <1>19 DEF AllAdded
<1>20. ASSUME UNCHANGED vars PROVE NotAllAsleep'
  <2>1. (Received' <=> Received) /\ (Complete' <=> Complete)
    BY <1>20, ReceivedUnchanged DEF vars
  <2> QED
    BY <1>20, <2>1 DEF vars
<1> HIDE DEF TypeOK, ConstantsAssumption, NotAllAsleep, Entering, Woken
<1> QED BY <1>1, <1>2, <1>3, <1>4, <1>5, <1>6, <1>7, <1>8, <1>9, <1>10,
       <1>11, <1>12, <1>13, <1>14, <1>15, <1>16, <1>17, <1>18, <1>19, <1>20
       DEF Next, RequestStep, AnswerStep, Terminated

-----------------------------------------------------------------------------
(* Theorems                                                                *)

(* The inductive invariant.                                                *)
THEOREM Invariance == Spec => []IInv
<1>1. Init => IInv
  BY TypeInit, MutexInit, InformedInit, AwakeInit DEF IInv
<1>2. IInv /\ [Next]_vars => IInv'
  BY TypeNext, MutexNext, InformedNext, AwakeNext DEF IInv
<1> QED
  BY <1>1, <1>2, PTL DEF Spec

(* The variables have their types: no gNB gets more TRPs than it has,      *)
(* however many requests ask it.                                           *)
THEOREM Typing == Spec => []TypeOK
<1>1. IInv => TypeOK
  BY DEF IInv
<1> QED
  BY <1>1, Invariance, PTL

(* When all configured gNBs have answered, one who waited has been woken.  *)
THEOREM SomebodyIsWoken == Spec => []NotAllAsleep
<1>1. IInv => NotAllAsleep
  BY DEF IInv
<1> QED
  BY <1>1, Invariance, PTL

(* Only the first request asks: the mutex is kept from its look at the map *)
(* to its question.                                                        *)
THEOREM OnlyTheFirstAsks == Spec => AskOnlyUnknown
<1>1. IInv /\ [Next]_vars =>
        [(\E a \in Answers : answer[a] = "none" /\ answer'[a] = "asked")
            => Known = {}]_vars
  <2> SUFFICES ASSUME IInv, Next,
                      NEW a \in Answers, answer[a] = "none", answer'[a] = "asked"
               PROVE  Known = {}
    BY DEF vars
  <2>1. CASE \E r \in Requests : TrpInformationRequest(r)
    BY <2>1 DEF TrpInformationRequest, IInv, MutexInv
  <2>2. CASE ~ \E r \in Requests : TrpInformationRequest(r)
    <3>1. UNCHANGED answer \/ \E b \in Answers, v \in {"lookedUp", "adding", "gone"} :
                                answer' = [answer EXCEPT ![b] = v]
      BY <2>2 DEF Next, RequestStep, AnswerStep, Terminated, vars,
         AlreadyDone, Lock, Refused, Unreadable, Wait, Recheck, Timeout, WaitEnds,
         Locate, Lost, TooLate, LookUp, TrpInformationFailure,
         HandleTrpInformationResponse, AddTrp, NotUnique, Unusable, AllAdded
    <3> QED
      BY <3>1 DEF IInv, TypeOK
  <2> QED
    BY <2>1, <2>2
<1> QED
  BY <1>1, Invariance, PTL DEF Spec, AskOnlyUnknown

(* Once a wait for all gNBs has ended well, no late answer changes the map *)
(* that is read without the mutex.                                         *)
THEOREM MapIsSettled == Spec => Settled
<1>1. IInv /\ [Next]_vars =>
        [AllAwaited /\ (\E r \in Requests : pc[r] = "informed")
            => UNCHANGED trp]_vars
  <2> SUFFICES ASSUME IInv, Next, AllAwaited, \E r \in Requests : pc[r] = "informed"
               PROVE  UNCHANGED trp
    BY DEF vars
  <2>1. \A a \in Answers : ~AddTrp(a)
    BY DEF AddTrp, IInv, InformedInv, Known
  <2> QED
    BY <2>1 DEF Next, RequestStep, AnswerStep, Terminated, vars,
       AlreadyDone, Lock, TrpInformationRequest, Refused, Unreadable, Wait, Recheck,
       Timeout, WaitEnds, Locate, Lost, TooLate, LookUp, TrpInformationFailure,
       HandleTrpInformationResponse, NotUnique, Unusable, AllAdded
<1> QED
  BY <1>1, Invariance, PTL DEF Spec, Settled

=============================================================================
