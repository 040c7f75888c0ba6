----------------------- MODULE LocationService_proofs -----------------------
(* Proofs about LocationService: types, subscriptions, and that it keeps    *)
(* the safety part of what LocationRequests promises.                       *)
EXTENDS LocationService, TLAPS

Taken(r)  == pc[r] # "new"
FailedOne == \E q \in Requests : pc[q] \in Releasing \cup {"failed"}
Rival(r)  == \E q \in Requests \ {r} : supi[q] = supi[r]

(* Who holds a mutex, and what only its holder may find.                   *)
MutexInv ==
  \A r \in Requests :
    /\ IF Taken(r) THEN supi[r] \in Supis ELSE supi[r] = None
    /\ pc[r] = "postNonUe" =>
         owner["m_non_ue_subs"] = r /\ NonUe \notin subscriptions
    /\ pc[r] = "postUe" =>
         owner["m_supi2n1n2subs"] = r /\ supi[r] \notin subscriptions
    /\ pc[r] = "clearUe" => owner["m_supi2n1n2subs"] = r
    /\ pc[r] = "resetNonUe" =>
         owner["m_non_ue_subs"] = r /\ NonUe \in subscriptions

(* Only the HTTP/2 server releases.                                        *)
ModeInv == \A r \in Requests : pc[r] \in Releasing => lmf_cfg.use_http2

(* What a request that waits can count on, unless it is disturbed.         *)
Disturbed(r) == Rival(r) \/ (lmf_cfg.use_http2 /\ FailedOne)

SubscribedInv ==
  \A r \in Requests :
    /\ pc[r] \in {"createUe", "postUe"} =>
         NonUe \in subscriptions \/ Disturbed(r)
    /\ pc[r] \in {"ask", "await"} =>
         \/ /\ NonUe \in subscriptions
            /\ stage[r] # "trp" => supi[r] \in subscriptions
         \/ Disturbed(r)

ContextInv ==
  \A r \in Requests :
    pc[r] \in {"createNonUe", "postNonUe", "createUe", "postUe",
              "ask", "await"} =>
      supi2ctx[supi[r]] = r \/ Rival(r)

AnswerInv ==
  \A r \in Requests :
    pc[r] = "await" /\ ~Answered(r) =>
      \/ <<r, stage[r]>> \in asked \cup notifications \cup handling
      \/ r \in Unserved \/ (stage[r] = "trp" /\ gnb)
      \/ Disturbed(r)

(* The gNB refuses only a request that the network fails.                  *)
ErrorInv == trp_info_err => \E q \in Unserved : Taken(q)

IInv == TypeOK /\ MutexInv /\ ModeInv /\ SubscriptionsMatch
          /\ SubscribedInv /\ ContextInv /\ AnswerInv /\ ErrorInv

-----------------------------------------------------------------------------
(* A step keeps the types. *)
LEMMA TypeStep ==
  ASSUME ConstantsAssumption, TypeOK, SubscriptionsMatch, MutexInv, Next
  PROVE  TypeOK'
<1> USE DEF TypeOK, Keys, Locks, Stages, Releasing, SubscriptionsMatch,
       MutexInv, Taken, ConstantsAssumption
<1>1. ASSUME NEW r \in Requests, Receive(r) PROVE TypeOK'
  BY <1>1 DEF Receive, Goto, trpVars, netVars, amfVars
<1>2. ASSUME NEW r \in Requests, AlreadySubscribed(r) PROVE TypeOK'
  BY <1>2 DEF AlreadySubscribed, Goto, Creating, Lock, lmfVars, trpVars,
       netVars, amfVars
<1>3. ASSUME NEW r \in Requests, Subscribe(r) PROVE TypeOK'
  BY <1>3 DEF Subscribe, Goto, Creating, Lock, trpVars, netVars, amfVars
<1>4. ASSUME NEW r \in Requests, Subscribed(r) PROVE TypeOK'
  BY <1>4 DEF Subscribed, Goto, Creating, Lock, trpVars, netVars
<1>5. ASSUME NEW r \in Requests, SubscribeFails(r) PROVE TypeOK'
  BY <1>5 DEF SubscribeFails, Goto, Fail, Creating, Lock, Lose, trpVars,
       netVars, amfVars
<1>6. ASSUME NEW r \in Requests, AlreadyDone(r) PROVE TypeOK'
  BY <1>6 DEF AlreadyDone, Goto, TrpsKnown, lmfVars, trpVars, netVars,
       amfVars
<1>7. ASSUME NEW r \in Requests, Ask(r) PROVE TypeOK'
  <2>1. trp_info_err' = FALSE \/ UNCHANGED trp_info_err
    BY <1>7 DEF Ask
  <2>2. trp_info_err' \in BOOLEAN
    <3>1. trp_info_err \in BOOLEAN
      OBVIOUS
    <3> QED BY <2>1, <3>1, Zenon
  <2>3. pc' \in [Requests -> {"new", "createNonUe", "postNonUe", "createUe",
                           "postUe", "ask", "await", "located", "failed"}
                             \cup Releasing]
    BY <1>7 DEF Ask, Goto
  <2>4. /\ response' \in [Requests -> BOOLEAN]
        /\ asked' \subseteq Requests \X Stages
    BY <1>7 DEF Ask
  <2>5. UNCHANGED <<lmf_cfg, supi, stage, supi2ctx, subscriptions, owner, gnb,
                    notifications, handling, amf, lost>>
    BY <1>7 DEF Ask, amfVars
  <2> QED BY <2>2, <2>3, <2>4, <2>5
<1>8. ASSUME NEW r \in Requests, NextStage(r) PROVE TypeOK'
  BY <1>8 DEF NextStage, Goto, Answered, lmfVars, trpVars, netVars, amfVars
<1>9. ASSUME NEW r \in Requests, Locate(r) PROVE TypeOK'
  BY <1>9 DEF Locate, Goto, Answered, trpVars, netVars, amfVars
<1>10. ASSUME NEW r \in Requests, Refused(r) PROVE TypeOK'
  BY <1>10 DEF Refused, Goto, Fail, TrpsKnown, lmfVars, trpVars, netVars,
       amfVars
<1>11. ASSUME NEW r \in Requests, TrpInfoFails(r) PROVE TypeOK'
  BY <1>11 DEF TrpInfoFails, Goto, Fail, lmfVars, trpVars, netVars, amfVars
<1>12. ASSUME NEW r \in Requests, Timeout(r) PROVE TypeOK'
  BY <1>12 DEF Timeout, Goto, Fail, Answered, lmfVars, trpVars, netVars,
       amfVars
<1>13. ASSUME NEW r \in Requests, ReleaseAll(r) PROVE TypeOK'
  BY <1>13 DEF ReleaseAll, Goto, trpVars, netVars, amfVars
<1>14. ASSUME NEW r \in Requests, ClearOne(r) PROVE TypeOK'
  BY <1>14 DEF ClearOne, Unsubscribe, Lose, trpVars, netVars
<1>15. ASSUME NEW r \in Requests, Cleared(r) PROVE TypeOK'
  BY <1>15 DEF Cleared, Goto, trpVars, netVars, amfVars
<1>16. ASSUME NEW r \in Requests, ReleaseNonUe(r) PROVE TypeOK'
  BY <1>16 DEF ReleaseNonUe, Goto, trpVars, netVars, amfVars
<1>17. ASSUME NEW r \in Requests, ResetNonUe(r) PROVE TypeOK'
  BY <1>17 DEF ResetNonUe, Goto, Unsubscribe, Lose, trpVars, netVars
<1>18. ASSUME Answer PROVE TypeOK'
  BY <1>18 DEF Answer, KeyOf, lmfVars, trpVars, amfVars
<1>19. ASSUME Notify PROVE TypeOK'
  BY <1>19 DEF Notify, lmfVars, trpVars, amfVars
<1>20. ASSUME HandleAnswer PROVE TypeOK'
  <2>1. gnb' = TRUE \/ UNCHANGED gnb
    BY <1>20 DEF HandleAnswer, trpVars
  <2>2. gnb' \in BOOLEAN
    <3>1. gnb \in BOOLEAN
      OBVIOUS
    <3> QED BY <2>1, <3>1, Zenon
  <2>3. response' \in [Requests -> BOOLEAN]
    <3>1. PICK m \in handling :
            \/ UNCHANGED response
            \/ response' = [response EXCEPT ![m[1]] = TRUE]
      BY <1>20 DEF HandleAnswer
    <3>2. CASE UNCHANGED response
      BY <3>2
    <3>3. CASE response' = [response EXCEPT ![m[1]] = TRUE]
      BY <3>3
    <3> QED BY <3>1, <3>2, <3>3
  <2>4. trp_info_err' = TRUE \/ UNCHANGED trp_info_err
    BY <1>20 DEF HandleAnswer, trpVars
  <2>5. trp_info_err' \in BOOLEAN
    <3>1. trp_info_err \in BOOLEAN
      OBVIOUS
    <3> QED BY <2>4, <3>1, Zenon
  <2> QED BY <1>20, <2>2, <2>3, <2>5 DEF HandleAnswer, amfVars
<1>21. ASSUME HandleUnknown PROVE TypeOK'
  BY <1>21 DEF HandleUnknown, Fits, lmfVars, trpVars, amfVars
<1>22. ASSUME Terminated PROVE TypeOK'
  BY <1>22 DEF Terminated, lmfVars, trpVars, netVars, amfVars, vars
<1> HIDE DEF TypeOK, Keys, Locks, Stages, Releasing, SubscriptionsMatch,
       MutexInv, Taken, ConstantsAssumption
<1> QED BY <1>1, <1>2, <1>3, <1>4, <1>5, <1>6, <1>7, <1>8, <1>9, <1>10,
       <1>11, <1>12, <1>13, <1>14, <1>15, <1>16, <1>17, <1>18, <1>19, <1>20,
       <1>21, <1>22
       DEF Next, RequestStep

(* A step keeps the mutexes: each has one holder. *)
LEMMA MutexStep ==
  ASSUME ConstantsAssumption, TypeOK, MutexInv, Next
  PROVE  MutexInv'
<1> USE DEF MutexInv, Taken, TypeOK, Keys, Locks, Stages, Releasing,
       ConstantsAssumption
<1>1. ASSUME NEW r \in Requests, Receive(r) PROVE MutexInv'
  BY <1>1 DEF Receive, Goto, trpVars, netVars, amfVars
<1>2. ASSUME NEW r \in Requests, AlreadySubscribed(r) PROVE MutexInv'
  BY <1>2 DEF AlreadySubscribed, Goto, Creating, Lock, lmfVars, trpVars,
       netVars, amfVars
<1>3. ASSUME NEW r \in Requests, Subscribe(r) PROVE MutexInv'
  BY <1>3 DEF Subscribe, Goto, Creating, Lock, trpVars, netVars, amfVars
<1>4. ASSUME NEW r \in Requests, Subscribed(r) PROVE MutexInv'
  BY <1>4 DEF Subscribed, Goto, Creating, Lock, trpVars, netVars
<1>5. ASSUME NEW r \in Requests, SubscribeFails(r) PROVE MutexInv'
  BY <1>5 DEF SubscribeFails, Goto, Fail, Creating, Lock, Lose, trpVars,
       netVars, amfVars
<1>6. ASSUME NEW r \in Requests, AlreadyDone(r) PROVE MutexInv'
  BY <1>6 DEF AlreadyDone, Goto, TrpsKnown, lmfVars, trpVars, netVars,
       amfVars
<1>7. ASSUME NEW r \in Requests, Ask(r) PROVE MutexInv'
  BY <1>7 DEF Ask, Goto, TrpsKnown, amfVars
<1>8. ASSUME NEW r \in Requests, NextStage(r) PROVE MutexInv'
  BY <1>8 DEF NextStage, Goto, Answered, lmfVars, trpVars, netVars, amfVars
<1>9. ASSUME NEW r \in Requests, Locate(r) PROVE MutexInv'
  BY <1>9 DEF Locate, Goto, Answered, trpVars, netVars, amfVars
<1>10. ASSUME NEW r \in Requests, Refused(r) PROVE MutexInv'
  BY <1>10 DEF Refused, Goto, Fail, TrpsKnown, lmfVars, trpVars, netVars,
       amfVars
<1>11. ASSUME NEW r \in Requests, TrpInfoFails(r) PROVE MutexInv'
  BY <1>11 DEF TrpInfoFails, Goto, Fail, lmfVars, trpVars, netVars, amfVars
<1>12. ASSUME NEW r \in Requests, Timeout(r) PROVE MutexInv'
  BY <1>12 DEF Timeout, Goto, Fail, Answered, lmfVars, trpVars, netVars,
       amfVars
<1>13. ASSUME NEW r \in Requests, ReleaseAll(r) PROVE MutexInv'
  BY <1>13 DEF ReleaseAll, Goto, trpVars, netVars, amfVars
<1>14. ASSUME NEW r \in Requests, ClearOne(r) PROVE MutexInv'
  BY <1>14 DEF ClearOne, Unsubscribe, Lose, trpVars, netVars
<1>15. ASSUME NEW r \in Requests, Cleared(r) PROVE MutexInv'
  BY <1>15 DEF Cleared, Goto, trpVars, netVars, amfVars
<1>16. ASSUME NEW r \in Requests, ReleaseNonUe(r) PROVE MutexInv'
  BY <1>16 DEF ReleaseNonUe, Goto, trpVars, netVars, amfVars
<1>17. ASSUME NEW r \in Requests, ResetNonUe(r) PROVE MutexInv'
  BY <1>17 DEF ResetNonUe, Goto, Unsubscribe, Lose, trpVars, netVars
<1>18. ASSUME Answer PROVE MutexInv'
  BY <1>18 DEF Answer, KeyOf, lmfVars, trpVars, amfVars
<1>19. ASSUME Notify PROVE MutexInv'
  BY <1>19 DEF Notify, lmfVars, trpVars, amfVars
<1>20. ASSUME HandleAnswer PROVE MutexInv'
  BY <1>20 DEF HandleAnswer, Fits, trpVars, amfVars
<1>21. ASSUME HandleUnknown PROVE MutexInv'
  BY <1>21 DEF HandleUnknown, Fits, lmfVars, trpVars, amfVars
<1>22. ASSUME Terminated PROVE MutexInv'
  BY <1>22 DEF Terminated, lmfVars, trpVars, netVars, amfVars, vars
<1> HIDE DEF MutexInv, Taken, TypeOK, Keys, Locks, Stages, Releasing,
       ConstantsAssumption
<1> QED BY <1>1, <1>2, <1>3, <1>4, <1>5, <1>6, <1>7, <1>8, <1>9, <1>10,
       <1>11, <1>12, <1>13, <1>14, <1>15, <1>16, <1>17, <1>18, <1>19, <1>20,
       <1>21, <1>22
       DEF Next, RequestStep

(* A step keeps to the mode of the server. *)
LEMMA ModeStep ==
  ASSUME TypeOK, ModeInv, Next
  PROVE  ModeInv'
<1> USE DEF ModeInv, TypeOK, Keys, Locks, Stages, Releasing
<1>1. ASSUME NEW r \in Requests, Receive(r) PROVE ModeInv'
  BY <1>1 DEF Receive, Goto, trpVars, netVars, amfVars
<1>2. ASSUME NEW r \in Requests, AlreadySubscribed(r) PROVE ModeInv'
  BY <1>2 DEF AlreadySubscribed, Goto, Creating, Lock, lmfVars, trpVars,
       netVars, amfVars
<1>3. ASSUME NEW r \in Requests, Subscribe(r) PROVE ModeInv'
  BY <1>3 DEF Subscribe, Goto, Creating, Lock, trpVars, netVars, amfVars
<1>4. ASSUME NEW r \in Requests, Subscribed(r) PROVE ModeInv'
  BY <1>4 DEF Subscribed, Goto, Creating, Lock, trpVars, netVars
<1>5. ASSUME NEW r \in Requests, SubscribeFails(r) PROVE ModeInv'
  BY <1>5 DEF SubscribeFails, Goto, Fail, Creating, Lock, Lose, trpVars,
       netVars, amfVars
<1>6. ASSUME NEW r \in Requests, AlreadyDone(r) PROVE ModeInv'
  BY <1>6 DEF AlreadyDone, Goto, TrpsKnown, lmfVars, trpVars, netVars,
       amfVars
<1>7. ASSUME NEW r \in Requests, Ask(r) PROVE ModeInv'
  BY <1>7 DEF Ask, Goto, TrpsKnown, amfVars
<1>8. ASSUME NEW r \in Requests, NextStage(r) PROVE ModeInv'
  BY <1>8 DEF NextStage, Goto, Answered, lmfVars, trpVars, netVars, amfVars
<1>9. ASSUME NEW r \in Requests, Locate(r) PROVE ModeInv'
  BY <1>9 DEF Locate, Goto, Answered, trpVars, netVars, amfVars
<1>10. ASSUME NEW r \in Requests, Refused(r) PROVE ModeInv'
  BY <1>10 DEF Refused, Goto, Fail, TrpsKnown, lmfVars, trpVars, netVars,
       amfVars
<1>11. ASSUME NEW r \in Requests, TrpInfoFails(r) PROVE ModeInv'
  BY <1>11 DEF TrpInfoFails, Goto, Fail, lmfVars, trpVars, netVars, amfVars
<1>12. ASSUME NEW r \in Requests, Timeout(r) PROVE ModeInv'
  BY <1>12 DEF Timeout, Goto, Fail, Answered, lmfVars, trpVars, netVars,
       amfVars
<1>13. ASSUME NEW r \in Requests, ReleaseAll(r) PROVE ModeInv'
  BY <1>13 DEF ReleaseAll, Goto, trpVars, netVars, amfVars
<1>14. ASSUME NEW r \in Requests, ClearOne(r) PROVE ModeInv'
  BY <1>14 DEF ClearOne, Unsubscribe, Lose, trpVars, netVars
<1>15. ASSUME NEW r \in Requests, Cleared(r) PROVE ModeInv'
  BY <1>15 DEF Cleared, Goto, trpVars, netVars, amfVars
<1>16. ASSUME NEW r \in Requests, ReleaseNonUe(r) PROVE ModeInv'
  BY <1>16 DEF ReleaseNonUe, Goto, trpVars, netVars, amfVars
<1>17. ASSUME NEW r \in Requests, ResetNonUe(r) PROVE ModeInv'
  BY <1>17 DEF ResetNonUe, Goto, Unsubscribe, Lose, trpVars, netVars
<1>18. ASSUME Answer PROVE ModeInv'
  BY <1>18 DEF Answer, KeyOf, lmfVars, trpVars, amfVars
<1>19. ASSUME Notify PROVE ModeInv'
  BY <1>19 DEF Notify, lmfVars, trpVars, amfVars
<1>20. ASSUME HandleAnswer PROVE ModeInv'
  BY <1>20 DEF HandleAnswer, Fits, trpVars, amfVars
<1>21. ASSUME HandleUnknown PROVE ModeInv'
  BY <1>21 DEF HandleUnknown, Fits, lmfVars, trpVars, amfVars
<1>22. ASSUME Terminated PROVE ModeInv'
  BY <1>22 DEF Terminated, lmfVars, trpVars, netVars, amfVars, vars
<1> HIDE DEF ModeInv, TypeOK, Keys, Locks, Stages, Releasing
<1> QED BY <1>1, <1>2, <1>3, <1>4, <1>5, <1>6, <1>7, <1>8, <1>9, <1>10,
       <1>11, <1>12, <1>13, <1>14, <1>15, <1>16, <1>17, <1>18, <1>19, <1>20,
       <1>21, <1>22
       DEF Next, RequestStep

(* A step keeps the two sides' subscriptions in agreement: one is created *)
(* or deleted only with its mutex held. *)
LEMMA MatchStep ==
  ASSUME ConstantsAssumption, TypeOK, MutexInv, SubscriptionsMatch, Next
  PROVE  SubscriptionsMatch'
<1> USE DEF SubscriptionsMatch, MutexInv, Taken, TypeOK, Keys, Locks, Stages,
       Releasing, ConstantsAssumption
<1>1. ASSUME NEW r \in Requests, Receive(r) PROVE SubscriptionsMatch'
  BY <1>1 DEF Receive, Goto, trpVars, netVars, amfVars
<1>2. ASSUME NEW r \in Requests, AlreadySubscribed(r) PROVE SubscriptionsMatch'
  BY <1>2 DEF AlreadySubscribed, Goto, Creating, Lock, lmfVars, trpVars,
       netVars, amfVars
<1>3. ASSUME NEW r \in Requests, Subscribe(r) PROVE SubscriptionsMatch'
  BY <1>3 DEF Subscribe, Goto, Creating, Lock, trpVars, netVars, amfVars
<1>4. ASSUME NEW r \in Requests, Subscribed(r) PROVE SubscriptionsMatch'
  BY <1>4 DEF Subscribed, Goto, Creating, Lock, trpVars, netVars
<1>5. ASSUME NEW r \in Requests, SubscribeFails(r) PROVE SubscriptionsMatch'
  BY <1>5 DEF SubscribeFails, Goto, Fail, Creating, Lock, Lose, trpVars,
       netVars, amfVars
<1>6. ASSUME NEW r \in Requests, AlreadyDone(r) PROVE SubscriptionsMatch'
  BY <1>6 DEF AlreadyDone, Goto, TrpsKnown, lmfVars, trpVars, netVars,
       amfVars
<1>7. ASSUME NEW r \in Requests, Ask(r) PROVE SubscriptionsMatch'
  BY <1>7 DEF Ask, Goto, TrpsKnown, amfVars
<1>8. ASSUME NEW r \in Requests, NextStage(r) PROVE SubscriptionsMatch'
  BY <1>8 DEF NextStage, Goto, Answered, lmfVars, trpVars, netVars, amfVars
<1>9. ASSUME NEW r \in Requests, Locate(r) PROVE SubscriptionsMatch'
  BY <1>9 DEF Locate, Goto, Answered, trpVars, netVars, amfVars
<1>10. ASSUME NEW r \in Requests, Refused(r) PROVE SubscriptionsMatch'
  BY <1>10 DEF Refused, Goto, Fail, TrpsKnown, lmfVars, trpVars, netVars,
       amfVars
<1>11. ASSUME NEW r \in Requests, TrpInfoFails(r) PROVE SubscriptionsMatch'
  BY <1>11 DEF TrpInfoFails, Goto, Fail, lmfVars, trpVars, netVars, amfVars
<1>12. ASSUME NEW r \in Requests, Timeout(r) PROVE SubscriptionsMatch'
  BY <1>12 DEF Timeout, Goto, Fail, Answered, lmfVars, trpVars, netVars,
       amfVars
<1>13. ASSUME NEW r \in Requests, ReleaseAll(r) PROVE SubscriptionsMatch'
  BY <1>13 DEF ReleaseAll, Goto, trpVars, netVars, amfVars
<1>14. ASSUME NEW r \in Requests, ClearOne(r) PROVE SubscriptionsMatch'
  BY <1>14 DEF ClearOne, Unsubscribe, Lose, trpVars, netVars
<1>15. ASSUME NEW r \in Requests, Cleared(r) PROVE SubscriptionsMatch'
  BY <1>15 DEF Cleared, Goto, trpVars, netVars, amfVars
<1>16. ASSUME NEW r \in Requests, ReleaseNonUe(r) PROVE SubscriptionsMatch'
  BY <1>16 DEF ReleaseNonUe, Goto, trpVars, netVars, amfVars
<1>17. ASSUME NEW r \in Requests, ResetNonUe(r) PROVE SubscriptionsMatch'
  BY <1>17 DEF ResetNonUe, Goto, Unsubscribe, Lose, trpVars, netVars
<1>18. ASSUME Answer PROVE SubscriptionsMatch'
  BY <1>18 DEF Answer, KeyOf, lmfVars, trpVars, amfVars
<1>19. ASSUME Notify PROVE SubscriptionsMatch'
  BY <1>19 DEF Notify, lmfVars, trpVars, amfVars
<1>20. ASSUME HandleAnswer PROVE SubscriptionsMatch'
  BY <1>20 DEF HandleAnswer, Fits, trpVars, amfVars
<1>21. ASSUME HandleUnknown PROVE SubscriptionsMatch'
  BY <1>21 DEF HandleUnknown, Fits, lmfVars, trpVars, amfVars
<1>22. ASSUME Terminated PROVE SubscriptionsMatch'
  BY <1>22 DEF Terminated, lmfVars, trpVars, netVars, amfVars, vars
<1> HIDE DEF SubscriptionsMatch, MutexInv, Taken, TypeOK, Keys, Locks,
       Stages, Releasing, ConstantsAssumption
<1> QED BY <1>1, <1>2, <1>3, <1>4, <1>5, <1>6, <1>7, <1>8, <1>9, <1>10,
       <1>11, <1>12, <1>13, <1>14, <1>15, <1>16, <1>17, <1>18, <1>19, <1>20,
       <1>21, <1>22
       DEF Next, RequestStep

(* A request finds its subscriptions where it made them, unless disturbed. *)
LEMMA SubscribedStep ==
  ASSUME ConstantsAssumption, TypeOK, MutexInv, ModeInv, SubscribedInv, Next
  PROVE  SubscribedInv'
<1> USE DEF SubscribedInv, MutexInv, ModeInv, Taken, Disturbed, Rival,
       FailedOne, TypeOK, Keys, Locks, Stages, Releasing, ConstantsAssumption
<1>1. ASSUME NEW r \in Requests, Receive(r) PROVE SubscribedInv'
  BY <1>1 DEF Receive, Goto, trpVars, netVars, amfVars
<1>2. ASSUME NEW r \in Requests, AlreadySubscribed(r) PROVE SubscribedInv'
  BY <1>2 DEF AlreadySubscribed, Goto, Creating, Lock, lmfVars, trpVars,
       netVars, amfVars
<1>3. ASSUME NEW r \in Requests, Subscribe(r) PROVE SubscribedInv'
  BY <1>3 DEF Subscribe, Goto, Creating, Lock, trpVars, netVars, amfVars
<1>4. ASSUME NEW r \in Requests, Subscribed(r) PROVE SubscribedInv'
  BY <1>4 DEF Subscribed, Goto, Creating, Lock, trpVars, netVars
<1>5. ASSUME NEW r \in Requests, SubscribeFails(r) PROVE SubscribedInv'
  BY <1>5 DEF SubscribeFails, Goto, Fail, Creating, Lock, Lose, trpVars,
       netVars, amfVars
<1>6. ASSUME NEW r \in Requests, AlreadyDone(r) PROVE SubscribedInv'
  BY <1>6 DEF AlreadyDone, Goto, TrpsKnown, lmfVars, trpVars, netVars,
       amfVars
<1>7. ASSUME NEW r \in Requests, Ask(r) PROVE SubscribedInv'
  BY <1>7 DEF Ask, Goto, TrpsKnown, amfVars
<1>8. ASSUME NEW r \in Requests, NextStage(r) PROVE SubscribedInv'
  BY <1>8 DEF NextStage, Goto, Answered, lmfVars, trpVars, netVars, amfVars
<1>9. ASSUME NEW r \in Requests, Locate(r) PROVE SubscribedInv'
  BY <1>9 DEF Locate, Goto, Answered, trpVars, netVars, amfVars
<1>10. ASSUME NEW r \in Requests, Refused(r) PROVE SubscribedInv'
  BY <1>10 DEF Refused, Goto, Fail, TrpsKnown, lmfVars, trpVars, netVars,
       amfVars
<1>11. ASSUME NEW r \in Requests, TrpInfoFails(r) PROVE SubscribedInv'
  BY <1>11 DEF TrpInfoFails, Goto, Fail, lmfVars, trpVars, netVars, amfVars
<1>12. ASSUME NEW r \in Requests, Timeout(r) PROVE SubscribedInv'
  BY <1>12 DEF Timeout, Goto, Fail, Answered, lmfVars, trpVars, netVars,
       amfVars
<1>13. ASSUME NEW r \in Requests, ReleaseAll(r) PROVE SubscribedInv'
  BY <1>13 DEF ReleaseAll, Goto, trpVars, netVars, amfVars
<1>14. ASSUME NEW r \in Requests, ClearOne(r) PROVE SubscribedInv'
  BY <1>14 DEF ClearOne, Unsubscribe, Lose, trpVars, netVars
<1>15. ASSUME NEW r \in Requests, Cleared(r) PROVE SubscribedInv'
  BY <1>15 DEF Cleared, Goto, trpVars, netVars, amfVars
<1>16. ASSUME NEW r \in Requests, ReleaseNonUe(r) PROVE SubscribedInv'
  BY <1>16 DEF ReleaseNonUe, Goto, trpVars, netVars, amfVars
<1>17. ASSUME NEW r \in Requests, ResetNonUe(r) PROVE SubscribedInv'
  BY <1>17 DEF ResetNonUe, Goto, Unsubscribe, Lose, trpVars, netVars
<1>18. ASSUME Answer PROVE SubscribedInv'
  BY <1>18 DEF Answer, KeyOf, lmfVars, trpVars, amfVars
<1>19. ASSUME Notify PROVE SubscribedInv'
  BY <1>19 DEF Notify, lmfVars, trpVars, amfVars
<1>20. ASSUME HandleAnswer PROVE SubscribedInv'
  BY <1>20 DEF HandleAnswer, Fits, trpVars, amfVars
<1>21. ASSUME HandleUnknown PROVE SubscribedInv'
  BY <1>21 DEF HandleUnknown, Fits, lmfVars, trpVars, amfVars
<1>22. ASSUME Terminated PROVE SubscribedInv'
  BY <1>22 DEF Terminated, lmfVars, trpVars, netVars, amfVars, vars
<1> HIDE DEF SubscribedInv, MutexInv, ModeInv, Taken, Disturbed, Rival,
       FailedOne, TypeOK, Keys, Locks, Stages, Releasing, ConstantsAssumption
<1> QED BY <1>1, <1>2, <1>3, <1>4, <1>5, <1>6, <1>7, <1>8, <1>9, <1>10,
       <1>11, <1>12, <1>13, <1>14, <1>15, <1>16, <1>17, <1>18, <1>19, <1>20,
       <1>21, <1>22
       DEF Next, RequestStep

(* Only a request for the same SUPI takes a request's context. *)
LEMMA ContextStep ==
  ASSUME ConstantsAssumption, TypeOK, MutexInv, ContextInv, Next
  PROVE  ContextInv'
<1> USE DEF ContextInv, MutexInv, Taken, Rival, TypeOK, Keys, Locks, Stages,
       Releasing, ConstantsAssumption
<1>1. ASSUME NEW r \in Requests, Receive(r) PROVE ContextInv'
  BY <1>1 DEF Receive, Goto, trpVars, netVars, amfVars
<1>2. ASSUME NEW r \in Requests, AlreadySubscribed(r) PROVE ContextInv'
  BY <1>2 DEF AlreadySubscribed, Goto, Creating, Lock, lmfVars, trpVars,
       netVars, amfVars
<1>3. ASSUME NEW r \in Requests, Subscribe(r) PROVE ContextInv'
  BY <1>3 DEF Subscribe, Goto, Creating, Lock, trpVars, netVars, amfVars
<1>4. ASSUME NEW r \in Requests, Subscribed(r) PROVE ContextInv'
  BY <1>4 DEF Subscribed, Goto, Creating, Lock, trpVars, netVars
<1>5. ASSUME NEW r \in Requests, SubscribeFails(r) PROVE ContextInv'
  BY <1>5 DEF SubscribeFails, Goto, Fail, Creating, Lock, Lose, trpVars,
       netVars, amfVars
<1>6. ASSUME NEW r \in Requests, AlreadyDone(r) PROVE ContextInv'
  BY <1>6 DEF AlreadyDone, Goto, TrpsKnown, lmfVars, trpVars, netVars,
       amfVars
<1>7. ASSUME NEW r \in Requests, Ask(r) PROVE ContextInv'
  BY <1>7 DEF Ask, Goto, TrpsKnown, amfVars
<1>8. ASSUME NEW r \in Requests, NextStage(r) PROVE ContextInv'
  BY <1>8 DEF NextStage, Goto, Answered, lmfVars, trpVars, netVars, amfVars
<1>9. ASSUME NEW r \in Requests, Locate(r) PROVE ContextInv'
  BY <1>9 DEF Locate, Goto, Answered, trpVars, netVars, amfVars
<1>10. ASSUME NEW r \in Requests, Refused(r) PROVE ContextInv'
  BY <1>10 DEF Refused, Goto, Fail, TrpsKnown, lmfVars, trpVars, netVars,
       amfVars
<1>11. ASSUME NEW r \in Requests, TrpInfoFails(r) PROVE ContextInv'
  BY <1>11 DEF TrpInfoFails, Goto, Fail, lmfVars, trpVars, netVars, amfVars
<1>12. ASSUME NEW r \in Requests, Timeout(r) PROVE ContextInv'
  BY <1>12 DEF Timeout, Goto, Fail, Answered, lmfVars, trpVars, netVars,
       amfVars
<1>13. ASSUME NEW r \in Requests, ReleaseAll(r) PROVE ContextInv'
  BY <1>13 DEF ReleaseAll, Goto, trpVars, netVars, amfVars
<1>14. ASSUME NEW r \in Requests, ClearOne(r) PROVE ContextInv'
  BY <1>14 DEF ClearOne, Unsubscribe, Lose, trpVars, netVars
<1>15. ASSUME NEW r \in Requests, Cleared(r) PROVE ContextInv'
  BY <1>15 DEF Cleared, Goto, trpVars, netVars, amfVars
<1>16. ASSUME NEW r \in Requests, ReleaseNonUe(r) PROVE ContextInv'
  BY <1>16 DEF ReleaseNonUe, Goto, trpVars, netVars, amfVars
<1>17. ASSUME NEW r \in Requests, ResetNonUe(r) PROVE ContextInv'
  BY <1>17 DEF ResetNonUe, Goto, Unsubscribe, Lose, trpVars, netVars
<1>18. ASSUME Answer PROVE ContextInv'
  BY <1>18 DEF Answer, KeyOf, lmfVars, trpVars, amfVars
<1>19. ASSUME Notify PROVE ContextInv'
  BY <1>19 DEF Notify, lmfVars, trpVars, amfVars
<1>20. ASSUME HandleAnswer PROVE ContextInv'
  BY <1>20 DEF HandleAnswer, Fits, trpVars, amfVars
<1>21. ASSUME HandleUnknown PROVE ContextInv'
  BY <1>21 DEF HandleUnknown, Fits, lmfVars, trpVars, amfVars
<1>22. ASSUME Terminated PROVE ContextInv'
  BY <1>22 DEF Terminated, lmfVars, trpVars, netVars, amfVars, vars
<1> HIDE DEF ContextInv, MutexInv, Taken, Rival, TypeOK, Keys, Locks, Stages,
       Releasing, ConstantsAssumption
<1> QED BY <1>1, <1>2, <1>3, <1>4, <1>5, <1>6, <1>7, <1>8, <1>9, <1>10,
       <1>11, <1>12, <1>13, <1>14, <1>15, <1>16, <1>17, <1>18, <1>19, <1>20,
       <1>21, <1>22
       DEF Next, RequestStep

(* A question is not lost on its way unless its request is disturbed. *)
LEMMA AnswerStep ==
  ASSUME IInv, ConstantsAssumption, Next
  PROVE  AnswerInv'
<1> USE DEF AnswerInv, Answered, TrpsKnown, SubscribedInv, ContextInv,
       MutexInv, ModeInv, SubscriptionsMatch, IInv, Taken, Disturbed, Rival,
       FailedOne, TypeOK, Keys, Locks, Stages, Releasing, ConstantsAssumption
<1>1. ASSUME NEW r \in Requests, Receive(r) PROVE AnswerInv'
  BY <1>1 DEF Receive, Goto, trpVars, netVars, amfVars
<1>2. ASSUME NEW r \in Requests, AlreadySubscribed(r) PROVE AnswerInv'
  BY <1>2 DEF AlreadySubscribed, Goto, Creating, Lock, lmfVars, trpVars,
       netVars, amfVars
<1>3. ASSUME NEW r \in Requests, Subscribe(r) PROVE AnswerInv'
  BY <1>3 DEF Subscribe, Goto, Creating, Lock, trpVars, netVars, amfVars
<1>4. ASSUME NEW r \in Requests, Subscribed(r) PROVE AnswerInv'
  BY <1>4 DEF Subscribed, Goto, Creating, Lock, trpVars, netVars
<1>5. ASSUME NEW r \in Requests, SubscribeFails(r) PROVE AnswerInv'
  BY <1>5 DEF SubscribeFails, Goto, Fail, Creating, Lock, Lose, trpVars,
       netVars, amfVars
<1>6. ASSUME NEW r \in Requests, AlreadyDone(r) PROVE AnswerInv'
  BY <1>6 DEF AlreadyDone, Goto, lmfVars, trpVars, netVars, amfVars
<1>7. ASSUME NEW r \in Requests, Ask(r) PROVE AnswerInv'
  BY <1>7 DEF Ask, Goto, amfVars
<1>8. ASSUME NEW r \in Requests, NextStage(r) PROVE AnswerInv'
  BY <1>8 DEF NextStage, Goto, lmfVars, trpVars, netVars, amfVars
<1>9. ASSUME NEW r \in Requests, Locate(r) PROVE AnswerInv'
  BY <1>9 DEF Locate, Goto, trpVars, netVars, amfVars
<1>10. ASSUME NEW r \in Requests, Refused(r) PROVE AnswerInv'
  BY <1>10 DEF Refused, Goto, Fail, lmfVars, trpVars, netVars, amfVars
<1>11. ASSUME NEW r \in Requests, TrpInfoFails(r) PROVE AnswerInv'
  BY <1>11 DEF TrpInfoFails, Goto, Fail, lmfVars, trpVars, netVars, amfVars
<1>12. ASSUME NEW r \in Requests, Timeout(r) PROVE AnswerInv'
  BY <1>12 DEF Timeout, Goto, Fail, lmfVars, trpVars, netVars, amfVars
<1>13. ASSUME NEW r \in Requests, ReleaseAll(r) PROVE AnswerInv'
  BY <1>13 DEF ReleaseAll, Goto, trpVars, netVars, amfVars
<1>14. ASSUME NEW r \in Requests, ClearOne(r) PROVE AnswerInv'
  BY <1>14 DEF ClearOne, Unsubscribe, Lose, trpVars, netVars
<1>15. ASSUME NEW r \in Requests, Cleared(r) PROVE AnswerInv'
  BY <1>15 DEF Cleared, Goto, trpVars, netVars, amfVars
<1>16. ASSUME NEW r \in Requests, ReleaseNonUe(r) PROVE AnswerInv'
  BY <1>16 DEF ReleaseNonUe, Goto, trpVars, netVars, amfVars
<1>17. ASSUME NEW r \in Requests, ResetNonUe(r) PROVE AnswerInv'
  BY <1>17 DEF ResetNonUe, Goto, Unsubscribe, Lose, trpVars, netVars
<1>18. ASSUME Answer PROVE AnswerInv'
  BY <1>18 DEF Answer, KeyOf, lmfVars, trpVars, amfVars
<1>19. ASSUME Notify PROVE AnswerInv'
  BY <1>19 DEF Notify, lmfVars, trpVars, amfVars
<1>20. ASSUME HandleAnswer PROVE AnswerInv'
  BY <1>20 DEF HandleAnswer, Fits, trpVars, amfVars
<1>21. ASSUME HandleUnknown PROVE AnswerInv'
  BY <1>21 DEF HandleUnknown, Fits, lmfVars, trpVars, amfVars
<1>22. ASSUME Terminated PROVE AnswerInv'
  BY <1>22 DEF Terminated, lmfVars, trpVars, netVars, amfVars, vars
<1> HIDE DEF AnswerInv, Answered, TrpsKnown, SubscribedInv, ContextInv,
       MutexInv, ModeInv, SubscriptionsMatch, IInv, Taken, Disturbed, Rival,
       FailedOne, TypeOK, Keys, Locks, Stages, Releasing, ConstantsAssumption
<1> QED BY <1>1, <1>2, <1>3, <1>4, <1>5, <1>6, <1>7, <1>8, <1>9, <1>10,
       <1>11, <1>12, <1>13, <1>14, <1>15, <1>16, <1>17, <1>18, <1>19, <1>20,
       <1>21, <1>22
       DEF Next, RequestStep

(* TRP information fails only for a request that the network fails. *)
LEMMA ErrorStep ==
  ASSUME ConstantsAssumption, TypeOK, MutexInv, ErrorInv, Next
  PROVE  ErrorInv'
<1> USE DEF ErrorInv, Taken, TypeOK, Keys, Locks, Stages, Releasing,
       ConstantsAssumption
<1>1. ASSUME NEW r \in Requests, Receive(r) PROVE ErrorInv'
  BY <1>1 DEF Receive, Goto, trpVars, netVars, amfVars
<1>2. ASSUME NEW r \in Requests, AlreadySubscribed(r) PROVE ErrorInv'
  BY <1>2 DEF AlreadySubscribed, Goto, Creating, Lock, lmfVars, trpVars,
       netVars, amfVars
<1>3. ASSUME NEW r \in Requests, Subscribe(r) PROVE ErrorInv'
  BY <1>3 DEF Subscribe, Goto, Creating, Lock, trpVars, netVars, amfVars
<1>4. ASSUME NEW r \in Requests, Subscribed(r) PROVE ErrorInv'
  BY <1>4 DEF Subscribed, Goto, Creating, Lock, trpVars, netVars
<1>5. ASSUME NEW r \in Requests, SubscribeFails(r) PROVE ErrorInv'
  BY <1>5 DEF SubscribeFails, Goto, Fail, Creating, Lock, Lose, trpVars,
       netVars, amfVars
<1>6. ASSUME NEW r \in Requests, AlreadyDone(r) PROVE ErrorInv'
  BY <1>6 DEF AlreadyDone, Goto, TrpsKnown, lmfVars, trpVars, netVars,
       amfVars
<1>7. ASSUME NEW r \in Requests, Ask(r) PROVE ErrorInv'
  BY <1>7 DEF Ask, Goto, TrpsKnown, amfVars
<1>8. ASSUME NEW r \in Requests, NextStage(r) PROVE ErrorInv'
  BY <1>8 DEF NextStage, Goto, Answered, lmfVars, trpVars, netVars, amfVars
<1>9. ASSUME NEW r \in Requests, Locate(r) PROVE ErrorInv'
  BY <1>9 DEF Locate, Goto, Answered, trpVars, netVars, amfVars
<1>10. ASSUME NEW r \in Requests, Refused(r) PROVE ErrorInv'
  BY <1>10 DEF Refused, Goto, Fail, TrpsKnown, lmfVars, trpVars, netVars,
       amfVars
<1>11. ASSUME NEW r \in Requests, TrpInfoFails(r) PROVE ErrorInv'
  BY <1>11 DEF TrpInfoFails, Goto, Fail, lmfVars, trpVars, netVars, amfVars
<1>12. ASSUME NEW r \in Requests, Timeout(r) PROVE ErrorInv'
  BY <1>12 DEF Timeout, Goto, Fail, Answered, lmfVars, trpVars, netVars,
       amfVars
<1>13. ASSUME NEW r \in Requests, ReleaseAll(r) PROVE ErrorInv'
  BY <1>13 DEF ReleaseAll, Goto, trpVars, netVars, amfVars
<1>14. ASSUME NEW r \in Requests, ClearOne(r) PROVE ErrorInv'
  BY <1>14 DEF ClearOne, Unsubscribe, Lose, trpVars, netVars
<1>15. ASSUME NEW r \in Requests, Cleared(r) PROVE ErrorInv'
  BY <1>15 DEF Cleared, Goto, trpVars, netVars, amfVars
<1>16. ASSUME NEW r \in Requests, ReleaseNonUe(r) PROVE ErrorInv'
  BY <1>16 DEF ReleaseNonUe, Goto, trpVars, netVars, amfVars
<1>17. ASSUME NEW r \in Requests, ResetNonUe(r) PROVE ErrorInv'
  BY <1>17 DEF ResetNonUe, Goto, Unsubscribe, Lose, trpVars, netVars
<1>18. ASSUME Answer PROVE ErrorInv'
  BY <1>18 DEF Answer, KeyOf, lmfVars, trpVars, amfVars
<1>19. ASSUME Notify PROVE ErrorInv'
  BY <1>19 DEF Notify, lmfVars, trpVars, amfVars
<1>20. ASSUME HandleAnswer PROVE ErrorInv'
  BY <1>20 DEF HandleAnswer, Fits, trpVars, amfVars
<1>21. ASSUME HandleUnknown PROVE ErrorInv'
  BY <1>21 DEF HandleUnknown, Fits, lmfVars, trpVars, amfVars
<1>22. ASSUME Terminated PROVE ErrorInv'
  BY <1>22 DEF Terminated, lmfVars, trpVars, netVars, amfVars, vars
<1> HIDE DEF ErrorInv, Taken, TypeOK, Keys, Locks, Stages, Releasing,
       ConstantsAssumption
<1> QED BY <1>1, <1>2, <1>3, <1>4, <1>5, <1>6, <1>7, <1>8, <1>9, <1>10,
       <1>11, <1>12, <1>13, <1>14, <1>15, <1>16, <1>17, <1>18, <1>19, <1>20,
       <1>21, <1>22
       DEF Next, RequestStep

(* The invariant holds at first. *)
LEMMA InitIInv ==
  ASSUME ConstantsAssumption, Init
  PROVE  IInv
<1>1. TypeOK
  BY DEF ConstantsAssumption, Init, TypeOK, Keys, Locks, Stages
<1>2. MutexInv /\ ModeInv
  BY DEF ConstantsAssumption, Init, MutexInv, ModeInv, Taken, Releasing
<1>3. SubscriptionsMatch
  BY DEF Init, SubscriptionsMatch, Keys
<1>4. SubscribedInv /\ ContextInv /\ AnswerInv /\ ErrorInv
  BY DEF Init, SubscribedInv, ContextInv, AnswerInv, ErrorInv
<1> QED BY <1>1, <1>2, <1>3, <1>4 DEF IInv

(* ... and after every step. *)
LEMMA NextIInv ==
  ASSUME ConstantsAssumption, IInv, [Next]_vars
  PROVE  IInv'
<1>1. CASE Next
  BY <1>1, TypeStep, MutexStep, ModeStep, MatchStep, SubscribedStep,
     ContextStep, AnswerStep, ErrorStep DEF IInv
<1>2. CASE UNCHANGED vars
  BY <1>2 DEF vars, lmfVars, trpVars, netVars, amfVars, IInv, TypeOK, MutexInv,
              ModeInv, SubscriptionsMatch, SubscribedInv, ContextInv,
              AnswerInv, ErrorInv, Taken, Disturbed, Rival, FailedOne, Answered
<1> QED BY <1>1, <1>2

(* The inductive invariant. *)
THEOREM Invariance == Spec => []IInv
<1>1. Init => IInv
  BY InitIInv, ConstantsAssumption
<1>2. IInv /\ [Next]_vars => IInv'
  BY NextIInv, ConstantsAssumption
<1> QED BY <1>1, <1>2, PTL DEF Spec

(* The types of the variables, whatever the threads and subscribers. *)
THEOREM Types == Spec => []TypeOK
<1>1. IInv => TypeOK
  BY DEF IInv
<1> QED BY <1>1, Invariance, PTL

(* Each of the two tables is changed by one thread at a time, and what it  *)
(* saw there before it called the AMF still holds when the call returns.   *)
THEOREM OneThreadAtWork == Spec => []OneAtWork
<1>1. IInv => OneAtWork
  <2> SUFFICES ASSUME MutexInv PROVE OneAtWork
    BY DEF IInv
  <2>1. \A r \in ChangingUe : owner["m_supi2n1n2subs"] = r
    BY DEF MutexInv, ChangingUe
  <2>2. \A r \in ChangingNonUe : owner["m_non_ue_subs"] = r
    BY DEF MutexInv, ChangingNonUe
  <2>3. \A r \in Requests :
          /\ pc[r] \in {"postUe", "postNonUe"} => Creating(r) \notin subscriptions
          /\ pc[r] = "resetNonUe" => NonUe \in subscriptions
    BY DEF MutexInv, Creating
  <2> QED
    BY <2>1, <2>2, <2>3 DEF OneAtWork
<1> QED BY <1>1, Invariance, PTL

(* lmf_app.cpp's tables and the AMF agree on the subscriptions. *)
THEOREM SubscriptionsAgree == Spec => []SubscriptionsMatch
<1>1. IInv => SubscriptionsMatch
  BY DEF IInv
<1> QED BY <1>1, Invariance, PTL

-----------------------------------------------------------------------------
(* Refinement: the safety part of LocationRequests. *)

(* What the client of r sees when its thread goes to a label. *)
View(l) == IF l \in {"new", "located"} THEN l
           ELSE IF l \in Releasing \cup {"failed"} THEN "failed"
           ELSE "served"

LEMMA GotoStatus ==
  ASSUME TypeOK, NEW r \in Requests, NEW l, Goto(r, l)
  PROVE  status' = [status EXCEPT ![r] = View(l)]
BY DEF TypeOK, Goto, status, View

(* A step that leaves the client, or its view, alone is no step of the     *)
(* abstract specification.                                                 *)
LEMMA SameView ==
  ASSUME TypeOK, UNCHANGED <<supi, lmf_cfg>>, NEW r \in Requests, NEW l,
         UNCHANGED pc \/ (Goto(r, l) /\ View(pc[r]) = View(l))
  PROVE  UNCHANGED Abstract!vars
<1>1. status' = status
  BY DEF TypeOK, Goto, status, View
<1> QED BY <1>1 DEF Abstract!vars

(* A failed request excuses every other of the HTTP/2 server.              *)
LEMMA FailureExcuses ==
  ASSUME lmf_cfg.use_http2, FailedOne, NEW r \in Requests, pc[r] = "await"
  PROVE  Abstract!Excused(r)
<1>1. PICK q \in Requests : pc[q] \in Releasing \cup {"failed"}
  BY DEF FailedOne
<1>2. q # r
  BY <1>1 DEF Releasing
<1>3. status[q] = "failed"
  BY <1>1 DEF status, Releasing
<1>4. r \in exposed
  BY DEF exposed
<1> QED BY <1>2, <1>3, <1>4 DEF Abstract!Excused

(* A wait for TRP information fails only for a reason. *)
LEMMA TrpInfoFailsExcused ==
  ASSUME ConstantsAssumption, IInv, NEW r \in Requests, TrpInfoFails(r)
  PROVE  Abstract!Excused(r)
<1>1. PICK q \in Unserved : Taken(q)
  BY DEF TrpInfoFails, IInv, ErrorInv
<1>2. CASE q = r
  BY <1>2 DEF Abstract!Excused
<1>3. CASE q # r
  <2>1. status[q] # "new"
    BY <1>1 DEF Taken, status, ConstantsAssumption
  <2>2. r \in exposed
    BY DEF TrpInfoFails, exposed
  <2> QED BY <1>3, <2>1, <2>2 DEF Abstract!Excused, ConstantsAssumption
<1> QED BY <1>2, <1>3

(* A wait runs out only for a reason. *)
LEMMA TimeoutExcused ==
  ASSUME IInv, NEW r \in Requests, Timeout(r)
  PROVE  Abstract!Excused(r)
<1>1. CASE r \in Unserved \/ Rival(r)
  BY <1>1 DEF Rival, Abstract!Excused
<1>2. CASE lmf_cfg.use_http2 /\ FailedOne
  BY <1>2, FailureExcuses DEF Timeout
<1>3. CASE r \notin Unserved /\ ~Disturbed(r)
  <2>1. <<r, stage[r]>> \in notifications
    BY <1>3 DEF Timeout, IInv, AnswerInv, Answered
  <2>2. Cardinality(Busy) >= lmf_cfg.http_threads_count
    BY <2>1 DEF Timeout
  <2>3. CASE \E q \in Requests : pc[q] \in Releasing
    BY <1>3, <2>3 DEF Disturbed, FailedOne, IInv, ModeInv
  <2>4. CASE ~\E q \in Requests : pc[q] \in Releasing
    <3>1. ASSUME NEW q \in Requests
          PROVE  pc[q] # "new" /\ ~Ended(q) <=> status[q] = "served"
      BY <2>4 DEF Ended, status
    <3>2. Busy = {q \in Requests : status[q] = "served"}
      BY <3>1 DEF Busy
    <3>3. Abstract!Cardinality(Busy) = Cardinality(Busy)
      BY DEF Abstract!Cardinality, Cardinality
    <3> QED BY <2>2, <3>2, <3>3 DEF Abstract!Excused
  <2> QED BY <2>3, <2>4
<1> QED BY <1>1, <1>2, <1>3 DEF Disturbed

(* Every step of the service is a step of the abstract specification or    *)
(* none.                                                                   *)
LEMMA NextImplements ==
  ASSUME ConstantsAssumption, IInv, [Next]_vars
  PROVE  [Abstract!Next]_Abstract!vars
<1> USE DEF IInv
<1>1. ASSUME NEW r \in Requests, Receive(r) PROVE Abstract!Accept(r)
  <2>1. status[r] = "new" /\ status' = [status EXCEPT ![r] = "served"]
    BY <1>1, GotoStatus DEF Receive, View, Releasing, status
  <2>2. \E s \in Supis : supi' = [supi EXCEPT ![r] = s]
    BY <1>1 DEF Receive
  <2> QED BY <1>1, <2>1, <2>2 DEF Receive, Abstract!Accept
<1>2. ASSUME NEW r \in Requests, Locate(r) PROVE Abstract!Locate(r)
  BY <1>2, GotoStatus
  DEF Locate, Abstract!Locate, View, Releasing, status
<1>3. ASSUME NEW r \in Requests,
             Fail(r), pc[r] \in {"postNonUe", "postUe", "ask", "await"},
             Abstract!Excused(r), UNCHANGED <<supi, lmf_cfg>>
      PROVE  Abstract!Fail(r)
  BY <1>3, GotoStatus
  DEF Fail, Abstract!Fail, View, Releasing, status
<1>4. ASSUME NEW r \in Requests, SubscribeFails(r) \/ Refused(r)
                                  \/ TrpInfoFails(r) \/ Timeout(r)
      PROVE  Abstract!Fail(r)
  <2>1. Abstract!Excused(r)
    BY <1>4, TrpInfoFailsExcused, TimeoutExcused
    DEF SubscribeFails, Refused, Abstract!Excused
  <2> QED BY <1>3, <1>4, <2>1 DEF SubscribeFails, Refused, TrpInfoFails, Timeout
<1>5. ASSUME NEW r \in Requests,
             \/ AlreadySubscribed(r) \/ Subscribe(r) \/ Subscribed(r)
             \/ AlreadyDone(r) \/ Ask(r) \/ NextStage(r)
      PROVE  UNCHANGED Abstract!vars
  <2> DEFINE Labels == {"postUe", "postNonUe", "ask", "await", "createUe"}
  <2>1. UNCHANGED <<supi, lmf_cfg>> /\ \E l \in Labels : Goto(r, l)
    BY <1>5 DEF AlreadySubscribed, Subscribe, Subscribed, AlreadyDone, Ask,
                NextStage
  <2>2. View(pc[r]) = "served"
    BY <1>5 DEF AlreadySubscribed, Subscribe, Subscribed, AlreadyDone, Ask,
                NextStage, View, Releasing
  <2>3. \A l \in Labels : View(l) = "served"
    BY DEF View, Releasing
  <2> QED BY <2>1, <2>2, <2>3, SameView
<1>6. ASSUME NEW r \in Requests,
             \/ ReleaseAll(r) \/ ClearOne(r) \/ Cleared(r)
             \/ ReleaseNonUe(r) \/ ResetNonUe(r)
      PROVE  UNCHANGED Abstract!vars
  BY <1>6, SameView
  DEF ReleaseAll, ClearOne, Cleared, ReleaseNonUe, ResetNonUe, View, Releasing
<1>7. ASSUME Answer \/ Notify \/ HandleAnswer \/ HandleUnknown \/ UNCHANGED vars
      PROVE  UNCHANGED Abstract!vars
  BY <1>7 DEF Answer, Notify, HandleAnswer, HandleUnknown, vars, status,
              Abstract!vars
<1> QED BY <1>1, <1>2, <1>4, <1>5, <1>6, <1>7
        DEF Next, RequestStep, Terminated, Abstract!Next

(* The location service keeps the safety part of its promise.              *)
THEOREM ImplementsSafety == Spec => Abstract!SafeSpec
<1>1. Init => Abstract!Init
  BY ConstantsAssumption
  DEF Init, LmfConfig, status, ConstantsAssumption, Abstract!Init
<1>2. IInv /\ [Next]_vars => [Abstract!Next]_Abstract!vars
  BY NextImplements, ConstantsAssumption
<1> QED BY <1>1, <1>2, Invariance, PTL DEF Spec, Abstract!SafeSpec

=============================================================================
