---------------------- MODULE NrppaTransactions_proofs ----------------------
(***************************************************************************)
(* TLAPS proofs about NrppaTransactions, for every set of requests,        *)
(* notification threads, subscribers, ids and gNBs.                        *)
(***************************************************************************)
EXTENDS NrppaTransactions, TLAPS

-----------------------------------------------------------------------------
(* Type correctness *)

(* Every variable keeps its type, and a thread that uses an id, a message, *)
(* a SUPI, a context or a procedure code has read one before.              *)
LEMMA TypeInductive ==
  ASSUME TypeOK, [Next]_vars
  PROVE  TypeOK'
<1> USE ConstantsAssumption, NoneAssumption
    DEF Awaited, Procs, NonUe, Answers, RequestLabels, OwnIdLabels, HandlerLabels
<1> USE DEF TypeOK, LocalsSet, appVars, trpVars, ctxVars, locals, reqVars, hVars, amfVars, Goto,
            Leave, Throw, ErasePending, free_uid, HGoto, Return
<1>1. ASSUME NEW r \in Requests, RequestStep(r) PROVE TypeOK'
  <2>1. CASE CreateContext(r)
    BY <2>1 DEF CreateContext
  <2>2. CASE TrpInfoKnown(r)
    BY <2>2 DEF TrpInfoKnown
  <2>3. CASE TrpInfoRequest(r)
    BY <2>3 DEF TrpInfoRequest
  <2>4. CASE GetUid(r)
    BY <2>4 DEF GetUid
  <2>5. CASE RegisterPending(r)
    <3>1. CASE nrppa_tId[r][tId[r]] = None
      <4>1. response' \in [Requests -> [Awaited -> Messages \cup {None}]]
        BY <2>5 DEF RegisterPending
      <4>2. /\ nrppa_tId' = [nrppa_tId EXCEPT ![r][tId[r]] = phase[r]]
            /\ pc' = [pc EXCEPT ![r] = IF phase[r] \in NonUe THEN "insert" ELSE "post"]
            /\ UNCHANGED <<cv_m_gnb, locals, appVars, gnb, trp_info_err, hVars, amfVars>>
        BY <2>5, <3>1 DEF RegisterPending
      <4>3. tId[r] \in TIds /\ phase[r] \in Procs /\ phase[r] # None
        BY <2>5 DEF RegisterPending
      <4>4. nrppa_tId' \in [Requests -> [TIds -> Procs \cup {None}]]
        BY <4>2, <4>3
      <4> QED
        BY <2>5, <4>1, <4>2, <4>3, <4>4 DEF RegisterPending
    <3>2. CASE nrppa_tId[r][tId[r]] # None
      <4>1. response' \in [Requests -> [Awaited -> Messages \cup {None}]]
        BY <2>5 DEF RegisterPending
      <4>2. Throw(r) /\ UNCHANGED <<nrppa_tId, appVars, gnb, trp_info_err, hVars, amfVars>>
        BY <2>5, <3>2 DEF RegisterPending
      <4> QED
        BY <4>1, <4>2
    <3> QED
      BY <3>1, <3>2
  <2>6. CASE InsertSupi(r)
    BY <2>6 DEF InsertSupi
  <2>7. CASE InsertReuse(r)
    BY <2>7 DEF InsertReuse
  <2>8. CASE PostUe(r)
    BY <2>8 DEF PostUe, Answer, AnswersTo, Messages
  <2>9. CASE PostNonUe(r)
    BY <2>9 DEF PostNonUe, Answer, AnswersTo, Messages
  <2>10. CASE PostRefused(r)
    BY <2>10 DEF PostRefused
  <2>11. CASE FreeRefused(r)
    BY <2>11 DEF FreeRefused
  <2>12. CASE ReplyInitiated(r)
    BY <2>12 DEF ReplyInitiated
  <2>13. CASE ReplyUnreadable(r)
    BY <2>13 DEF ReplyUnreadable
  <2>14. CASE TrpWaitEnds(r)
    BY <2>14 DEF TrpWaitEnds
  <2>15. CASE TrpFree(r)
    BY <2>15 DEF TrpFree
  <2>16. CASE TrpInfoDone(r)
    BY <2>16 DEF TrpInfoDone
  <2>17. CASE TrpInfoFails(r)
    BY <2>17 DEF TrpInfoFails
  <2>18. CASE SrsConfigured(r)
    BY <2>18 DEF SrsConfigured, HasAnswer
  <2>19. CASE NextGnb(r)
    BY <2>19 DEF NextGnb, IsFirst, HasAnswer
  <2>20. CASE AllMeasured(r)
    BY <2>20 DEF AllMeasured, HasAnswer
  <2>21. CASE FailureTaken(r)
    BY <2>21 DEF FailureTaken, HasAnswer
  <2>22. CASE WaitTimeout(r)
    BY <2>22 DEF WaitTimeout
  <2>23. CASE Finish(r)
    BY <2>23 DEF Finish
  <2>24. CASE ComputeFails(r)
    BY <2>24 DEF ComputeFails
  <2> QED
    BY <1>1, <2>1, <2>2, <2>3, <2>4, <2>5, <2>6, <2>7, <2>8, <2>9, <2>10, <2>11, <2>12, <2>13, <2>14, <2>15, <2>16, <2>17, <2>18, <2>19, <2>20, <2>21, <2>22, <2>23, <2>24 DEF RequestStep
<1>2. ASSUME NEW h \in Handlers, HandlerStep(h) PROVE TypeOK'
  <2>0. ASSUME hpc[h] # "idle"
        PROVE  /\ hmsg[h] \in Messages
               /\ hmsg[h].tid \in TIds /\ hmsg[h].proc \in Procs
               /\ hmsg[h].proc = "TRP" => hmsg[h].from \in Gnbs
    <3>1. hmsg[h] \in Messages
      BY <2>0
    <3> QED
      BY <3>1 DEF Messages
  <2>1. ASSUME NEW m \in net, ReceiveUe(h, m) PROVE TypeOK'
    <3>1. m \in Messages /\ SupiOf[m.req] \in Supis
      BY DEF Messages
    <3> QED
      <4>1. net' \subseteq Messages /\ redelivered' \in 0..MaxRedeliveries
        BY <2>1 DEF ReceiveUe, Take
      <4>2. /\ hmsg' = [hmsg EXCEPT ![h] = m] /\ m # None
            /\ hsupi' = [hsupi EXCEPT ![h] = SupiOf[m.req]]
            /\ hpc' = [hpc EXCEPT ![h] = "context"]
            /\ UNCHANGED <<appVars, trpVars, ctxVars, reqVars, hctx, hproc>>
        BY <2>1, <3>1 DEF ReceiveUe
      <4> QED
        BY <3>1, <4>1, <4>2
  <2>2. ASSUME NEW m \in net, ReceiveNonUe(h, m) PROVE TypeOK'
    <3>1. m \in Messages /\ m # None
      OBVIOUS
    <3>2. net' \subseteq Messages /\ redelivered' \in 0..MaxRedeliveries
      BY <2>2 DEF ReceiveNonUe, Take
    <3>3. /\ hmsg' = [hmsg EXCEPT ![h] = m]
          /\ hpc' = [hpc EXCEPT ![h] = "lookup"]
          /\ UNCHANGED <<appVars, trpVars, ctxVars, reqVars, hsupi, hctx, hproc>>
      BY <2>2 DEF ReceiveNonUe
    <3> QED
      BY <3>1, <3>2, <3>3
  <2>3. CASE LookupSupi(h)
    <3>1. nrppaTxnId2supi[hmsg[h].tid] \in Supis /\ hmsg[h].tid \in TIds
      BY <2>0, <2>3 DEF LookupSupi
    <3> QED
      BY <2>3, <3>1 DEF LookupSupi
  <2>4. CASE UnknownId(h)
    BY <2>0, <2>4 DEF UnknownId
  <2>5. CASE FindContext(h)
    BY <2>0, <2>5 DEF FindContext
  <2>6. CASE UnknownSupi(h)
    BY <2>0, <2>6 DEF UnknownSupi
  <2>7. CASE CheckPending(h)
    <3>1. hproc' = [hproc EXCEPT ![h] = Pending(h)] /\ Pending(h) # None
      BY <2>7 DEF CheckPending
    <3>5. hmsg[h].tid \in TIds /\ hctx[h] \in Requests
      BY <2>0, <2>7 DEF CheckPending
    <3>6. Pending(h) \in Procs
      <4>1. nrppa_tId[hctx[h]] \in [TIds -> Procs \cup {None}]
        BY <3>5
      <4> QED
        BY <3>1, <3>5, <4>1 DEF Pending
    <3>2. hpc[h] = "check" /\ \E l \in {"dispatch", "erase"} : hpc' = [hpc EXCEPT ![h] = l]
      BY <2>7 DEF CheckPending
    <3>3. UNCHANGED <<appVars, trpVars, ctxVars, reqVars, hmsg, hsupi, hctx, amfVars>>
      BY <2>7 DEF CheckPending
    <3> QED
      BY <3>1, <3>2, <3>3, <3>6
  <2>8. CASE UnknownTransaction(h)
    BY <2>0, <2>8 DEF UnknownTransaction
  <2>9. CASE EraseTxn(h)
    BY <2>0, <2>9 DEF EraseTxn
  <2>10. CASE FreeTxn(h)
    BY <2>0, <2>10 DEF FreeTxn
  <2>11. CASE UnmapTxn(h)
    BY <2>0, <2>11 DEF UnmapTxn
  <2>12. CASE UnmappedTwice(h)
    BY <2>0, <2>12 DEF UnmappedTwice
  <2>13. CASE RejectMismatch(h)
    BY <2>0, <2>13 DEF RejectMismatch
  <2>14. CASE DeliverTrp(h)
    <3>1. hmsg[h] \in Messages /\ hmsg[h].proc = "TRP"
      BY <2>14 DEF DeliverTrp
    <3>2. gnb' \subseteq Gnbs
      BY <2>0, <2>14, <3>1 DEF DeliverTrp
    <3>5. trp_info_err' \in Nat
      <4>1. \E n \in {0, 1} : trp_info_err' = trp_info_err + n
        BY <2>14 DEF DeliverTrp
      <4> QED
        BY <4>1
    <3>3. Return(h) /\ UNCHANGED <<appVars, cv_m_gnb, ctxVars, reqVars, amfVars>>
      BY <2>14 DEF DeliverTrp
    <3> QED
      BY <3>2, <3>3, <3>5
  <2>15. CASE DeliverAnswer(h)
    BY <2>0, <2>15 DEF DeliverAnswer
  <2> QED
    BY <1>2, <2>1, <2>2, <2>3, <2>4, <2>5, <2>6, <2>7, <2>8, <2>9, <2>10, <2>11, <2>12, <2>13, <2>14, <2>15 DEF HandlerStep
<1>3. CASE Terminated
  BY <1>3 DEF Terminated, vars
<1>4. CASE UNCHANGED vars
  BY <1>4 DEF vars
<1> QED
  BY <1>1, <1>2, <1>3, <1>4 DEF Next

LEMMA TypeInit == Init => TypeOK
  BY ConstantsAssumption, NoneAssumption
     DEF Init, TypeOK, LocalsSet, Awaited, Procs, NonUe, Answers, RequestLabels,
         OwnIdLabels, HandlerLabels

(* Every variable keeps its type, and a thread that uses an id, a message, *)
(* a SUPI, a context or a procedure code has read one before.              *)
THEOREM Typing == Spec => []TypeOK
<1>1. TypeOK /\ [Next]_vars => TypeOK'
  BY TypeInductive
<1> QED
  BY TypeInit, <1>1, PTL DEF Spec

-----------------------------------------------------------------------------
(* No id is lost *)

(* Who had to give an id back still has to, or the id has been given back. *)
LEMMA IdsStay ==
  ASSUME NoIdLost, nrppa_tid_gen' \subseteq nrppa_tid_gen,
         \A t \in nrppa_tid_gen' : \A q \in Requests : HoldsId(q, t) => HoldsId(q, t)',
         \A t \in nrppa_tid_gen' : \A g \in Handlers : FreesId(g, t) => FreesId(g, t)'
  PROVE  NoIdLost'
BY DEF NoIdLost

(* A request thread takes an id to its own place, from there to the table  *)
(* of its context, and back before it frees it.                            *)
LEMMA RequestKeepsIds ==
  ASSUME TypeOK, NoIdLost, NEW r \in Requests, RequestStep(r)
  PROVE  NoIdLost'
<1> USE DEF appVars, trpVars, ctxVars, locals, reqVars, hVars, amfVars
<1>1. /\ pc \in [Requests -> RequestLabels] /\ tId \in [Requests -> TIds \cup {None}]
      /\ nrppa_tId \in [Requests -> [TIds -> Procs \cup {None}]]
      /\ phase \in [Requests -> Procs] /\ nrppa_tid_gen \subseteq TIds
  BY DEF TypeOK
<1>2. UNCHANGED <<hpc, hmsg>>
  BY DEF RequestStep, CreateContext, TrpInfoKnown, TrpInfoRequest, GetUid,
         RegisterPending, InsertSupi, InsertReuse, PostUe, PostNonUe, PostRefused,
         FreeRefused, ReplyInitiated, ReplyUnreadable, TrpWaitEnds, TrpFree,
         TrpInfoDone, TrpInfoFails, SrsConfigured, NextGnb, AllMeasured,
         FailureTaken, WaitTimeout, Finish, ComputeFails
<1>3. \A g \in Handlers : \A t : FreesId(g, t) => FreesId(g, t)'
  BY <1>2 DEF FreesId
<1>4. ASSUME UNCHANGED <<nrppa_tId, nrppa_tid_gen>>, NEW l, pc' = [pc EXCEPT ![r] = l],
             pc[r] \notin {"register", "refused", "trpFree"}
      PROVE  NoIdLost'
  <2>1. \A q \in Requests : q # r /\ pc[q] \in {"register", "refused", "trpFree"}
          => tId'[q] = tId[q]
    BY <1>1
       DEF RequestStep, CreateContext, TrpInfoKnown, TrpInfoRequest, GetUid,
           RegisterPending, InsertSupi, InsertReuse, PostUe, PostNonUe, PostRefused,
           FreeRefused, ReplyInitiated, ReplyUnreadable, TrpWaitEnds, TrpFree,
           TrpInfoDone, TrpInfoFails, SrsConfigured, NextGnb, AllMeasured,
           FailureTaken, WaitTimeout, Finish, ComputeFails, Throw, Leave
  <2>2. \A q \in Requests : \A t : HoldsId(q, t) => HoldsId(q, t)'
    BY <1>1, <1>4, <2>1 DEF HoldsId
  <2> QED
    BY <1>3, <1>4, <2>2, IdsStay
<1>5. CASE GetUid(r)
  <2>1. PICK u \in TIds : /\ nrppa_tid_gen' = nrppa_tid_gen \cup {u}
                          /\ tId' = [tId EXCEPT ![r] = u]
    BY <1>5 DEF GetUid
  <2>2. /\ pc' = [pc EXCEPT ![r] = "register"] /\ pc[r] = "getUid"
        /\ UNCHANGED nrppa_tId
    BY <1>5 DEF GetUid, Goto
  <2>3. HoldsId(r, u)'
    BY <1>1, <2>1, <2>2 DEF HoldsId
  <2>4. \A q \in Requests : \A t : HoldsId(q, t) => HoldsId(q, t)'
    BY <1>1, <2>1, <2>2 DEF HoldsId
  <2> QED
    BY <1>3, <2>1, <2>3, <2>4 DEF NoIdLost
<1>6. CASE RegisterPending(r)
  <2>1. pc[r] = "register" /\ tId[r] \in TIds /\ phase[r] # None
    BY <1>1, <1>6, NoneAssumption DEF RegisterPending, TypeOK, LocalsSet, OwnIdLabels
  <2>2. UNCHANGED nrppa_tid_gen
    BY <1>6 DEF RegisterPending
  <2>3. \A q \in Requests : \A t \in TIds : HoldsId(q, t) => HoldsId(q, t)'
    <3>1. CASE nrppa_tId[r][tId[r]] = None
      <4>1. /\ nrppa_tId' = [nrppa_tId EXCEPT ![r][tId[r]] = phase[r]]
            /\ \E l : pc' = [pc EXCEPT ![r] = l]
            /\ UNCHANGED tId
        BY <1>6, <3>1 DEF RegisterPending, Goto
      <4>2. \A q \in Requests : \A t \in TIds :
              nrppa_tId[q][t] # None \/ (q = r /\ t = tId[r]) => nrppa_tId'[q][t] # None
        BY <1>1, <2>1, <4>1
      <4> QED
        BY <1>1, <2>1, <4>1, <4>2 DEF HoldsId
    <3>2. CASE nrppa_tId[r][tId[r]] # None
      <4>1. /\ UNCHANGED nrppa_tId /\ pc' = [pc EXCEPT ![r] = "failed"]
            /\ tId' = [tId EXCEPT ![r] = None]
        BY <1>6, <3>2 DEF RegisterPending, Throw, Leave, Goto
      <4> QED
        BY <1>1, <2>1, <3>2, <4>1 DEF HoldsId
    <3> QED
      BY <3>1, <3>2
  <2> QED
    BY <1>1, <1>3, <2>2, <2>3, IdsStay
<1>7. CASE PostRefused(r) \/ TrpWaitEnds(r)
  <2>1. /\ nrppa_tId' = [nrppa_tId EXCEPT ![r][tId[r]] = None]
        /\ pc[r] \in {"post", "wait"} /\ tId[r] \in TIds
        /\ \E l \in {"refused", "trpFree"} : pc' = [pc EXCEPT ![r] = l]
        /\ UNCHANGED <<tId, nrppa_tid_gen>>
    BY <1>1, <1>7 DEF PostRefused, TrpWaitEnds, ErasePending, Goto, TypeOK, LocalsSet,
                      OwnIdLabels
  <2>2. \A q \in Requests : \A t \in TIds :
          nrppa_tId[q][t] # None => nrppa_tId'[q][t] # None \/ (q = r /\ t = tId[r])
    BY <1>1, <2>1
  <2>3. \A q \in Requests : \A t \in TIds : HoldsId(q, t) => HoldsId(q, t)'
    BY <1>1, <2>1, <2>2 DEF HoldsId
  <2> QED
    BY <1>1, <1>3, <2>1, <2>3, IdsStay
<1>8. CASE FreeRefused(r) \/ TrpFree(r)
  <2>1. /\ nrppa_tid_gen' = nrppa_tid_gen \ {tId[r]}
        /\ \E l : pc' = [pc EXCEPT ![r] = l]
        /\ \A q \in Requests : q # r => tId'[q] = tId[q]
        /\ UNCHANGED nrppa_tId
    BY <1>1, <1>8 DEF FreeRefused, TrpFree, free_uid, Throw, Leave, Goto
  <2>2. \A q \in Requests : \A t : t # tId[r] /\ HoldsId(q, t) => HoldsId(q, t)'
    BY <1>1, <2>1 DEF HoldsId
  <2> QED
    BY <1>3, <2>1, <2>2, IdsStay
<1>9. CASE CreateContext(r) \/ TrpInfoKnown(r) \/ TrpInfoRequest(r)
  BY <1>4, <1>9 DEF CreateContext, TrpInfoKnown, TrpInfoRequest, Goto
<1>10. CASE InsertSupi(r) \/ InsertReuse(r) \/ PostUe(r) \/ PostNonUe(r)
  BY <1>4, <1>10 DEF InsertSupi, InsertReuse, PostUe, PostNonUe, Goto, Throw, Leave
<1>11. CASE ReplyInitiated(r) \/ ReplyUnreadable(r) \/ TrpInfoDone(r) \/ TrpInfoFails(r)
  BY <1>4, <1>11 DEF ReplyInitiated, ReplyUnreadable, TrpInfoDone, TrpInfoFails, Goto,
                     Throw, Leave
<1>12. CASE SrsConfigured(r) \/ NextGnb(r) \/ AllMeasured(r) \/ FailureTaken(r)
  BY <1>4, <1>12 DEF SrsConfigured, NextGnb, AllMeasured, FailureTaken, HasAnswer, Goto,
                     Throw, Leave
<1>13. CASE WaitTimeout(r) \/ Finish(r) \/ ComputeFails(r)
  BY <1>4, <1>13 DEF WaitTimeout, Finish, ComputeFails, Goto, Throw, Leave
<1> QED
  BY <1>5, <1>6, <1>7, <1>8, <1>9, <1>10, <1>11, <1>12, <1>13 DEF RequestStep

(* A notification thread that erases a transaction, whatever its answer    *)
(* is, goes on to free the id.                                             *)
LEMMA HandlerKeepsIds ==
  ASSUME TypeOK, NoIdLost, NEW h \in Handlers, HandlerStep(h)
  PROVE  NoIdLost'
<1> USE DEF appVars, trpVars, ctxVars, locals, reqVars, hVars, amfVars
<1>1. /\ hpc \in [Handlers -> HandlerLabels] /\ hmsg \in [Handlers -> Messages \cup {None}]
      /\ hctx \in [Handlers -> Requests \cup {None}]
      /\ nrppa_tId \in [Requests -> [TIds -> Procs \cup {None}]]
      /\ nrppa_tid_gen \subseteq TIds
  BY DEF TypeOK
<1>2. UNCHANGED <<pc, tId>>
  BY DEF HandlerStep, ReceiveUe, ReceiveNonUe, LookupSupi, UnknownId, FindContext,
         UnknownSupi, CheckPending, UnknownTransaction, EraseTxn, FreeTxn, UnmapTxn,
         UnmappedTwice, RejectMismatch, DeliverTrp, DeliverAnswer
<1>3. \A g \in Handlers : g # h => hpc'[g] = hpc[g] /\ hmsg'[g] = hmsg[g]
  BY <1>1 DEF HandlerStep, ReceiveUe, ReceiveNonUe, LookupSupi, UnknownId, FindContext,
         UnknownSupi, CheckPending, UnknownTransaction, EraseTxn, FreeTxn, UnmapTxn,
         UnmappedTwice, RejectMismatch, DeliverTrp, DeliverAnswer, HGoto, Return
<1>4. ASSUME UNCHANGED <<nrppa_tId, nrppa_tid_gen>>, hpc[h] # "free"
      PROVE  NoIdLost'
  <2>1. \A q \in Requests : \A t : HoldsId(q, t) => HoldsId(q, t)'
    BY <1>2, <1>4 DEF HoldsId
  <2>2. \A g \in Handlers : \A t : FreesId(g, t) => FreesId(g, t)'
    BY <1>3, <1>4 DEF FreesId
  <2> QED
    BY <1>4, <2>1, <2>2, IdsStay
<1>5. CASE EraseTxn(h)
  <2> DEFINE c == hctx[h]
             u == hmsg[h].tid
  <2>1. /\ nrppa_tId' = [nrppa_tId EXCEPT ![c][u] = None]
        /\ hpc[h] = "erase" /\ hpc'[h] = "free" /\ hmsg'[h] = hmsg[h]
        /\ UNCHANGED nrppa_tid_gen
    BY <1>1, <1>5 DEF EraseTxn, ErasePending, HGoto
  <2>2. \A q \in Requests : \A t \in TIds : t # u => nrppa_tId'[q][t] = nrppa_tId[q][t]
    <3> HIDE DEF c, u
    <3> QED
      BY <1>1, <2>1
  <2>3. \A q \in Requests : \A t \in TIds : t # u /\ HoldsId(q, t) => HoldsId(q, t)'
    BY <1>2, <2>2 DEF HoldsId
  <2>4. FreesId(h, u)'
    BY <2>1 DEF FreesId
  <2>5. \A g \in Handlers : \A t : FreesId(g, t) => FreesId(g, t)'
    BY <1>3, <2>1 DEF FreesId
  <2> QED
    BY <1>1, <2>1, <2>3, <2>4, <2>5 DEF NoIdLost
<1>6. CASE FreeTxn(h)
  <2>1. nrppa_tid_gen' = nrppa_tid_gen \ {hmsg[h].tid} /\ UNCHANGED nrppa_tId
    BY <1>6 DEF FreeTxn, free_uid
  <2>2. \A q \in Requests : \A t : HoldsId(q, t) => HoldsId(q, t)'
    BY <1>2, <2>1 DEF HoldsId
  <2>3. \A g \in Handlers : \A t : t # hmsg[h].tid /\ FreesId(g, t) => FreesId(g, t)'
    BY <1>3 DEF FreesId
  <2> QED
    BY <2>1, <2>2, <2>3, IdsStay
<1>7. CASE \E m \in net : ReceiveUe(h, m) \/ ReceiveNonUe(h, m)
  BY <1>4, <1>7 DEF ReceiveUe, ReceiveNonUe
<1>8. CASE LookupSupi(h) \/ UnknownId(h) \/ FindContext(h) \/ UnknownSupi(h)
           \/ CheckPending(h) \/ UnknownTransaction(h)
  BY <1>4, <1>8 DEF LookupSupi, UnknownId, FindContext, UnknownSupi, CheckPending,
                    UnknownTransaction
<1>9. CASE UnmapTxn(h) \/ UnmappedTwice(h) \/ RejectMismatch(h) \/ DeliverTrp(h)
           \/ DeliverAnswer(h)
  BY <1>4, <1>9 DEF UnmapTxn, UnmappedTwice, RejectMismatch, DeliverTrp, DeliverAnswer
<1> QED
  BY <1>5, <1>6, <1>7, <1>8, <1>9 DEF HandlerStep

(* Every id handed out is with a request or a notification thread that can *)
(* still give it back, even when the AMF repeats notifications, answers    *)
(* come after the wait and consume transactions they do not fit.           *)
THEOREM IdsNeverLost == Spec => []NoIdLost
<1>1. Init => NoIdLost
  BY DEF Init, NoIdLost
<1>2. TypeOK /\ NoIdLost /\ [Next]_vars => (TypeOK /\ NoIdLost)'
  <2> SUFFICES ASSUME TypeOK, NoIdLost, [Next]_vars PROVE NoIdLost'
    BY TypeInductive
  <2>1. CASE UNCHANGED vars
    BY <2>1 DEF vars, appVars, ctxVars, locals, reqVars, hVars, NoIdLost, HoldsId, FreesId
  <2> QED
    BY <2>1, RequestKeepsIds, HandlerKeepsIds DEF Next, Terminated
<1> QED
  BY TypeInit, <1>1, <1>2, PTL DEF Spec

=============================================================================
