------------------------ MODULE NrppaAccounts_proofs ------------------------
(***************************************************************************)
(* TLAPS proof that AccountInv is an invariant when answers are punctual:  *)
(* a request keeps at most one id, an answer finds its transaction, and a  *)
(* request that succeeded leaves nothing behind.  It builds on IInv.       *)
(***************************************************************************)
EXTENDS NrppaInvariant_proofs

(* A request thread writes only at its own place.                          *)
LEMMA RequestWrites ==
  ASSUME IInv, NEW r \in Requests, RequestStep(r)
  PROVE  OnlyOf(r) /\ UNCHANGED <<hpc, hmsg, hctx, hproc>>
<1> USE DEF appVars, trpVars, ctxVars, locals, hVars, amfVars,
            RequestTypes, OnlyOf, Goto, Throw, Leave
<1>0. RequestTypes
  BY RequestTyped
<1>1. CASE CreateContext(r) \/ TrpInfoKnown(r) \/ TrpInfoRequest(r) \/ GetUid(r)
  BY <1>0, <1>1 DEF CreateContext, TrpInfoKnown, TrpInfoRequest, GetUid
<1>2. CASE RegisterPending(r)
  BY <1>2, RegisterIsQuiet DEF Quiet
<1>3. CASE InsertSupi(r) \/ InsertReuse(r) \/ PostUe(r) \/ PostNonUe(r)
  BY <1>0, <1>3 DEF InsertSupi, InsertReuse, PostUe, PostNonUe
<1>4. CASE PostRefused(r) \/ FreeRefused(r)
  BY <1>0, <1>4 DEF PostRefused, FreeRefused, ErasePending
<1>5. CASE ReplyInitiated(r) \/ ReplyUnreadable(r)
  BY <1>0, <1>5 DEF ReplyInitiated, ReplyUnreadable
<1>6. CASE TrpWaitEnds(r) \/ TrpFree(r) \/ TrpInfoDone(r) \/ TrpInfoFails(r)
  BY <1>0, <1>6 DEF TrpWaitEnds, TrpFree, TrpInfoDone, TrpInfoFails, ErasePending
<1>7. CASE SrsConfigured(r) \/ NextGnb(r) \/ AllMeasured(r) \/ FailureTaken(r)
  BY <1>0, <1>7 DEF SrsConfigured, NextGnb, AllMeasured, FailureTaken
<1>8. CASE WaitTimeout(r) \/ Finish(r) \/ ComputeFails(r)
  BY <1>0, <1>8 DEF WaitTimeout, Finish, ComputeFails
<1> QED
  BY <1>1, <1>2, <1>3, <1>4, <1>5, <1>6, <1>7, <1>8 DEF RequestStep

-----------------------------------------------------------------------------
(* Who needs an entry of nrppaTxnId2supi *)

LEMMA EntriesStay ==
  ASSUME EntryInv, nrppaTxnId2supi' = nrppaTxnId2supi,
         \A q \in Requests : \A t \in TIds : UsesEntry(q, t)' => UsesEntry(q, t),
         \A h \in Handlers : hpc'[h] = "unmap" => hmsg'[h].proc = "Meas"
  PROVE  EntryInv'
BY DEF EntryInv

LEMMA RequestReleases ==
  ASSUME EntryInv, NEW r \in Requests, OnlyOf(r), UNCHANGED <<hpc, hmsg, net>>,
         nrppaTxnId2supi' = nrppaTxnId2supi,
         \A t \in TIds : RequestUses(r, t)' => RequestUses(r, t)
  PROVE  EntryInv'
<1>1. ASSUME NEW q \in Requests, NEW t \in TIds, UsesEntry(q, t)'
      PROVE  UsesEntry(q, t)
  <2>1. RequestUses(q, t)' => RequestUses(q, t)
    BY DEF OnlyOf, RequestUses
  <2>2. (AnswerUses(q, t)' => AnswerUses(q, t)) /\ (HandlerUses(q, t)' => HandlerUses(q, t))
    BY DEF AnswerUses, HandlerUses
  <2> QED
    BY <1>1, <2>1, <2>2 DEF UsesEntry
<1>2. \A h \in Handlers : hpc'[h] = "unmap" => hmsg'[h].proc = "Meas"
  BY DEF EntryInv
<1> QED
  BY <1>1, <1>2, EntriesStay

(* The entry is new: nobody needed the one that was not there.             *)
LEMMA InsertEntry ==
  ASSUME IInv, EntryInv, NEW r \in Requests, InsertSupi(r)
  PROVE  EntryInv'
<1>1. /\ OnlyOf(r) /\ UNCHANGED <<hpc, hmsg, net, tId, phase>>
      /\ pc[r] = "insert" /\ pc'[r] = "post"
      /\ tId[r] \in TIds /\ nrppaTxnId2supi[tId[r]] = None
      /\ nrppaTxnId2supi' = [nrppaTxnId2supi EXCEPT ![tId[r]] = SupiOf[r]]
  BY RequestTyped, RequestWrites
     DEF RequestStep, InsertSupi, Goto, RequestTypes, OwnIdLabels, locals, amfVars
<1>2. /\ nrppaTxnId2supi'[tId[r]] = SupiOf[r]
      /\ \A t \in TIds : t # tId[r] => nrppaTxnId2supi'[t] = nrppaTxnId2supi[t]
  BY <1>1 DEF IInv, TypeOK
<1>3. \A q \in Requests : ~UsesEntry(q, tId[r])
  BY <1>1, ConstantsAssumption, NoneAssumption DEF EntryInv
<1>4. ASSUME NEW q \in Requests, NEW t \in TIds, UsesEntry(q, t)'
      PROVE  UsesEntry(q, t) \/ (q = r /\ t = tId[r])
  <2>1. RequestUses(q, t)' => RequestUses(q, t) \/ (q = r /\ t = tId[r])
    BY <1>1 DEF OnlyOf, RequestUses
  <2>2. (AnswerUses(q, t)' => AnswerUses(q, t)) /\ (HandlerUses(q, t)' => HandlerUses(q, t))
    BY <1>1 DEF AnswerUses, HandlerUses
  <2> QED
    BY <1>4, <2>1, <2>2 DEF UsesEntry
<1>5. \A h \in Handlers : hpc'[h] = "unmap" => hmsg'[h].proc = "Meas"
  BY <1>1 DEF EntryInv
<1>6. ASSUME NEW q \in Requests, NEW t \in TIds, UsesEntry(q, t)'
      PROVE  /\ nrppaTxnId2supi'[t] = SupiOf[q]
             /\ \A p \in Requests : UsesEntry(p, t)' => p = q
  <2>1. CASE t = tId[r]
    BY <1>2, <1>3, <1>4, <1>6, <2>1
  <2>2. CASE t # tId[r]
    BY <1>2, <1>4, <1>6, <2>2 DEF EntryInv
  <2> QED
    BY <2>1, <2>2
<1> QED
  BY <1>5, <1>6 DEF EntryInv

(* The measurement request is on its way: its answer needs the entry that  *)
(* the request needed.                                                     *)
LEMMA PostEntry ==
  ASSUME IInv, EntryInv, NEW r \in Requests, PostUe(r) \/ PostNonUe(r)
  PROVE  EntryInv'
<1> USE DEF appVars, locals, hVars
<1>1. OnlyOf(r) /\ pc[r] = "post" /\ pc'[r] = "reply"
  BY RequestTyped, RequestWrites DEF RequestStep, PostUe, PostNonUe, Goto, RequestTypes
<1>2. UNCHANGED <<hpc, hmsg, tId, phase, nrppaTxnId2supi>>
  BY DEF PostUe, PostNonUe
<1>3. ASSUME NEW m \in net', m \notin net
      PROVE  m.req = r /\ m.tid = tId[r] /\ m.proc = phase[r]
  <2>1. CASE PostUe(r)
    BY <1>3, <2>1 DEF PostUe, Answer
  <2>2. CASE PostNonUe(r)
    <3>1. PICK S : \E a \in [S -> AnswersTo(phase[r])] :
                     net' = net \cup {Answer(r, g, a[g]) : g \in S}
      BY <2>2 DEF PostNonUe
    <3>2. PICK g, a : m = Answer(r, g, a)
      BY <1>3, <3>1
    <3> QED
      BY <3>2 DEF Answer
  <2> QED
    BY <2>1, <2>2
<1>4. ASSUME NEW q \in Requests, NEW t \in TIds, UsesEntry(q, t)'
      PROVE  UsesEntry(q, t)
  <2>1. RequestUses(q, t)' => RequestUses(q, t)
    BY <1>1, <1>2 DEF OnlyOf, RequestUses, NonUe
  <2>2. HandlerUses(q, t)' => HandlerUses(q, t)
    BY <1>2 DEF HandlerUses
  <2>3. AnswerUses(q, t)' => AnswerUses(q, t) \/ RequestUses(q, t)
    BY <1>1, <1>3 DEF AnswerUses, RequestUses, NonUe
  <2> QED
    BY <1>4, <2>1, <2>2, <2>3 DEF UsesEntry
<1>5. \A h \in Handlers : hpc'[h] = "unmap" => hmsg'[h].proc = "Meas"
  BY <1>2 DEF EntryInv
<1> QED
  BY <1>2, <1>4, <1>5, EntriesStay

(* No answer of a request that is not waiting needs an entry.              *)
LEMMA NoAnswerUses ==
  ASSUME IInv, NEW r \in Requests, pc[r] \notin {"reply", "wait", "failed"},
         NEW t \in TIds
  PROVE  ~AnswerUses(r, t) /\ ~HandlerUses(r, t)
<1>1. ~AnswerUses(r, t)
  BY NotCarried DEF AnswerUses, Carried
<1>2. ASSUME NEW h \in Handlers, hmsg[h].proc = "Meas",
             hpc[h] \in Unserved \cup {"erase", "free", "unmap"}
      PROVE  hmsg[h].req # r
  <2>1. Active(h)
    BY <1>2 DEF Active, Served, Awaited
  <2> QED
    BY <2>1, NotCarried DEF Carried
<1> QED
  BY <1>1, <1>2 DEF HandlerUses

(* trp_information erases the entry nobody else needs.                     *)
LEMMA TrpErasesEntry ==
  ASSUME IInv, EntryInv, NEW r \in Requests, TrpInfoDone(r) \/ TrpInfoFails(r)
  PROVE  EntryInv'
<1>1. /\ OnlyOf(r) /\ UNCHANGED <<hpc, hmsg, net>>
      /\ pc[r] = "trpErase" /\ pc'[r] \in {"getUid", "failed"}
      /\ tId[r] \in TIds
      /\ nrppaTxnId2supi' = [nrppaTxnId2supi EXCEPT ![tId[r]] = None]
  BY RequestTyped, RequestWrites
     DEF RequestStep, TrpInfoDone, TrpInfoFails, Goto, Throw, Leave, RequestTypes,
         OwnIdLabels, amfVars
<1>2. \A t \in TIds : t # tId[r] => nrppaTxnId2supi'[t] = nrppaTxnId2supi[t]
  BY <1>1 DEF IInv, TypeOK
<1>3. UsesEntry(r, tId[r])
  BY <1>1 DEF UsesEntry, RequestUses
<1>4. ASSUME NEW q \in Requests, NEW t \in TIds, UsesEntry(q, t)'
      PROVE  UsesEntry(q, t) /\ t # tId[r]
  <2>1. (AnswerUses(q, t)' => AnswerUses(q, t)) /\ (HandlerUses(q, t)' => HandlerUses(q, t))
    BY <1>1 DEF AnswerUses, HandlerUses
  <2>2. CASE q = r
    <3>1. ~RequestUses(r, t)'
      BY <1>1 DEF RequestUses
    <3>2. ~AnswerUses(r, t) /\ ~HandlerUses(r, t)
      BY <1>1, NoAnswerUses
    <3> QED
      BY <1>4, <2>1, <2>2, <3>1, <3>2 DEF UsesEntry
  <2>3. CASE q # r
    <3>1. RequestUses(q, t)' => RequestUses(q, t)
      BY <1>1, <2>3 DEF OnlyOf, RequestUses
    <3>2. UsesEntry(q, t)
      BY <1>4, <2>1, <3>1 DEF UsesEntry
    <3> QED
      BY <1>1, <1>3, <2>3, <3>2 DEF EntryInv
  <2> QED
    BY <2>2, <2>3
<1>5. \A h \in Handlers : hpc'[h] = "unmap" => hmsg'[h].proc = "Meas"
  BY <1>1 DEF EntryInv
<1>6. ASSUME NEW q \in Requests, NEW t \in TIds, UsesEntry(q, t)'
      PROVE  /\ nrppaTxnId2supi'[t] = SupiOf[q]
             /\ \A p \in Requests : UsesEntry(p, t)' => p = q
  BY <1>2, <1>4, <1>6 DEF EntryInv
<1> QED
  BY <1>5, <1>6 DEF EntryInv

(* Every step of a request thread preserves EntryInv.                      *)
LEMMA RequestEntries ==
  ASSUME IInv, EntryInv, NEW r \in Requests, RequestStep(r)
  PROVE  EntryInv'
<1> USE DEF appVars, trpVars, ctxVars, locals, hVars, amfVars
<1>0. RequestTypes /\ OnlyOf(r) /\ UNCHANGED <<hpc, hmsg>>
  BY RequestTyped, RequestWrites
<1>1. ASSUME pc'[r] \notin {"post", "reply", "wait", "trpFree", "trpErase"},
             UNCHANGED <<net, nrppaTxnId2supi>>
      PROVE  EntryInv'
  BY <1>0, <1>1, RequestReleases DEF RequestUses
<1>2. ASSUME Throw(r), UNCHANGED <<net, nrppaTxnId2supi>>
      PROVE  EntryInv'
  BY <1>0, <1>1, <1>2 DEF Throw, Leave, Goto, RequestTypes
<1>3. ASSUME NEW l \in RequestLabels, Goto(r, l),
             l \in {"trpInfo", "getUid", "register", "refused", "compute"},
             UNCHANGED <<net, nrppaTxnId2supi>>
      PROVE  EntryInv'
  BY <1>0, <1>1, <1>3 DEF Goto, RequestTypes
<1>4. CASE CreateContext(r) \/ TrpInfoKnown(r) \/ TrpInfoRequest(r)
  BY <1>3, <1>4 DEF CreateContext, TrpInfoKnown, TrpInfoRequest, RequestLabels
<1>5. CASE GetUid(r) \/ PostRefused(r) \/ SrsConfigured(r) \/ NextGnb(r) \/ AllMeasured(r)
  BY <1>3, <1>5 DEF GetUid, PostRefused, SrsConfigured, NextGnb, AllMeasured, RequestLabels
<1>6. CASE InsertReuse(r) \/ ReplyUnreadable(r) \/ FreeRefused(r) \/ FailureTaken(r)
           \/ WaitTimeout(r) \/ ComputeFails(r)
  BY <1>2, <1>6 DEF InsertReuse, ReplyUnreadable, FreeRefused, FailureTaken,
                    WaitTimeout, ComputeFails
<1>7. CASE Finish(r)
  BY <1>0, <1>1, <1>7 DEF Finish, Leave, Goto, RequestTypes
<1>8. CASE RegisterPending(r)
  <2>1. nrppa_tId[r][tId[r]] = None
    BY <1>8 DEF RegisterPending, IInv, RequestInv, RequestOk
  <2>2. /\ pc' = [pc EXCEPT ![r] = IF phase[r] \in NonUe THEN "insert" ELSE "post"]
        /\ UNCHANGED <<phase, tId, net, nrppaTxnId2supi>>
    BY <1>8, <2>1 DEF RegisterPending, Goto
  <2>3. \A t \in TIds : ~RequestUses(r, t)'
    BY <1>0, <2>2 DEF RequestTypes, RequestUses, NonUe
  <2> QED
    BY <1>0, <2>2, <2>3, RequestReleases
<1>9. CASE ReplyInitiated(r)
  <2>1. \A t \in TIds : RequestUses(r, t)' => RequestUses(r, t)
    BY <1>0, <1>9 DEF ReplyInitiated, Goto, RequestTypes, RequestUses
  <2> QED
    BY <1>0, <1>9, <2>1, RequestReleases DEF ReplyInitiated
<1>10. CASE TrpWaitEnds(r)
  <2>1. \A t \in TIds : RequestUses(r, t)' => RequestUses(r, t)
    BY <1>0, <1>10 DEF TrpWaitEnds, Goto, RequestTypes, RequestUses
  <2> QED
    BY <1>0, <1>10, <2>1, RequestReleases DEF TrpWaitEnds
<1>11. CASE TrpFree(r)
  <2>1. \A t \in TIds : RequestUses(r, t)' => RequestUses(r, t)
    BY <1>0, <1>11 DEF TrpFree, Goto, RequestTypes, RequestUses
  <2> QED
    BY <1>0, <1>11, <2>1, RequestReleases DEF TrpFree
<1>12. CASE InsertSupi(r)
  BY <1>12, InsertEntry
<1>13. CASE PostUe(r) \/ PostNonUe(r)
  BY <1>13, PostEntry
<1>14. CASE TrpInfoDone(r) \/ TrpInfoFails(r)
  BY <1>14, TrpErasesEntry
<1> QED
  BY <1>4, <1>5, <1>6, <1>7, <1>8, <1>9, <1>10, <1>11, <1>12, <1>13, <1>14
     DEF RequestStep

(* A notification thread that goes on, takes an answer or is done.         *)
LEMMA HandlerReleases ==
  ASSUME EntryInv, NEW h \in Handlers, OnlyOfHandler(h),
         UNCHANGED <<pc, phase, tId, nrppaTxnId2supi>>, net' \subseteq net,
         hpc'[h] \in Unserved \cup {"erase", "free", "unmap"} /\ hmsg'[h].proc = "Meas" =>
           \/ hpc[h] \in Unserved \cup {"erase", "free", "unmap"} /\ hmsg'[h] = hmsg[h]
           \/ hmsg'[h] \in net,
         hpc'[h] = "unmap" => hmsg'[h].proc = "Meas"
  PROVE  EntryInv'
<1>1. ASSUME NEW q \in Requests, NEW t \in TIds, UsesEntry(q, t)'
      PROVE  UsesEntry(q, t)
  <2>1. RequestUses(q, t)' => RequestUses(q, t)
    BY DEF RequestUses
  <2>2. AnswerUses(q, t)' => AnswerUses(q, t)
    BY DEF AnswerUses
  <2>3. ASSUME HandlerUses(q, t)' PROVE HandlerUses(q, t) \/ AnswerUses(q, t)
    <3>1. PICK g \in Handlers :
            /\ hpc'[g] \in Unserved \cup {"erase", "free", "unmap"}
            /\ hmsg'[g].req = q /\ hmsg'[g].tid = t /\ hmsg'[g].proc = "Meas"
      BY <2>3 DEF HandlerUses
    <3>2. CASE g = h
      BY <3>1, <3>2 DEF HandlerUses, AnswerUses
    <3>3. CASE g # h
      BY <3>1, <3>3 DEF HandlerUses, OnlyOfHandler
    <3> QED
      BY <3>2, <3>3
  <2> QED
    BY <1>1, <2>1, <2>2, <2>3 DEF UsesEntry
<1>2. \A g \in Handlers : hpc'[g] = "unmap" => hmsg'[g].proc = "Meas"
  BY DEF EntryInv, OnlyOfHandler
<1> QED
  BY <1>1, <1>2, EntriesStay

(* The thread that erases the entry of a measurement is the last to need   *)
(* it.                                                                     *)
LEMMA UnmapEntry ==
  ASSUME IInv, EntryInv, NEW h \in Handlers, UnmapTxn(h)
  PROVE  EntryInv'
<1> DEFINE r == hmsg[h].req
           t == hmsg[h].tid
<1>1. /\ hpc[h] = "unmap" /\ hpc'[h] = "dispatch" /\ OnlyOfHandler(h)
      /\ UNCHANGED <<pc, phase, tId, net, hmsg>>
      /\ nrppaTxnId2supi' = [nrppaTxnId2supi EXCEPT ![t] = None]
  BY HandlersTyped
     DEF UnmapTxn, HGoto, HandlerTypes, OnlyOfHandler, reqVars, locals, amfVars
<1>2. hmsg[h].proc = "Meas"
  BY <1>1 DEF EntryInv
<1>3. hpc[h] \in Served /\ hproc[h] = "Meas"
  BY <1>1, <1>2 DEF IInv, HandlerInv, HandlerOk, Served
<1>4. /\ r \in Requests /\ t \in TIds /\ Current(hmsg[h])
      /\ \A m \in net : m.req = r => m.proc \notin Awaited
      /\ \A g \in Handlers : g # h /\ hpc[g] # "idle" /\ hmsg[g].req = r
           => hmsg[g].proc \notin Awaited
  BY <1>3, ServedFacts DEF Awaited
<1>5. UsesEntry(r, t)
  BY <1>1, <1>2 DEF UsesEntry, HandlerUses
<1>6. \A u \in TIds : u # t => nrppaTxnId2supi'[u] = nrppaTxnId2supi[u]
  BY <1>1 DEF IInv, TypeOK
<1>7. ASSUME NEW q \in Requests, NEW u \in TIds, UsesEntry(q, u)'
      PROVE  UsesEntry(q, u) /\ u # t
  <2>1. RequestUses(q, u)' => RequestUses(q, u)
    BY <1>1 DEF RequestUses
  <2>2. AnswerUses(q, u)' => AnswerUses(q, u)
    BY <1>1 DEF AnswerUses
  <2>3. HandlerUses(q, u)' => HandlerUses(q, u) /\ q # r
    <3>1. SUFFICES ASSUME HandlerUses(q, u)' PROVE HandlerUses(q, u) /\ q # r
      OBVIOUS
    <3>2. PICK g \in Handlers :
            /\ hpc'[g] \in Unserved \cup {"erase", "free", "unmap"}
            /\ hmsg'[g].req = q /\ hmsg'[g].tid = u /\ hmsg'[g].proc = "Meas"
      BY <3>1 DEF HandlerUses
    <3>3. g # h /\ hpc'[g] = hpc[g] /\ hmsg'[g] = hmsg[g]
      BY <1>1, <3>2 DEF OnlyOfHandler, Unserved
    <3>4. hmsg[g].proc \in Awaited /\ hpc[g] # "idle"
      BY <3>2, <3>3 DEF Awaited, Unserved
    <3> QED
      BY <1>4, <3>2, <3>3, <3>4 DEF HandlerUses
  <2>4. UsesEntry(q, u)
    BY <1>7, <2>1, <2>2, <2>3 DEF UsesEntry
  <2>5. q # r
    <3>1. ~RequestUses(r, u)
      BY <1>2, <1>4 DEF RequestUses, Current, NonUe
    <3>2. ~AnswerUses(r, u)
      BY <1>4 DEF AnswerUses, Awaited
    <3> QED
      BY <1>7, <2>1, <2>2, <2>3, <3>1, <3>2 DEF UsesEntry
  <2>6. u # t
    BY <1>4, <1>5, <2>4, <2>5 DEF EntryInv
  <2> QED
    BY <2>4, <2>6
<1>8. \A g \in Handlers : hpc'[g] = "unmap" => hmsg'[g].proc = "Meas"
  BY <1>1 DEF EntryInv, OnlyOfHandler
<1>9. ASSUME NEW q \in Requests, NEW u \in TIds, UsesEntry(q, u)'
      PROVE  /\ nrppaTxnId2supi'[u] = SupiOf[q]
             /\ \A p \in Requests : UsesEntry(p, u)' => p = q
  BY <1>6, <1>7, <1>9 DEF EntryInv
<1> QED
  BY <1>8, <1>9 DEF EntryInv

(* Every step of a notification thread preserves EntryInv.                 *)
LEMMA HandlerEntries ==
  ASSUME IInv, EntryInv, NEW h \in Handlers, HandlerStep(h)
  PROVE  EntryInv'
<1> USE DEF appVars, trpVars, ctxVars, locals, reqVars, amfVars
<1>0. HandlerTypes
  BY HandlersTyped
<1>1. ASSUME Return(h), UNCHANGED <<reqVars, nrppaTxnId2supi, net>> PROVE EntryInv'
  <2>1. hpc'[h] = "idle" /\ OnlyOfHandler(h)
    BY <1>0, <1>1 DEF Return, HandlerTypes, OnlyOfHandler
  <2> QED
    BY <1>1, <2>1, HandlerReleases DEF Unserved
<1>2. ASSUME NEW l \in HandlerLabels, HGoto(h, l), OnlyOfHandler(h),
             hpc[h] \in Unserved \cup {"erase", "free", "unmap"}, hmsg' = hmsg,
             l = "unmap" => hmsg[h].proc = "Meas",
             UNCHANGED <<reqVars, nrppaTxnId2supi, net>>
      PROVE  EntryInv'
  <2>1. hpc'[h] = l
    BY <1>0, <1>2 DEF HGoto, HandlerTypes
  <2> QED
    BY <1>2, <2>1, HandlerReleases
<1>3. ASSUME NEW m \in net, ReceiveUe(h, m) PROVE EntryInv'
  <2>1. /\ OnlyOfHandler(h) /\ hpc'[h] = "context" /\ hmsg'[h] = m
        /\ net' \subseteq net /\ m.proc \notin NonUe
    BY <1>0, <1>3 DEF ReceiveUe, Take, HGoto, HandlerTypes, OnlyOfHandler
  <2> QED
    BY <1>3, <2>1, HandlerReleases DEF ReceiveUe
<1>4. ASSUME NEW m \in net, ReceiveNonUe(h, m) PROVE EntryInv'
  <2>1. /\ OnlyOfHandler(h) /\ hpc'[h] = "lookup" /\ hmsg'[h] = m
        /\ net' \subseteq net
    BY <1>0, <1>4 DEF ReceiveNonUe, Take, HGoto, HandlerTypes, OnlyOfHandler
  <2> QED
    BY <1>4, <2>1, HandlerReleases DEF ReceiveNonUe
<1>5. CASE LookupSupi(h)
  <2>1. OnlyOfHandler(h)
    BY <1>0, <1>5 DEF LookupSupi, HGoto, HandlerTypes, OnlyOfHandler
  <2> QED
    BY <1>2, <1>5, <2>1 DEF LookupSupi, HandlerLabels, Unserved
<1>6. CASE FindContext(h)
  <2>1. OnlyOfHandler(h)
    BY <1>0, <1>6 DEF FindContext, HGoto, HandlerTypes, OnlyOfHandler
  <2> QED
    BY <1>2, <1>6, <2>1 DEF FindContext, HandlerLabels, Unserved
<1>7. CASE CheckPending(h)
  <2>1. OnlyOfHandler(h)
    BY <1>0, <1>7 DEF CheckPending, HGoto, HandlerTypes, OnlyOfHandler
  <2>2. \E l \in {"dispatch", "erase"} : HGoto(h, l)
    BY <1>7 DEF CheckPending
  <2> QED
    BY <1>2, <1>7, <2>1, <2>2 DEF CheckPending, HandlerLabels, Unserved
<1>8. CASE EraseTxn(h)
  <2>1. OnlyOfHandler(h) /\ hpc'[h] = "free"
    BY <1>0, <1>8 DEF EraseTxn, HGoto, HandlerTypes, OnlyOfHandler
  <2> QED
    BY <1>8, <2>1, HandlerReleases DEF EraseTxn
<1>9. CASE FreeTxn(h)
  <2>1. OnlyOfHandler(h) /\ hpc[h] = "free"
    BY <1>0, <1>9 DEF FreeTxn, HGoto, HandlerTypes, OnlyOfHandler
  <2>2. hproc[h] = hmsg[h].proc
    BY <2>1 DEF IInv, HandlerInv, HandlerOk, Served
  <2>3. HGoto(h, IF hproc[h] = "Meas" THEN "unmap" ELSE "dispatch")
    BY <1>9 DEF FreeTxn
  <2> QED
    BY <1>2, <1>9, <2>1, <2>2, <2>3 DEF FreeTxn, HandlerLabels
<1>10. CASE UnmapTxn(h)
  BY <1>10, UnmapEntry
<1>11. CASE UnknownId(h) \/ UnknownSupi(h) \/ UnknownTransaction(h) \/ UnmappedTwice(h)
            \/ RejectMismatch(h) \/ DeliverTrp(h) \/ DeliverAnswer(h)
  BY <1>1, <1>11 DEF UnknownId, UnknownSupi, UnknownTransaction, UnmappedTwice,
                     RejectMismatch, DeliverTrp, DeliverAnswer
<1> QED
  BY <1>3, <1>4, <1>5, <1>6, <1>7, <1>8, <1>9, <1>10, <1>11 DEF HandlerStep

-----------------------------------------------------------------------------
(* What a request has pending *)

(* A request that has nothing pending, or is waiting no longer.            *)
NothingPending(r) == \A t \in TIds : nrppa_tId[r][t] = None

LEMMA OthersHeld ==
  ASSUME HeldInv, NEW r \in Requests, OnlyOf(r), HeldOk(r)'
  PROVE  \A q \in Requests : HeldOk(q)'
BY DEF HeldInv, HeldOk, OnlyOf

(* A request's step that moves no id in a table.                           *)
LEMMA HeldStays ==
  ASSUME HeldInv, NEW r \in Requests, OnlyOf(r), HeldOk(r)',
         UNCHANGED <<hpc, hmsg, nrppa_tId>>
  PROVE  HeldInv'
<1>1. \A q \in Requests : HeldOk(q)'
  BY OthersHeld
<1>2. \A h \in Handlers :
        hpc'[h] \in Served \ {"erase"} /\ hmsg'[h].proc \in Awaited
          => nrppa_tId'[hmsg'[h].req][hmsg'[h].tid] = None
  BY DEF HeldInv
<1> QED
  BY <1>1, <1>2 DEF HeldInv

(* The id enters the table of the context, which held no other.            *)
LEMMA RegisterHeld ==
  ASSUME IInv, HeldInv, NEW r \in Requests, RegisterPending(r)
  PROVE  HeldInv'
<1>1. RequestTypes /\ OnlyOf(r) /\ UNCHANGED <<hpc, hmsg>>
  BY RequestTyped, RegisterIsQuiet DEF Quiet
<1>2. pc[r] = "register" /\ tId[r] \in TIds /\ phase[r] \in Procs /\ phase[r] # None
  BY <1>1, NoneAssumption DEF RegisterPending, RequestTypes, OwnIdLabels
<1>3. \A t \in TIds : nrppa_tId[r][t] = None
  BY <1>2 DEF HeldInv, HeldOk
<1>4. /\ response' = [response EXCEPT ![r] =
                        [p \in Awaited |-> IF p = phase[r] THEN None ELSE @[p]]]
      /\ nrppa_tId' = [nrppa_tId EXCEPT ![r][tId[r]] = phase[r]]
      /\ pc' = [pc EXCEPT ![r] = IF phase[r] \in NonUe THEN "insert" ELSE "post"]
      /\ UNCHANGED <<phase, tId>>
  BY <1>2, <1>3 DEF RegisterPending, Goto, locals
<1>5. /\ pc'[r] \in {"insert", "post"} /\ nrppa_tId'[r][tId[r]] = phase[r]
      /\ \A t \in TIds : t # tId[r] => nrppa_tId'[r][t] = None
      /\ phase[r] \in Awaited => response'[r][phase[r]] = None
  BY <1>1, <1>2, <1>3, <1>4 DEF RequestTypes
<1>6. HeldOk(r)'
  BY <1>4, <1>5 DEF HeldOk
<1>7. ASSUME NEW h \in Handlers, hpc'[h] \in Served \ {"erase"}, hmsg'[h].proc \in Awaited
      PROVE  nrppa_tId'[hmsg'[h].req][hmsg'[h].tid] = None
  <2>1. hpc[h] \in Served \ {"erase"} /\ hmsg[h].proc \in Awaited /\ hmsg'[h] = hmsg[h]
    BY <1>1, <1>7
  <2>2. Active(h) /\ hpc[h] # "idle"
    BY <2>1 DEF Active, Served
  <2>3. hmsg[h].req # r /\ hmsg[h].req \in Requests
    BY <1>2, <2>2, NotCarried, HandlerTyped DEF Carried
  <2> QED
    BY <1>1, <2>1, <2>3 DEF HeldInv, OnlyOf
<1> QED
  BY <1>1, <1>6, <1>7, OthersHeld DEF HeldInv

(* The id leaves the table.                                                *)
LEMMA EraseHeld ==
  ASSUME IInv, HeldInv, NEW r \in Requests, PostRefused(r) \/ TrpWaitEnds(r)
  PROVE  HeldInv'
<1>1. /\ RequestTypes /\ OnlyOf(r)
      /\ UNCHANGED <<hpc, hmsg>>
  BY RequestTyped, RequestWrites DEF RequestStep
<1>2. /\ pc[r] \in {"post", "wait"} /\ pc'[r] \in {"refused", "trpFree"}
      /\ tId[r] \in TIds
      /\ nrppa_tId' = [nrppa_tId EXCEPT ![r][tId[r]] = None]
  BY <1>1 DEF PostRefused, TrpWaitEnds, ErasePending, Goto, RequestTypes, OwnIdLabels
<1>3. /\ nrppa_tId'[r][tId[r]] = None
      /\ \A q \in Requests : \A t \in TIds :
           q # r \/ t # tId[r] => nrppa_tId'[q][t] = nrppa_tId[q][t]
  BY <1>1, <1>2 DEF RequestTypes
<1>4. \A t \in TIds : nrppa_tId'[r][t] = None
  BY <1>2, <1>3 DEF HeldInv, HeldOk
<1>5. HeldOk(r)'
  BY <1>4 DEF HeldOk
<1>6. ASSUME NEW h \in Handlers, hpc[h] \in Served \ {"erase"}, hmsg[h].proc \in Awaited
      PROVE  nrppa_tId'[hmsg[h].req][hmsg[h].tid] = None
  <2>1. hmsg[h].req \in Requests /\ hmsg[h].tid \in TIds
    BY <1>6, HandlerTyped DEF Served
  <2> QED
    BY <1>3, <1>6, <2>1 DEF HeldInv
<1> QED
  BY <1>1, <1>5, <1>6, OthersHeld DEF HeldInv

(* Every step of a request thread preserves HeldInv.                       *)
LEMMA RequestHeld ==
  ASSUME IInv, HeldInv, NEW r \in Requests, RequestStep(r)
  PROVE  HeldInv'
<1> USE DEF appVars, trpVars, ctxVars, locals, hVars, amfVars
<1>0. /\ RequestTypes /\ OnlyOf(r) /\ UNCHANGED <<hpc, hmsg>> /\ HeldOk(r)
  BY RequestTyped, RequestWrites DEF HeldInv
<1>1. ASSUME NothingPending(r), UNCHANGED nrppa_tId
      PROVE  HeldInv'
  <2>1. HeldOk(r)'
    BY <1>1 DEF NothingPending, HeldOk
  <2> QED
    BY <1>0, <1>1, <2>1, HeldStays
<1>2. pc[r] \notin {"insert", "post", "reply", "wait", "failed"} => NothingPending(r)
  BY <1>0 DEF NothingPending, HeldOk
<1>3. HasAnswer(r) => NothingPending(r)
  BY <1>0 DEF HasAnswer, NothingPending, HeldOk
<1>4. ASSUME Throw(r), UNCHANGED nrppa_tId
      PROVE  HeldInv'
  <2>1. pc'[r] = "failed"
    BY <1>0, <1>4 DEF Throw, Leave, Goto, RequestTypes
  <2>2. HeldOk(r)'
    BY <1>0, <1>4, <2>1 DEF HeldOk
  <2> QED
    BY <1>0, <1>4, <2>2, HeldStays
<1>5. ASSUME UNCHANGED <<nrppa_tId, response, phase, tId>>,
             pc[r] \in {"insert", "post", "reply"}, pc'[r] \in {"post", "reply", "wait"}
      PROVE  HeldInv'
  <2>1. HeldOk(r)'
    BY <1>0, <1>5 DEF HeldOk
  <2> QED
    BY <1>0, <1>5, <2>1, HeldStays
<1>6. CASE CreateContext(r) \/ TrpInfoKnown(r) \/ TrpInfoRequest(r) \/ GetUid(r)
  BY <1>1, <1>2, <1>6 DEF CreateContext, TrpInfoKnown, TrpInfoRequest, GetUid
<1>7. CASE FreeRefused(r) \/ TrpFree(r)
  BY <1>1, <1>2, <1>7 DEF FreeRefused, TrpFree
<1>8. CASE RegisterPending(r)
  BY <1>8, RegisterHeld
<1>9. CASE InsertSupi(r) \/ PostUe(r) \/ PostNonUe(r) \/ ReplyInitiated(r)
  <2>1. pc[r] \in {"insert", "post", "reply"} /\ pc'[r] \in {"post", "reply", "wait"}
    BY <1>0, <1>9 DEF InsertSupi, PostUe, PostNonUe, ReplyInitiated, Goto, RequestTypes
  <2> QED
    BY <1>5, <1>9, <2>1 DEF InsertSupi, PostUe, PostNonUe, ReplyInitiated
<1>10. CASE InsertReuse(r) \/ ReplyUnreadable(r) \/ WaitTimeout(r)
  BY <1>4, <1>10 DEF InsertReuse, ReplyUnreadable, WaitTimeout
<1>11. CASE TrpInfoFails(r) \/ FailureTaken(r) \/ ComputeFails(r)
  BY <1>4, <1>11 DEF TrpInfoFails, FailureTaken, HasAnswer, ComputeFails
<1>12. CASE PostRefused(r) \/ TrpWaitEnds(r)
  BY <1>12, EraseHeld
<1>13. CASE TrpInfoDone(r) \/ Finish(r)
  BY <1>1, <1>2, <1>13 DEF TrpInfoDone, Finish
<1>14. CASE SrsConfigured(r) \/ NextGnb(r) \/ AllMeasured(r)
  <2>1. HasAnswer(r) /\ pc[r] = "wait"
    BY <1>14 DEF SrsConfigured, NextGnb, AllMeasured, HasAnswer
  <2> QED
    BY <1>1, <1>3, <1>14, <2>1 DEF SrsConfigured, NextGnb, AllMeasured
<1> QED
  BY <1>6, <1>7, <1>8, <1>9, <1>10, <1>11, <1>12, <1>13, <1>14 DEF RequestStep

(* A notification thread's step that moves no id.                          *)
LEMMA HandlerHolds ==
  ASSUME HeldInv, NEW h \in Handlers, OnlyOfHandler(h),
         UNCHANGED <<pc, phase, tId, response, nrppa_tId>>,
         hpc'[h] \in Served \ {"erase"} /\ hmsg'[h].proc \in Awaited =>
           hpc[h] \in Served \ {"erase"} /\ hmsg'[h] = hmsg[h]
  PROVE  HeldInv'
<1>1. \A r \in Requests : HeldOk(r)'
  BY DEF HeldInv, HeldOk
<1>2. ASSUME NEW g \in Handlers, hpc'[g] \in Served \ {"erase"}, hmsg'[g].proc \in Awaited
      PROVE  nrppa_tId'[hmsg'[g].req][hmsg'[g].tid] = None
  BY <1>2 DEF HeldInv, OnlyOfHandler
<1> QED
  BY <1>1, <1>2 DEF HeldInv

(* The id leaves the table of the context.                                 *)
LEMMA EraseTxnHeld ==
  ASSUME IInv, HeldInv, NEW h \in Handlers, EraseTxn(h)
  PROVE  HeldInv'
<1> DEFINE q0 == hmsg[h].req
           t0 == hmsg[h].tid
<1>1. hpc[h] = "erase" /\ hpc[h] \in Served /\ hproc[h] \in Awaited
  BY DEF EraseTxn, Served, IInv, HandlerInv, HandlerOk
<1>2. hctx[h] = q0 /\ q0 \in Requests /\ t0 \in TIds
  BY <1>1, ServedFacts
<1>3. /\ hpc'[h] = "free" /\ OnlyOfHandler(h)
      /\ UNCHANGED <<pc, phase, tId, response, hmsg>>
  BY HandlersTyped DEF EraseTxn, HandlerTypes, HGoto, OnlyOfHandler, reqVars, locals
<1>4. /\ nrppa_tId'[q0][t0] = None
      /\ \A q \in Requests : \A t \in TIds :
           q # q0 \/ t # t0 => nrppa_tId'[q][t] = nrppa_tId[q][t]
  <2>1. nrppa_tId' = [nrppa_tId EXCEPT ![q0][t0] = None]
    BY <1>2 DEF EraseTxn, ErasePending
  <2> QED
    BY <1>2, <2>1, RequestTyped DEF RequestTypes
<1>5. \A q \in Requests : \A t \in TIds :
        nrppa_tId'[q][t] # None => nrppa_tId[q][t] # None
  BY <1>4
<1>6. ASSUME NEW q \in Requests PROVE HeldOk(q)'
  <2>1. HeldOk(q)
    BY DEF HeldInv
  <2> QED
    BY <1>3, <1>5, <2>1 DEF HeldOk
<1>7. ASSUME NEW g \in Handlers, hpc'[g] \in Served \ {"erase"}, hmsg'[g].proc \in Awaited
      PROVE  nrppa_tId'[hmsg'[g].req][hmsg'[g].tid] = None
  <2>1. CASE g = h
    BY <1>3, <1>4, <2>1
  <2>2. CASE g # h
    <3>1. hpc[g] \in Served \ {"erase"} /\ hmsg[g].proc \in Awaited /\ hmsg'[g] = hmsg[g]
      BY <1>3, <1>7, <2>2 DEF OnlyOfHandler
    <3>2. hmsg[g].req \in Requests /\ hmsg[g].tid \in TIds
      BY <3>1, HandlerTyped DEF Served
    <3> QED
      BY <1>5, <3>1, <3>2 DEF HeldInv
  <2> QED
    BY <2>1, <2>2
<1> QED
  BY <1>6, <1>7 DEF HeldInv

(* The thread gives the id back.                                           *)
LEMMA FreeTxnHeld ==
  ASSUME IInv, HeldInv, NEW h \in Handlers, FreeTxn(h)
  PROVE  HeldInv'
<1>1. /\ hpc[h] = "free" /\ hpc'[h] \in {"unmap", "dispatch"} /\ OnlyOfHandler(h)
      /\ UNCHANGED <<pc, phase, tId, response, nrppa_tId, hmsg>>
  BY HandlersTyped DEF FreeTxn, HandlerTypes, HGoto, OnlyOfHandler, ctxVars,
                       reqVars, locals
<1>2. \A r \in Requests : HeldOk(r)'
  BY <1>1 DEF HeldInv, HeldOk
<1>3. ASSUME NEW g \in Handlers, hpc'[g] \in Served \ {"erase"}, hmsg'[g].proc \in Awaited
      PROVE  nrppa_tId'[hmsg'[g].req][hmsg'[g].tid] = None
  <2>1. hpc[g] \in Served \ {"erase"}
    BY <1>1, <1>3 DEF Served, OnlyOfHandler
  <2> QED
    BY <1>1, <1>3, <2>1 DEF HeldInv
<1> QED
  BY <1>2, <1>3 DEF HeldInv

(* The promise is set: nothing is pending under the id it was awaited for. *)
LEMMA DeliverHeld ==
  ASSUME IInv, HeldInv, NEW h \in Handlers, DeliverAnswer(h)
  PROVE  HeldInv'
<1> DEFINE m == hmsg[h]
<1>1. hpc[h] = "dispatch" /\ hpc[h] \in Served \ {"erase"} /\ hproc[h] \in Awaited
  BY DEF DeliverAnswer, Served
<1>2. /\ hctx[h] = m.req /\ hproc[h] = m.proc /\ m.req \in Requests /\ m.tid \in TIds
      /\ Current(m)
  BY <1>1, ServedFacts
<1>3. nrppa_tId[m.req][m.tid] = None
  BY <1>1, <1>2 DEF HeldInv
<1>4. /\ hpc'[h] = "idle" /\ OnlyOfHandler(h)
      /\ UNCHANGED <<pc, phase, tId, nrppa_tId>>
  BY HandlersTyped DEF DeliverAnswer, Return, HandlerTypes, OnlyOfHandler, reqVars, locals
<1>5. \A r \in Requests : r # m.req => response'[r] = response[r]
  BY <1>2, RequestTyped DEF DeliverAnswer, RequestTypes
<1>6. ASSUME NEW r \in Requests PROVE HeldOk(r)'
  <2>1. HeldOk(r)
    BY DEF HeldInv
  <2>2. CASE r # m.req
    BY <1>4, <1>5, <2>1, <2>2 DEF HeldOk
  <2>3. CASE r = m.req
    <3>1. ASSUME NEW t \in TIds, nrppa_tId[r][t] # None, pc[r] # "failed" PROVE FALSE
      <4>1. tId[r] = t /\ t # m.tid
        BY <1>3, <2>1, <2>3, <3>1 DEF HeldOk
      <4> QED
        BY <1>2, <2>3, <3>1, <4>1 DEF Current
    <3> QED
      BY <1>4, <2>1, <3>1 DEF HeldOk
  <2> QED
    BY <2>2, <2>3
<1>7. \A g \in Handlers :
        hpc'[g] \in Served \ {"erase"} /\ hmsg'[g].proc \in Awaited
          => nrppa_tId'[hmsg'[g].req][hmsg'[g].tid] = None
  BY <1>4 DEF HeldInv, OnlyOfHandler, Served
<1> QED
  BY <1>6, <1>7 DEF HeldInv

(* Every step of a notification thread preserves HeldInv.                  *)
LEMMA HandlerHeld ==
  ASSUME IInv, IInv', HeldInv, NEW h \in Handlers, HandlerStep(h)
  PROVE  HeldInv'
<1> USE DEF appVars, trpVars, ctxVars, locals, reqVars, amfVars
<1>0. HandlerTypes
  BY HandlersTyped
<1>1. ASSUME Return(h), UNCHANGED <<reqVars, ctxVars>>
      PROVE  HeldInv'
  <2>1. hpc'[h] = "idle" /\ OnlyOfHandler(h)
    BY <1>0, <1>1 DEF Return, HandlerTypes, OnlyOfHandler
  <2> QED
    BY <1>1, <2>1, HandlerHolds DEF Served
<1>2. ASSUME OnlyOfHandler(h),
             hpc'[h] \notin Served \/ hpc'[h] = "erase",
             UNCHANGED <<reqVars, ctxVars>>
      PROVE  HeldInv'
  BY <1>2, HandlerHolds
<1>3. CASE \E m \in net : ReceiveUe(h, m) \/ ReceiveNonUe(h, m)
  <2>1. /\ OnlyOfHandler(h) /\ hpc'[h] \notin Served
        /\ UNCHANGED <<reqVars, ctxVars>>
    BY <1>0, <1>3 DEF ReceiveUe, ReceiveNonUe, HGoto, HandlerTypes, OnlyOfHandler, Served
  <2> QED
    BY <1>2, <2>1
<1>4. CASE LookupSupi(h) \/ FindContext(h)
  <2>1. /\ OnlyOfHandler(h) /\ hpc'[h] \notin Served
        /\ UNCHANGED <<reqVars, ctxVars>>
    BY <1>0, <1>4 DEF LookupSupi, FindContext, HGoto, HandlerTypes, OnlyOfHandler, Served
  <2> QED
    BY <1>2, <2>1
<1>5. CASE CheckPending(h)
  <2>1. /\ OnlyOfHandler(h) /\ hpc[h] = "check"
        /\ hpc'[h] = IF Pending(h) = "TRP" THEN "dispatch" ELSE "erase"
        /\ hproc'[h] = Pending(h)
        /\ UNCHANGED <<reqVars, ctxVars, hmsg>>
    BY <1>0, <1>5 DEF CheckPending, HGoto, HandlerTypes, OnlyOfHandler
  <2>2. hpc'[h] \in Served
    BY <2>1 DEF Served
  <2>3. hmsg'[h].proc = Pending(h)
    BY <2>1, <2>2 DEF IInv, HandlerInv, HandlerOk
  <2> QED
    BY <2>1, <2>3, HandlerHolds DEF Awaited
<1>6. CASE EraseTxn(h)
  BY <1>6, EraseTxnHeld
<1>7. CASE FreeTxn(h)
  BY <1>7, FreeTxnHeld
<1>8. CASE UnmapTxn(h)
  <2>1. /\ OnlyOfHandler(h) /\ hpc[h] = "unmap" /\ hpc'[h] = "dispatch"
        /\ UNCHANGED <<reqVars, ctxVars, hmsg>>
    BY <1>0, <1>8 DEF UnmapTxn, HGoto, HandlerTypes, OnlyOfHandler
  <2> QED
    BY <2>1, HandlerHolds DEF Served
<1>9. CASE UnknownId(h) \/ UnknownSupi(h) \/ UnknownTransaction(h)
  BY <1>1, <1>9 DEF UnknownId, UnknownSupi, UnknownTransaction
<1>10. CASE UnmappedTwice(h) \/ RejectMismatch(h) \/ DeliverTrp(h)
  BY <1>1, <1>10 DEF UnmappedTwice, RejectMismatch, DeliverTrp
<1>11. CASE DeliverAnswer(h)
  BY <1>11, DeliverHeld
<1> QED
  BY <1>3, <1>4, <1>5, <1>6, <1>7, <1>8, <1>9, <1>10, <1>11 DEF HandlerStep

-----------------------------------------------------------------------------
(* Who may have left an entry of nrppaTxnId2supi *)

(* A step that adds no entry, after which those who may have left one      *)
(* still may.                                                              *)
LEMMA LeftStays ==
  ASSUME LeftInv,
         \A t \in TIds : nrppaTxnId2supi'[t] \in {None, nrppaTxnId2supi[t]},
         \A q \in Requests : \A t \in TIds :
           nrppaTxnId2supi'[t] # None /\ MayLeave(q, t) => MayLeave(q, t)',
         \A q \in Requests : pc'[q] = "insert" => phase'[q] \in NonUe
  PROVE  LeftInv'
BY DEF LeftInv

LEMMA OthersLeft ==
  ASSUME NEW r \in Requests, OnlyOf(r), UNCHANGED <<hpc, hmsg>>,
         NEW q \in Requests, q # r, NEW t, MayLeave(q, t)
  PROVE  MayLeave(q, t)'
BY DEF OnlyOf, MayLeave, Unanswered

(* The entry is new, and its measurement unanswered.                       *)
LEMMA InsertLeft ==
  ASSUME IInv, LeftInv, NEW r \in Requests, InsertSupi(r)
  PROVE  LeftInv'
<1>1. /\ OnlyOf(r) /\ UNCHANGED <<hpc, hmsg, tId, phase, response>>
      /\ pc[r] = "insert" /\ pc'[r] = "post" /\ tId[r] \in TIds
      /\ nrppaTxnId2supi' = [nrppaTxnId2supi EXCEPT ![tId[r]] = SupiOf[r]]
  BY RequestTyped, RequestWrites
     DEF RequestStep, InsertSupi, Goto, RequestTypes, OwnIdLabels, locals, ctxVars
<1>2. /\ nrppaTxnId2supi'[tId[r]] = SupiOf[r]
      /\ \A t \in TIds : t # tId[r] => nrppaTxnId2supi'[t] = nrppaTxnId2supi[t]
  BY <1>1 DEF IInv, TypeOK
<1>3. phase[r] \in NonUe
  BY <1>1 DEF LeftInv
<1>4. ASSUME phase[r] = "Meas" PROVE Unanswered(r)'
  <2>1. response[r]["Meas"] = None
    BY <1>1, <1>4 DEF IInv, RequestInv, RequestOk, Awaited
  <2>2. ASSUME NEW h \in Handlers, hpc[h] = "dispatch", hmsg[h].proc = "Meas"
        PROVE  hmsg[h].req # r
    <3>1. Active(h)
      BY <2>2 DEF Active, Served, Awaited
    <3> QED
      BY <1>1, <3>1, NotCarried DEF Carried
  <2> QED
    BY <1>1, <2>1, <2>2 DEF Unanswered
<1>5. MayLeave(r, tId[r])'
  BY <1>1, <1>3, <1>4 DEF MayLeave
<1>6. ASSUME NEW t \in TIds, nrppaTxnId2supi'[t] # None
      PROVE  \E q \in Requests : SupiOf[q] = nrppaTxnId2supi'[t] /\ MayLeave(q, t)'
  <2>1. CASE t = tId[r]
    BY <1>1, <1>2, <1>5, <2>1
  <2>2. CASE t # tId[r]
    <3>1. PICK q \in Requests : SupiOf[q] = nrppaTxnId2supi[t] /\ MayLeave(q, t)
      BY <1>2, <1>6, <2>2 DEF LeftInv
    <3>2. q # r
      BY <1>1, <3>1 DEF MayLeave
    <3> QED
      BY <1>1, <1>2, <2>2, <3>1, <3>2, OthersLeft
  <2> QED
    BY <2>1, <2>2
<1>7. \A q \in Requests : pc'[q] = "insert" => phase'[q] \in NonUe
  BY <1>1 DEF LeftInv, OnlyOf
<1> QED
  BY <1>6, <1>7 DEF LeftInv

(* Every step of a request thread preserves LeftInv.                       *)
LEMMA RequestLeft ==
  ASSUME IInv, LeftInv, NEW r \in Requests, RequestStep(r)
  PROVE  LeftInv'
<1> USE DEF appVars, trpVars, ctxVars, locals, hVars, amfVars
<1>0. RequestTypes /\ OnlyOf(r) /\ UNCHANGED <<hpc, hmsg>>
  BY RequestTyped, RequestWrites
<1>1. ASSUME \A t \in TIds : nrppaTxnId2supi'[t] \in {None, nrppaTxnId2supi[t]},
             \A t \in TIds :
               nrppaTxnId2supi'[t] # None /\ MayLeave(r, t) => MayLeave(r, t)',
             pc'[r] = "insert" => phase'[r] \in NonUe
      PROVE  LeftInv'
  <2>1. \A q \in Requests : \A t \in TIds :
          nrppaTxnId2supi'[t] # None /\ MayLeave(q, t) => MayLeave(q, t)'
    BY <1>0, <1>1, OthersLeft
  <2>2. \A q \in Requests : pc'[q] = "insert" => phase'[q] \in NonUe
    BY <1>0, <1>1 DEF LeftInv, OnlyOf
  <2> QED
    BY <1>1, <2>1, <2>2, LeftStays
<1>2. ASSUME Throw(r), UNCHANGED nrppaTxnId2supi PROVE LeftInv'
  <2>1. pc'[r] = "failed"
    BY <1>0, <1>2 DEF Throw, Leave, Goto, RequestTypes
  <2> QED
    BY <1>1, <1>2, <2>1 DEF MayLeave
<1>3. ASSUME UNCHANGED nrppaTxnId2supi, \A t \in TIds : ~MayLeave(r, t),
             pc'[r] = "insert" => phase'[r] \in NonUe
      PROVE  LeftInv'
  BY <1>1, <1>3
<1>4. ASSUME UNCHANGED <<nrppaTxnId2supi, phase, tId, response>>,
             pc[r] \in {"post", "reply", "wait", "trpFree"},
             pc'[r] \in {"refused", "reply", "wait", "trpFree", "trpErase"}
      PROVE  LeftInv'
  <2>1. \A t \in TIds : MayLeave(r, t) => MayLeave(r, t)'
    BY <1>0, <1>4 DEF MayLeave, Unanswered
  <2> QED
    BY <1>1, <1>4, <2>1
<1>5. CASE CreateContext(r) \/ TrpInfoKnown(r) \/ TrpInfoRequest(r) \/ GetUid(r) \/ Finish(r)
  <2>1. \A t \in TIds : ~MayLeave(r, t)
    BY <1>5 DEF CreateContext, TrpInfoKnown, TrpInfoRequest, GetUid, Finish, MayLeave
  <2>2. UNCHANGED nrppaTxnId2supi /\ pc'[r] # "insert"
    BY <1>0, <1>5 DEF CreateContext, TrpInfoKnown, TrpInfoRequest, GetUid, Finish, Goto,
                      Leave, RequestTypes
  <2> QED
    BY <1>3, <2>1, <2>2
<1>6. CASE RegisterPending(r)
  <2>1. nrppa_tId[r][tId[r]] = None
    BY <1>6 DEF RegisterPending, IInv, RequestInv, RequestOk
  <2>2. /\ pc' = [pc EXCEPT ![r] = IF phase[r] \in NonUe THEN "insert" ELSE "post"]
        /\ UNCHANGED <<phase, nrppaTxnId2supi>>
    BY <1>6, <2>1 DEF RegisterPending, Goto
  <2>3. pc'[r] = "insert" => phase'[r] \in NonUe
    BY <1>0, <2>2 DEF RequestTypes
  <2>4. \A t \in TIds : ~MayLeave(r, t)
    BY <1>6 DEF RegisterPending, MayLeave
  <2> QED
    BY <1>3, <2>2, <2>3, <2>4
<1>7. CASE InsertSupi(r)
  BY <1>7, InsertLeft
<1>8. CASE PostUe(r) \/ PostNonUe(r) \/ PostRefused(r) \/ ReplyInitiated(r)
  <2>1. /\ pc[r] \in {"post", "reply"} /\ pc'[r] \in {"reply", "refused", "wait"}
        /\ UNCHANGED <<nrppaTxnId2supi, phase, tId, response>>
    BY <1>0, <1>8 DEF PostUe, PostNonUe, PostRefused, ReplyInitiated, Goto, RequestTypes
  <2> QED
    BY <1>4, <2>1
<1>9. CASE TrpWaitEnds(r) \/ TrpFree(r)
  <2>1. /\ pc[r] \in {"wait", "trpFree"} /\ pc'[r] \in {"trpFree", "trpErase"}
        /\ UNCHANGED <<nrppaTxnId2supi, phase, tId, response>>
    BY <1>0, <1>9 DEF TrpWaitEnds, TrpFree, Goto, RequestTypes
  <2> QED
    BY <1>4, <2>1
<1>10. CASE TrpInfoDone(r) \/ TrpInfoFails(r)
  <2>1. /\ pc[r] = "trpErase" /\ pc'[r] # "insert" /\ tId[r] \in TIds
        /\ nrppaTxnId2supi' = [nrppaTxnId2supi EXCEPT ![tId[r]] = None]
    BY <1>0, <1>10 DEF TrpInfoDone, TrpInfoFails, Goto, Throw, Leave, RequestTypes,
                       OwnIdLabels
  <2>2. /\ nrppaTxnId2supi'[tId[r]] = None
        /\ \A t \in TIds : t # tId[r] => nrppaTxnId2supi'[t] = nrppaTxnId2supi[t]
    BY <2>1 DEF IInv, TypeOK
  <2>3. \A t \in TIds : MayLeave(r, t) => t = tId[r]
    BY <2>1 DEF MayLeave
  <2> QED
    BY <1>1, <2>1, <2>2, <2>3
<1>11. CASE InsertReuse(r) \/ ReplyUnreadable(r) \/ FreeRefused(r)
  BY <1>2, <1>11 DEF InsertReuse, ReplyUnreadable, FreeRefused
<1>12. CASE FailureTaken(r) \/ WaitTimeout(r) \/ ComputeFails(r)
  BY <1>2, <1>12 DEF FailureTaken, WaitTimeout, ComputeFails
<1>13. CASE SrsConfigured(r) \/ NextGnb(r) \/ AllMeasured(r)
  <2>1. HasAnswer(r)
    BY <1>13 DEF SrsConfigured, NextGnb, AllMeasured
  <2>2. \A t \in TIds : ~MayLeave(r, t)
    BY <2>1 DEF HasAnswer, MayLeave, Unanswered, NonUe, Awaited
  <2>3. UNCHANGED nrppaTxnId2supi /\ pc'[r] # "insert"
    BY <1>0, <1>13 DEF SrsConfigured, NextGnb, AllMeasured, Goto, RequestTypes
  <2> QED
    BY <1>3, <2>2, <2>3
<1> QED
  BY <1>5, <1>6, <1>7, <1>8, <1>9, <1>10, <1>11, <1>12, <1>13 DEF RequestStep

(* A notification thread's step that answers no measurement.               *)
LEMMA HandlerLeaves ==
  ASSUME LeftInv, NEW h \in Handlers, OnlyOfHandler(h),
         UNCHANGED <<pc, phase, tId, nrppaTxnId2supi>>,
         \A q \in Requests : response'[q]["Meas"] = response[q]["Meas"],
         hpc'[h] = "dispatch" => hmsg'[h].proc # "Meas"
  PROVE  LeftInv'
<1>1. ASSUME NEW q \in Requests, Unanswered(q) PROVE Unanswered(q)'
  BY <1>1 DEF Unanswered, OnlyOfHandler
<1>2. \A q \in Requests : \A t \in TIds : MayLeave(q, t) => MayLeave(q, t)'
  BY <1>1 DEF MayLeave
<1>3. \A q \in Requests : pc'[q] = "insert" => phase'[q] \in NonUe
  BY DEF LeftInv
<1> QED
  BY <1>2, <1>3, LeftStays

(* The thread that answers a measurement has erased its entry before.      *)
LEMMA UnmapLeft ==
  ASSUME IInv, EntryInv, LeftInv, NEW h \in Handlers, UnmapTxn(h)
  PROVE  LeftInv'
<1> DEFINE r == hmsg[h].req
           t == hmsg[h].tid
<1>1. /\ hpc[h] = "unmap" /\ OnlyOfHandler(h)
      /\ UNCHANGED <<pc, phase, tId, response, hmsg>>
      /\ nrppaTxnId2supi' = [nrppaTxnId2supi EXCEPT ![t] = None]
  BY HandlersTyped
     DEF UnmapTxn, HGoto, HandlerTypes, OnlyOfHandler, reqVars, locals, ctxVars
<1>2. hpc[h] \in Served /\ hproc[h] \in Awaited
  BY <1>1 DEF IInv, HandlerInv, HandlerOk, Served
<1>3. t \in TIds /\ Current(hmsg[h])
  BY <1>2, ServedFacts
<1>4. /\ nrppaTxnId2supi'[t] = None
      /\ \A u \in TIds : u # t => nrppaTxnId2supi'[u] = nrppaTxnId2supi[u]
  BY <1>1, <1>3 DEF IInv, TypeOK
<1>5. ASSUME NEW q \in Requests, NEW u \in TIds, u # t, MayLeave(q, u)
      PROVE  MayLeave(q, u)'
  <2>1. CASE q = r
    BY <1>1, <1>3, <1>5, <2>1 DEF MayLeave, Current
  <2>2. CASE q # r
    <3>1. Unanswered(q) => Unanswered(q)'
      BY <1>1, <2>2 DEF Unanswered, OnlyOfHandler
    <3> QED
      BY <1>1, <1>5, <3>1 DEF MayLeave
  <2> QED
    BY <2>1, <2>2
<1>6. \A q \in Requests : pc'[q] = "insert" => phase'[q] \in NonUe
  BY <1>1 DEF LeftInv
<1> QED
  BY <1>4, <1>5, <1>6, LeftStays

(* The request whose measurement is answered has left no entry.            *)
LEMMA DeliverLeft ==
  ASSUME IInv, LeftInv, NEW h \in Handlers, DeliverAnswer(h)
  PROVE  LeftInv'
<1> DEFINE m == hmsg[h]
<1>1. /\ hpc[h] = "dispatch" /\ hproc[h] \in Awaited
      /\ hpc'[h] = "idle" /\ OnlyOfHandler(h)
      /\ UNCHANGED <<pc, phase, tId, nrppaTxnId2supi>>
  BY HandlersTyped DEF DeliverAnswer, Return, HandlerTypes, OnlyOfHandler, appVars, reqVars,
                       locals
<1>2. /\ hctx[h] = m.req /\ hproc[h] = m.proc /\ m.req \in Requests /\ Current(m)
  BY <1>1, ServedFacts DEF Served
<1>3. \A q \in Requests :
        q # m.req \/ m.proc # "Meas" => response'[q]["Meas"] = response[q]["Meas"]
  BY <1>1, <1>2, RequestTyped DEF DeliverAnswer, RequestTypes, Awaited
<1>4. CASE m.proc # "Meas"
  BY <1>1, <1>3, <1>4, HandlerLeaves
<1>5. CASE m.proc = "Meas"
  <2>1. ASSUME NEW q \in Requests, NEW t \in TIds, MayLeave(q, t)
        PROVE  MayLeave(q, t)'
    <3>1. CASE q = m.req
      <4>1. ~Unanswered(q)
        BY <1>1, <1>5, <3>1 DEF Unanswered
      <4>2. pc[q] = "failed"
        BY <1>2, <1>5, <2>1, <3>1, <4>1 DEF MayLeave, Current
      <4> QED
        BY <1>1, <4>2 DEF MayLeave
    <3>2. CASE q # m.req
      <4>1. Unanswered(q) => Unanswered(q)'
        BY <1>1, <1>3, <3>2 DEF Unanswered, OnlyOfHandler
      <4> QED
        BY <1>1, <2>1, <4>1 DEF MayLeave
    <3> QED
      BY <3>1, <3>2
  <2>2. \A q \in Requests : pc'[q] = "insert" => phase'[q] \in NonUe
    BY <1>1 DEF LeftInv
  <2> QED
    BY <1>1, <2>1, <2>2, LeftStays
<1> QED
  BY <1>4, <1>5

(* Every step of a notification thread preserves LeftInv.                  *)
LEMMA HandlerLeft ==
  ASSUME IInv, IInv', EntryInv, LeftInv, NEW h \in Handlers, HandlerStep(h)
  PROVE  LeftInv'
<1> USE DEF appVars, trpVars, ctxVars, locals, reqVars, amfVars
<1>0. HandlerTypes
  BY HandlersTyped
<1>1. ASSUME Return(h), UNCHANGED <<reqVars, nrppaTxnId2supi, response>> PROVE LeftInv'
  <2>1. hpc'[h] = "idle" /\ OnlyOfHandler(h)
    BY <1>0, <1>1 DEF Return, HandlerTypes, OnlyOfHandler
  <2> QED
    BY <1>1, <2>1, HandlerLeaves
<1>2. ASSUME OnlyOfHandler(h), hpc'[h] # "dispatch",
             UNCHANGED <<reqVars, nrppaTxnId2supi, response>>
      PROVE  LeftInv'
  BY <1>2, HandlerLeaves
<1>3. CASE \E m \in net : ReceiveUe(h, m) \/ ReceiveNonUe(h, m)
  <2>1. /\ OnlyOfHandler(h) /\ hpc'[h] # "dispatch"
        /\ UNCHANGED <<reqVars, nrppaTxnId2supi, response>>
    BY <1>0, <1>3 DEF ReceiveUe, ReceiveNonUe, HGoto, HandlerTypes, OnlyOfHandler
  <2> QED
    BY <1>2, <2>1
<1>4. CASE LookupSupi(h) \/ FindContext(h) \/ EraseTxn(h)
  <2>1. /\ OnlyOfHandler(h) /\ hpc'[h] # "dispatch"
        /\ UNCHANGED <<reqVars, nrppaTxnId2supi, response>>
    BY <1>0, <1>4 DEF LookupSupi, FindContext, EraseTxn, HGoto, HandlerTypes, OnlyOfHandler
  <2> QED
    BY <1>2, <2>1
<1>5. CASE CheckPending(h)
  <2>1. /\ OnlyOfHandler(h)
        /\ hpc'[h] = IF Pending(h) = "TRP" THEN "dispatch" ELSE "erase"
        /\ hproc'[h] = Pending(h)
        /\ UNCHANGED <<reqVars, nrppaTxnId2supi, response>>
    BY <1>0, <1>5 DEF CheckPending, HGoto, HandlerTypes, OnlyOfHandler
  <2>2. hmsg'[h].proc = Pending(h)
    BY <2>1 DEF IInv, HandlerInv, HandlerOk, Served
  <2> QED
    BY <2>1, <2>2, HandlerLeaves
<1>6. CASE FreeTxn(h)
  <2>1. /\ OnlyOfHandler(h) /\ hpc[h] = "free" /\ hmsg' = hmsg
        /\ hpc'[h] = IF hproc[h] = "Meas" THEN "unmap" ELSE "dispatch"
        /\ UNCHANGED <<reqVars, nrppaTxnId2supi, response>>
    BY <1>0, <1>6 DEF FreeTxn, HGoto, HandlerTypes, OnlyOfHandler
  <2>2. hproc[h] = hmsg[h].proc
    BY <2>1 DEF IInv, HandlerInv, HandlerOk, Served
  <2> QED
    BY <2>1, <2>2, HandlerLeaves
<1>7. CASE UnmapTxn(h)
  BY <1>7, UnmapLeft
<1>8. CASE DeliverAnswer(h)
  BY <1>8, DeliverLeft
<1>9. CASE UnknownId(h) \/ UnknownSupi(h) \/ UnknownTransaction(h)
  BY <1>1, <1>9 DEF UnknownId, UnknownSupi, UnknownTransaction
<1>10. CASE UnmappedTwice(h) \/ RejectMismatch(h) \/ DeliverTrp(h)
  BY <1>1, <1>10 DEF UnmappedTwice, RejectMismatch, DeliverTrp
<1> QED
  BY <1>3, <1>4, <1>5, <1>6, <1>7, <1>8, <1>9, <1>10 DEF HandlerStep

-----------------------------------------------------------------------------
(* The theorems *)

LEMMA AccountInit == Init => AccountInv
<1> SUFFICES ASSUME Init PROVE AccountInv
  OBVIOUS
<1>1. \A h \in Handlers : hpc[h] = "idle"
  BY DEF Init
<1>2. \A r \in Requests : pc[r] = "start" /\ phase[r] = "TRP"
  BY DEF Init
<1>3. EntryInv
  BY <1>1, <1>2
     DEF Init, EntryInv, UsesEntry, RequestUses, AnswerUses, HandlerUses, Unserved
<1>4. HeldInv
  BY <1>1 DEF Init, HeldInv, HeldOk, Served
<1>5. LeftInv
  BY <1>2 DEF Init, LeftInv
<1> QED
  BY <1>3, <1>4, <1>5 DEF AccountInv

LEMMA AccountStutters ==
  ASSUME AccountInv, UNCHANGED vars
  PROVE  AccountInv'
<1> USE DEF vars, appVars, trpVars, ctxVars, locals, reqVars, hVars, amfVars
<1>1. EntryInv'
  BY DEF AccountInv, EntryInv, UsesEntry, RequestUses, AnswerUses, HandlerUses
<1>2. HeldInv'
  BY DEF AccountInv, HeldInv, HeldOk
<1>3. LeftInv'
  BY DEF AccountInv, LeftInv, MayLeave, Unanswered
<1> QED
  BY <1>1, <1>2, <1>3 DEF AccountInv

(* With punctual answers every entry of nrppaTxnId2supi and of nrppa_tId   *)
(* is there for somebody who still runs its transaction, or was left by a  *)
(* request that failed; and nobody who needs an entry misses it.           *)
THEOREM Accounts ==
  ASSUME PunctualAnswers
  PROVE  Spec => []AccountInv
<1>1. IInv /\ IInv' /\ AccountInv /\ [Next]_vars => AccountInv'
  <2> SUFFICES ASSUME IInv, IInv', AccountInv, [Next]_vars PROVE AccountInv'
    OBVIOUS
  <2>0. EntryInv /\ HeldInv /\ LeftInv
    BY DEF AccountInv
  <2>1. ASSUME NEW r \in Requests, RequestStep(r) PROVE AccountInv'
    BY <2>0, <2>1, RequestEntries, RequestHeld, RequestLeft DEF AccountInv
  <2>2. ASSUME NEW h \in Handlers, HandlerStep(h) PROVE AccountInv'
    BY <2>0, <2>2, HandlerEntries, HandlerHeld, HandlerLeft DEF AccountInv
  <2>3. CASE UNCHANGED vars
    BY <2>3, AccountStutters
  <2> QED
    BY <2>1, <2>2, <2>3 DEF Next, Terminated
<1> QED
  BY AccountInit, Agreement, <1>1, PTL DEF Spec

(* The generator does not run dry: every id it handed out is owned, and a  *)
(* request, failed or not, holds at most one.                              *)
THEOREM IdsAreAccounted ==
  ASSUME PunctualAnswers
  PROVE  Spec => []IdsAccounted
<1>1. IInv /\ AccountInv /\ NoIdLost => IdsAccounted
  <2> SUFFICES ASSUME IInv, AccountInv, NoIdLost PROVE IdsAccounted
    OBVIOUS
  <2>1. ASSUME NEW r \in Requests, NEW t \in TIds, NEW u \in TIds,
               HoldsId(r, t), HoldsId(r, u)
        PROVE  t = u
    BY <2>1 DEF AccountInv, HeldInv, HeldOk, HoldsId
  <2> QED
    BY <2>1 DEF IdsAccounted
<1> QED
  BY Agreement, Accounts, IdsNeverLost, <1>1, PTL

(* An answer to a request that waits for it finds the SUPI and the pending *)
(* procedure under its id, however early it comes ("prepare receiving n2   *)
(* notification before sending request").                                  *)
THEOREM EarlyAnswersFound ==
  ASSUME PunctualAnswers
  PROVE  Spec => []AnswerFindsTransaction
<1>1. IInv /\ AccountInv => AnswerFindsTransaction
  <2> SUFFICES ASSUME IInv, AccountInv, NEW m \in net, NEW r \in Requests,
                      m.req = r, m.tid = tId[r], m.proc = phase[r],
                      pc[r] \in {"reply", "wait"}
               PROVE  /\ nrppa_tId[r][m.tid] = m.proc
                      /\ m.proc \in NonUe => nrppaTxnId2supi[m.tid] = SupiOf[r]
    BY DEF AnswerFindsTransaction
  <2>1. m.tid \in TIds
    BY CarriedCurrent DEF Carried
  <2>2. m.proc \in NonUe => UsesEntry(r, m.tid)
    BY DEF NonUe, UsesEntry, RequestUses, AnswerUses
  <2> QED
    BY <2>1, <2>2 DEF IInv, NetInv, IsPending, AccountInv, EntryInv
<1> QED
  BY Agreement, Accounts, <1>1, PTL

(* A request that succeeded leaves no id and no answer behind, nor an      *)
(* entry of nrppaTxnId2supi: one for its subscriber is of another request, *)
(* which failed or runs under it.                                          *)
THEOREM SuccessLeavesNothing ==
  ASSUME PunctualAnswers
  PROVE  Spec => []DoneHoldsNothing
<1>1. IInv /\ AccountInv => DoneHoldsNothing
  <2> SUFFICES ASSUME IInv, AccountInv, NEW r \in Requests, pc[r] = "done", NEW t \in TIds
               PROVE  /\ ~HoldsId(r, t)
                      /\ \A m \in net : m.req = r => m.proc = "TRP"
                      /\ nrppaTxnId2supi[t] = SupiOf[r] =>
                           \E q \in Requests :
                             /\ SupiOf[q] = SupiOf[r]
                             /\ pc[q] = "failed" \/ tId[q] = t
    BY DEF DoneHoldsNothing
  <2>1. ~HoldsId(r, t)
    BY DEF AccountInv, HeldInv, HeldOk, HoldsId
  <2>2. \A m \in net : m.req # r
    BY DEF IInv, NetInv, Current
  <2>3. ASSUME nrppaTxnId2supi[t] = SupiOf[r]
        PROVE  \E q \in Requests :
                 SupiOf[q] = SupiOf[r] /\ (pc[q] = "failed" \/ tId[q] = t)
    <3>1. nrppaTxnId2supi[t] # None
      BY <2>3, ConstantsAssumption, NoneAssumption
    <3>2. PICK q \in Requests : SupiOf[q] = nrppaTxnId2supi[t] /\ MayLeave(q, t)
      BY <3>1 DEF AccountInv, LeftInv
    <3> QED
      BY <2>3, <3>2 DEF MayLeave
  <2> QED
    BY <2>1, <2>2, <2>3
<1> QED
  BY Agreement, Accounts, <1>1, PTL

=============================================================================
