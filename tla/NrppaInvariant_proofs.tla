----------------------- MODULE NrppaInvariant_proofs -----------------------
(***************************************************************************)
(* TLAPS proof that IInv is inductive when answers are punctual, for every *)
(* set of requests, notification threads, subscribers, ids and gNBs.       *)
(*                                                                         *)
(* A step of a request thread writes only at its own place (OnlyOf), so    *)
(* what is left to see is what it does to its own part of the invariant    *)
(* (Quiet) and to the ids it holds (Keeps).                                *)
(***************************************************************************)
EXTENDS NrppaInvariant, NrppaTransactions_proofs

(* Answers that can still have an effect.                                  *)
Carried == net \cup {hmsg[h] : h \in {g \in Handlers : Active(g)}}

OnlyOf(r) ==
  \A q \in Requests : q # r =>
    /\ pc'[q] = pc[q] /\ phase'[q] = phase[q] /\ tId'[q] = tId[q]
    /\ target'[q] = target[q] /\ response'[q] = response[q]
    /\ nrppa_tId'[q] = nrppa_tId[q]

StaysCurrent(m) == Current(m)' /\ (IsPending(m) => IsPending(m)')

Quiet(r) ==
  /\ OnlyOf(r)
  /\ RequestOk(r)'
  /\ AnswersMatch(r)'
  /\ \A m \in Carried : m.req = r => StaysCurrent(m)
  /\ UNCHANGED <<hpc, hmsg, hctx, hproc>>

Keeps(r) == \A t \in TIds : HoldsId(r, t)' => HoldsId(r, t)

RequestTypes ==
  /\ pc \in [Requests -> RequestLabels]
  /\ phase \in [Requests -> Procs]
  /\ tId \in [Requests -> TIds \cup {None}]
  /\ target \in [Requests -> Gnbs \cup {0}]
  /\ response \in [Requests -> [Awaited -> Messages \cup {None}]]
  /\ nrppa_tId \in [Requests -> [TIds -> Procs \cup {None}]]
  /\ \A r \in Requests : pc[r] \in OwnIdLabels => tId[r] \in TIds

LEMMA RequestTyped ==
  ASSUME IInv
  PROVE  RequestTypes
BY DEF IInv, TypeOK, LocalsSet, RequestTypes

LEMMA HandlerTyped ==
  ASSUME IInv, NEW h \in Handlers, hpc[h] # "idle"
  PROVE  /\ hmsg[h] \in Messages
         /\ hmsg[h].req \in Requests /\ hmsg[h].tid \in TIds
         /\ hmsg[h].proc \in Procs /\ hmsg[h].from \in Gnbs \cup {0}
<1>1. hmsg[h] \in Messages
  BY DEF IInv, TypeOK, LocalsSet
<1> QED
  BY <1>1 DEF Messages

LEMMA CarriedCurrent ==
  ASSUME IInv, NEW m \in Carried
  PROVE  /\ m \in Messages /\ m.req \in Requests /\ m.tid \in TIds
         /\ Current(m)
<1>1. CASE m \in net
  <2>1. m \in Messages /\ Current(m)
    BY <1>1 DEF IInv, TypeOK, NetInv
  <2> QED
    BY <2>1 DEF Messages
<1>2. CASE \E h \in Handlers : Active(h) /\ m = hmsg[h]
  <2>1. PICK h \in Handlers : Active(h) /\ m = hmsg[h]
    BY <1>2
  <2>2. hpc[h] # "idle"
    BY <2>1 DEF Active, Unserved, Served
  <2> QED
    BY <2>1, <2>2, HandlerTyped DEF IInv, HandlerInv, HandlerOk
<1> QED
  BY <1>1, <1>2 DEF Carried

(* A request that is neither waiting nor given up has no answer under way. *)
LEMMA NotCarried ==
  ASSUME IInv, NEW r \in Requests, pc[r] \notin {"reply", "wait", "failed"},
         NEW m \in Carried
  PROVE  m.req # r
BY CarriedCurrent DEF Current

(* A request's step that is quiet about its own part of the invariant      *)
(* leaves all of it but OneOwner as it is.                                 *)
LEMMA QuietRequest ==
  ASSUME IInv, NEW r \in Requests, Quiet(r)
  PROVE  RequestInv' /\ AnswerMatches'
<1>1. ASSUME NEW q \in Requests PROVE RequestOk(q)' /\ AnswersMatch(q)'
  <2>1. CASE q = r
    BY <2>1 DEF Quiet
  <2>2. CASE q # r
    <3>1. RequestOk(q) /\ AnswersMatch(q)
      BY DEF IInv, RequestInv, AnswerMatches
    <3>2. /\ pc'[q] = pc[q] /\ phase'[q] = phase[q] /\ tId'[q] = tId[q]
          /\ target'[q] = target[q] /\ response'[q] = response[q]
          /\ nrppa_tId'[q] = nrppa_tId[q]
      BY <2>2 DEF Quiet, OnlyOf
    <3> QED
      BY <3>1, <3>2 DEF RequestOk, AnswersMatch
  <2> QED
    BY <2>1, <2>2
<1> QED
  BY <1>1 DEF RequestInv, AnswerMatches

LEMMA QuietCarried ==
  ASSUME IInv, NEW r \in Requests, Quiet(r), NEW m \in Carried
  PROVE  StaysCurrent(m)
<1>1. CASE m.req = r
  BY <1>1 DEF Quiet
<1>2. CASE m.req # r
  <2>1. m.req \in Requests /\ Current(m)
    BY CarriedCurrent
  <2>2. /\ pc'[m.req] = pc[m.req] /\ phase'[m.req] = phase[m.req]
        /\ tId'[m.req] = tId[m.req] /\ target'[m.req] = target[m.req]
        /\ response'[m.req] = response[m.req] /\ nrppa_tId'[m.req] = nrppa_tId[m.req]
    BY <1>2, <2>1 DEF Quiet, OnlyOf
  <2> QED
    BY <2>1, <2>2 DEF StaysCurrent, Current, IsPending
<1> QED
  BY <1>1, <1>2

LEMMA QuietHandlers ==
  ASSUME IInv, NEW r \in Requests, Quiet(r)
  PROVE  HandlerInv' /\ HandlerUnique'
<1>1. UNCHANGED <<hpc, hmsg, hctx, hproc>>
  BY DEF Quiet
<1>2. ASSUME NEW h \in Handlers PROVE HandlerOk(h)'
  <2>1. HandlerOk(h)
    BY DEF IInv, HandlerInv
  <2>2. CASE Active(h)
    <3>1. hmsg[h] \in Carried
      BY <2>2 DEF Carried
    <3>2. StaysCurrent(hmsg[h])
      BY <3>1, QuietCarried
    <3>3. Current(hmsg[h])' /\ (IsPending(hmsg[h]) => IsPending(hmsg[h])')
      BY <1>1, <3>2 DEF StaysCurrent, Current, IsPending
    <3> QED
      BY <1>1, <2>1, <3>3 DEF HandlerOk, Active
  <2>3. CASE ~Active(h)
    <3>1. hpc[h] \notin Unserved \cup {"erase"} /\ ~Active(h)'
      BY <1>1, <2>1, <2>3 DEF HandlerOk, Active, Unserved, Served
    <3> QED
      BY <1>1, <2>1, <3>1 DEF HandlerOk
  <2> QED
    BY <2>2, <2>3
<1> QED
  BY <1>1, <1>2 DEF HandlerInv, IInv, HandlerUnique

(* ... and so does one that gives up ids or keeps those it has.            *)
LEMMA OwnerShrinks ==
  ASSUME IInv, NEW r \in Requests, OnlyOf(r), UNCHANGED <<hpc, hmsg>>,
         nrppa_tid_gen' = nrppa_tid_gen, Keeps(r)
  PROVE  OneOwner'
<1>1. ASSUME NEW q \in Requests, NEW t \in TIds
      PROVE  HoldsId(q, t)' => HoldsId(q, t)
  BY DEF OnlyOf, Keeps, HoldsId
<1>2. ASSUME NEW h \in Handlers, NEW t \in TIds
      PROVE  FreesId(h, t)' => FreesId(h, t)
  BY DEF FreesId
<1>3. OneOwner
  BY DEF IInv
<1> QED
  BY <1>1, <1>2, <1>3 DEF OneOwner

LEMMA QuietStep ==
  ASSUME IInv, NEW r \in Requests, Quiet(r), net' = net, TypeOK', OneOwner'
  PROVE  IInv'
<1>1. RequestInv' /\ AnswerMatches' /\ HandlerInv' /\ HandlerUnique'
  BY QuietRequest, QuietHandlers
<1>2. ASSUME NEW m \in net PROVE (Current(m) /\ IsPending(m))'
  BY QuietCarried DEF Carried, StaysCurrent, IInv, NetInv
<1>3. NetInv' /\ NetUnique' /\ NetOrHandler'
  BY <1>2 DEF Quiet, IInv, NetInv, NetUnique, NetOrHandler
<1> QED
  BY <1>1, <1>3 DEF IInv

-----------------------------------------------------------------------------
(* Steps of request threads *)

(* An exception ends the request: nothing that is under way is for it any  *)
(* more.                                                                   *)
LEMMA ThrowIsQuiet ==
  ASSUME IInv, NEW r \in Requests, Throw(r),
         UNCHANGED <<response, nrppa_tId, hpc, hmsg, hctx, hproc>>
  PROVE  Quiet(r) /\ Keeps(r)
<1>1. RequestTypes
  BY RequestTyped
<1>2. /\ pc'[r] = "failed" /\ phase'[r] = "TRP"
      /\ tId'[r] = None /\ target'[r] = 0
  BY <1>1 DEF RequestTypes, Throw, Leave, Goto
<1>3. OnlyOf(r)
  BY <1>1 DEF RequestTypes, OnlyOf, Throw, Leave, Goto
<1>4. AnswersMatch(r)
  BY DEF IInv, AnswerMatches
<1>5. RequestOk(r)'
  BY <1>2 DEF RequestOk
<1>6. AnswersMatch(r)'
  BY <1>2, <1>4 DEF AnswersMatch, Awaited
<1>7. \A m \in Carried : m.req = r => StaysCurrent(m)
  BY <1>2 DEF StaysCurrent, Current, IsPending
<1>8. Keeps(r)
  BY <1>2 DEF Keeps, HoldsId
<1> QED
  BY <1>3, <1>5, <1>6, <1>7, <1>8 DEF Quiet

(* A request that moves from one place to another between transactions.    *)
LEMMA MoveIsQuiet ==
  ASSUME IInv, NEW r \in Requests, NEW l \in RequestLabels,
         pc[r] \in {"start", "trpInfo", "trpErase", "compute", "wait"},
         l \in {"trpInfo", "getUid", "compute"},
         \A m \in Carried : m.req # r,
         Goto(r, l),
         phase'[r] = phase[r] \/ l = "getUid",
         target'[r] = target[r] \/ l = "getUid",
         \A q \in Requests : q # r => phase'[q] = phase[q] /\ target'[q] = target[q],
         UNCHANGED <<tId, response, nrppa_tId, hpc, hmsg, hctx, hproc>>
  PROVE  Quiet(r) /\ Keeps(r)
<1>1. RequestTypes
  BY RequestTyped
<1>2. pc'[r] = l
  BY <1>1 DEF RequestTypes, Goto
<1>3. OnlyOf(r)
  BY <1>1 DEF RequestTypes, OnlyOf, Goto
<1>4. AnswersMatch(r)
  BY DEF IInv, AnswerMatches
<1>5. RequestOk(r)'
  BY <1>2 DEF RequestOk
<1>6. AnswersMatch(r)'
  BY <1>2, <1>4 DEF AnswersMatch
<1>7. Keeps(r)
  BY <1>2 DEF Keeps, HoldsId
<1> QED
  BY <1>3, <1>5, <1>6, <1>7 DEF Quiet

LEMMA RegisterIsQuiet ==
  ASSUME IInv, NEW r \in Requests, RegisterPending(r)
  PROVE  /\ Quiet(r) /\ Keeps(r)
         /\ UNCHANGED <<net, nrppa_tid_gen>>
<1>1. RequestTypes
  BY RequestTyped
<1>2. pc[r] = "register" /\ tId[r] \in TIds /\ phase[r] \in Procs
  BY <1>1 DEF RegisterPending, RequestTypes, OwnIdLabels
<1>3. nrppa_tId[r][tId[r]] = None
  BY <1>2 DEF IInv, RequestInv, RequestOk
<1>4. /\ response' = [response EXCEPT ![r] =
                        [p \in Awaited |-> IF p = phase[r] THEN None ELSE @[p]]]
      /\ nrppa_tId' = [nrppa_tId EXCEPT ![r][tId[r]] = phase[r]]
      /\ pc' = [pc EXCEPT ![r] = IF phase[r] \in NonUe THEN "insert" ELSE "post"]
      /\ UNCHANGED <<phase, tId, target, nrppa_tid_gen, hpc, hmsg, hctx, hproc, net>>
  BY <1>3 DEF RegisterPending, Goto, locals, appVars, hVars, amfVars
<1>5. pc'[r] \in {"insert", "post"} /\ nrppa_tId'[r][tId[r]] = phase[r]
  BY <1>1, <1>2, <1>4 DEF RequestTypes
<1>6. \A p \in Awaited : response'[r][p] = IF p = phase[r] THEN None ELSE response[r][p]
  BY <1>1, <1>4 DEF RequestTypes
<1>7. OnlyOf(r)
  BY <1>1, <1>4 DEF RequestTypes, OnlyOf
<1>8. RequestOk(r)'
  BY <1>4, <1>5, <1>6 DEF RequestOk
<1>9. AnswersMatch(r)'
  BY <1>4, <1>6 DEF AnswersMatch, IInv, AnswerMatches
<1>10. \A m \in Carried : m.req # r
  BY <1>2, NotCarried
<1>11. Keeps(r)
  <2>1. \A t \in TIds : t # tId[r] => nrppa_tId'[r][t] = nrppa_tId[r][t]
    BY <1>1, <1>2, <1>4 DEF RequestTypes
  <2> QED
    BY <1>2, <1>4, <1>5, <2>1 DEF Keeps, HoldsId
<1> QED
  BY <1>4, <1>7, <1>8, <1>9, <1>10, <1>11 DEF Quiet

(* The id leaves the context's table and is still the request's own.       *)
LEMMA EraseIsQuiet ==
  ASSUME IInv, NEW r \in Requests, ErasePending(r, tId[r]),
         \/ pc[r] = "post" /\ Goto(r, "refused")
         \/ pc[r] = "wait" /\ phase[r] = "TRP" /\ Goto(r, "trpFree"),
         \A m \in Carried : m.req # r,
         UNCHANGED <<phase, tId, target, response, hpc, hmsg, hctx, hproc>>
  PROVE  Quiet(r) /\ Keeps(r)
<1>1. RequestTypes
  BY RequestTyped
<1>2. tId[r] \in TIds /\ phase[r] \in Procs
  BY <1>1 DEF RequestTypes, OwnIdLabels
<1>3. nrppa_tId' = [nrppa_tId EXCEPT ![r][tId[r]] = None]
  BY DEF ErasePending
<1>4. pc'[r] \in {"refused", "trpFree"} /\ nrppa_tId'[r][tId[r]] = None
  BY <1>1, <1>2, <1>3 DEF RequestTypes, Goto
<1>5. \A t \in TIds : t # tId[r] => nrppa_tId'[r][t] = nrppa_tId[r][t]
  BY <1>1, <1>2, <1>3 DEF RequestTypes
<1>6. nrppa_tId[r][tId[r]] # None
  <2>1. nrppa_tId[r][tId[r]] = phase[r]
    BY DEF IInv, RequestInv, RequestOk
  <2> QED
    BY <1>2, <2>1, NoneAssumption
<1>7. OnlyOf(r)
  BY <1>1, <1>3 DEF RequestTypes, OnlyOf, Goto
<1>8. RequestOk(r)'
  BY <1>4 DEF RequestOk
<1>9. AnswersMatch(r)'
  BY <1>4 DEF AnswersMatch, IInv, AnswerMatches
<1>10. Keeps(r)
  BY <1>4, <1>5, <1>6 DEF Keeps, HoldsId
<1> QED
  BY <1>7, <1>8, <1>9, <1>10 DEF Quiet

(* The request goes on with the transaction it has entered.                *)
LEMMA ContinueIsQuiet ==
  ASSUME IInv, NEW r \in Requests,
         \/ pc[r] = "insert" /\ Goto(r, "post")
         \/ pc[r] = "reply" /\ Goto(r, "wait"),
         UNCHANGED <<locals, response, nrppa_tId, hpc, hmsg, hctx, hproc>>
  PROVE  Quiet(r) /\ Keeps(r)
<1>1. RequestTypes
  BY RequestTyped
<1>2. \/ pc[r] = "insert" /\ pc'[r] = "post"
      \/ pc[r] = "reply" /\ pc'[r] = "wait"
  BY <1>1 DEF RequestTypes, Goto
<1>3. OnlyOf(r)
  BY <1>1 DEF RequestTypes, OnlyOf, Goto, locals
<1>4. RequestOk(r)' /\ AnswersMatch(r)'
  BY <1>2 DEF RequestOk, AnswersMatch, IInv, RequestInv, AnswerMatches, locals
<1>5. \A m \in Carried : m.req = r => StaysCurrent(m)
  BY <1>2, CarriedCurrent DEF StaysCurrent, Current, IsPending, locals
<1>6. Keeps(r)
  BY <1>2 DEF Keeps, HoldsId, locals
<1> QED
  BY <1>3, <1>4, <1>5, <1>6 DEF Quiet

(* The id given back was the request's own, and it keeps no other claim    *)
(* to it.                                                                  *)
LEMMA FreeOwned ==
  ASSUME IInv, NEW r \in Requests, OnlyOf(r), UNCHANGED <<hpc, hmsg, nrppa_tId>>,
         pc[r] \in {"refused", "trpFree"}, pc'[r] \in {"failed", "trpErase"},
         free_uid(tId[r])
  PROVE  OneOwner'
<1>1. tId[r] \in TIds /\ nrppa_tId[r][tId[r]] = None /\ HoldsId(r, tId[r])
  BY RequestTyped DEF RequestTypes, OwnIdLabels, IInv, RequestInv, RequestOk, HoldsId
<1>2. ASSUME NEW q \in Requests, NEW t \in TIds, HoldsId(q, t)'
      PROVE  HoldsId(q, t) /\ t # tId[r]
  <2>1. CASE q = r
    BY <1>1, <1>2, <2>1 DEF HoldsId
  <2>2. CASE q # r
    <3>1. HoldsId(q, t)
      BY <1>2, <2>2 DEF HoldsId, OnlyOf
    <3> QED
      BY <1>1, <2>2, <3>1 DEF IInv, OneOwner
  <2> QED
    BY <2>1, <2>2
<1>3. ASSUME NEW h \in Handlers, NEW t \in TIds, FreesId(h, t)'
      PROVE  FreesId(h, t) /\ t # tId[r]
  BY <1>1, <1>3 DEF FreesId, IInv, OneOwner
<1>4. nrppa_tid_gen' = nrppa_tid_gen \ {tId[r]}
  BY DEF free_uid
<1> QED
  BY <1>2, <1>3, <1>4 DEF IInv, OneOwner

(* get_uid hands out an id nobody holds.                                   *)
LEMMA GetUidStep ==
  ASSUME IInv, NEW r \in Requests, GetUid(r), TypeOK'
  PROVE  IInv'
<1>1. RequestTypes
  BY RequestTyped
<1>2. PICK t \in TIds \ nrppa_tid_gen :
        /\ nrppa_tid_gen' = nrppa_tid_gen \cup {t}
        /\ tId' = [tId EXCEPT ![r] = t]
  BY DEF GetUid
<1>3. /\ pc[r] = "getUid" /\ pc'[r] = "register" /\ tId'[r] = t
      /\ UNCHANGED <<phase, target, response, nrppa_tId, hpc, hmsg, hctx, hproc, net>>
  BY <1>1, <1>2 DEF GetUid, Goto, RequestTypes, ctxVars, hVars, amfVars
<1>4. OnlyOf(r)
  BY <1>1, <1>2 DEF GetUid, Goto, RequestTypes, OnlyOf, ctxVars
<1>5. \A q \in Requests : nrppa_tId[q][t] = None
  BY <1>2 DEF IInv, OneOwner, HoldsId
<1>6. RequestOk(r)'
  BY <1>3, <1>5 DEF RequestOk
<1>7. AnswersMatch(r)'
  BY <1>3 DEF AnswersMatch, IInv, AnswerMatches
<1>8. \A m \in Carried : m.req # r
  BY <1>3, NotCarried
<1>9. Quiet(r)
  BY <1>3, <1>4, <1>6, <1>7, <1>8 DEF Quiet
<1>10. ASSUME NEW q \in Requests, NEW u \in TIds, HoldsId(q, u)'
       PROVE  HoldsId(q, u) \/ (q = r /\ u = t)
  BY <1>3, <1>4, <1>10 DEF HoldsId, OnlyOf
<1>11. ASSUME NEW q \in Requests PROVE ~HoldsId(q, t) /\ \A h \in Handlers : ~FreesId(h, t)
  BY <1>2 DEF IInv, OneOwner
<1>12. ASSUME NEW h \in Handlers, NEW u \in TIds
       PROVE  FreesId(h, u)' <=> FreesId(h, u)
  BY <1>3 DEF FreesId
<1>13. OneOwner'
  BY <1>2, <1>10, <1>11, <1>12 DEF OneOwner, IInv
<1> QED
  BY <1>3, <1>9, <1>13, QuietStep

(* The request is sent: its answers are the only ones that are under way   *)
(* to r, and there is one at most unless it is a broadcast.                *)
LEMMA PostStep ==
  ASSUME IInv, NEW r \in Requests, pc[r] = "post", Goto(r, "reply"),
         UNCHANGED <<locals, response, nrppa_tId, nrppa_tid_gen,
                     hpc, hmsg, hctx, hproc>>,
         NEW N, net' = net \cup N,
         \A m \in N : /\ m.req = r /\ m.tid = tId[r] /\ m.proc = phase[r]
                      /\ m.proc \in Awaited => m.from = target[r],
         phase[r] \in Awaited => \A m, n \in N : m = n,
         TypeOK'
  PROVE  IInv'
<1>1. RequestTypes
  BY RequestTyped
<1>2. pc'[r] = "reply"
  BY <1>1 DEF RequestTypes, Goto
<1>3. OnlyOf(r)
  BY <1>1 DEF RequestTypes, OnlyOf, Goto, locals
<1>4. /\ nrppa_tId[r][tId[r]] = phase[r]
      /\ phase[r] \in Awaited => response[r][phase[r]] = None
  BY DEF IInv, RequestInv, RequestOk
<1>5. RequestOk(r)' /\ AnswersMatch(r)'
  BY <1>2, <1>4 DEF RequestOk, AnswersMatch, IInv, AnswerMatches, locals
<1>6. \A m \in Carried : m.req # r
  BY NotCarried
<1>7. Quiet(r)
  BY <1>3, <1>5, <1>6 DEF Quiet
<1>8. Keeps(r)
  BY <1>2 DEF Keeps, HoldsId, locals
<1>9. OneOwner'
  BY <1>3, <1>8, OwnerShrinks
<1>10. RequestInv' /\ AnswerMatches' /\ HandlerInv' /\ HandlerUnique'
  BY <1>7, QuietRequest, QuietHandlers
<1>11. ASSUME NEW m \in net PROVE (Current(m) /\ IsPending(m))' /\ m.req # r
  BY <1>6, <1>7, QuietCarried DEF Carried, StaysCurrent, IInv, NetInv
<1>12. ASSUME NEW m \in N PROVE (Current(m) /\ IsPending(m))'
  BY <1>2, <1>4 DEF Current, IsPending, locals
<1>13. NetInv'
  BY <1>11, <1>12 DEF NetInv
<1>14. NetUnique'
  BY <1>11 DEF IInv, NetUnique
<1>15. NetOrHandler'
  <2>1. ASSUME NEW m \in N, NEW h \in Handlers, hpc[h] # "idle",
               hmsg[h].proc \in Awaited
        PROVE  m.req # hmsg[h].req
    <3>1. Active(h)
      BY <2>1, HandlerTyped DEF Active, Served, Unserved, IInv, TypeOK, HandlerLabels
    <3> QED
      BY <1>6, <3>1 DEF Carried
  <2> QED
    BY <2>1 DEF IInv, NetOrHandler
<1> QED
  BY <1>9, <1>10, <1>13, <1>14, <1>15 DEF IInv

(* Every step of a request thread preserves the invariant.                 *)
LEMMA RequestStepKeeps ==
  ASSUME PunctualAnswers, IInv, NEW r \in Requests, RequestStep(r), TypeOK'
  PROVE  IInv'
<1> USE DEF appVars, trpVars, ctxVars, locals, hVars, amfVars
<1>0. RequestTypes
  BY RequestTyped
<1>1. ASSUME Quiet(r), Keeps(r), UNCHANGED <<nrppa_tid_gen, net>>
      PROVE  IInv'
  BY <1>1, OwnerShrinks, QuietStep DEF Quiet
<1>2. ASSUME Throw(r), UNCHANGED <<nrppa_tid_gen, ctxVars, hVars, net>>
      PROVE  IInv'
  BY <1>1, <1>2, ThrowIsQuiet
<1>3. pc[r] \notin {"reply", "wait", "failed"} => \A m \in Carried : m.req # r
  BY NotCarried
<1>4. CASE CreateContext(r)
  <2>1. Quiet(r) /\ Keeps(r)
    BY <1>3, <1>4, MoveIsQuiet DEF CreateContext, RequestLabels
  <2> QED
    BY <1>1, <1>4, <2>1 DEF CreateContext
<1>5. CASE TrpInfoKnown(r)
  <2>1. \A q \in Requests : q # r => phase'[q] = phase[q]
    BY <1>0, <1>5 DEF TrpInfoKnown, RequestTypes
  <2>2. Quiet(r) /\ Keeps(r)
    BY <1>3, <1>5, <2>1, MoveIsQuiet DEF TrpInfoKnown, RequestLabels
  <2> QED
    BY <1>1, <1>5, <2>2 DEF TrpInfoKnown
<1>6. CASE TrpInfoRequest(r)
  <2>1. Quiet(r) /\ Keeps(r)
    BY <1>3, <1>6, MoveIsQuiet DEF TrpInfoRequest, RequestLabels
  <2> QED
    BY <1>1, <1>6, <2>1 DEF TrpInfoRequest
<1>7. CASE GetUid(r)
  BY <1>7, GetUidStep
<1>8. CASE RegisterPending(r)
  BY <1>1, <1>8, RegisterIsQuiet
<1>9. CASE InsertSupi(r)
  BY <1>1, <1>9, ContinueIsQuiet DEF InsertSupi
<1>10. CASE InsertReuse(r)
  BY <1>2, <1>10 DEF InsertReuse
<1>11. CASE PostUe(r)
  <2>1. CASE net' = net
    <3> DEFINE N == {}
    <3>1. net' = net \cup N /\ \A m \in N : FALSE
      BY <2>1
    <3> HIDE DEF N
    <3> QED
      BY <1>11, <3>1, PostStep DEF PostUe
  <2>2. CASE \E a \in AnswersTo(phase[r]) : net' = net \cup {Answer(r, target[r], a)}
    <3>1. PICK a \in AnswersTo(phase[r]) : net' = net \cup {Answer(r, target[r], a)}
      BY <2>2
    <3> DEFINE N == {Answer(r, target[r], a)}
    <3>2. \A m \in N : /\ m.req = r /\ m.tid = tId[r] /\ m.proc = phase[r]
                       /\ m.from = target[r]
      BY DEF Answer
    <3>3. net' = net \cup N /\ \A m, n \in N : m = n
      BY <3>1
    <3> HIDE DEF N
    <3> QED
      BY <1>11, <3>2, <3>3, PostStep DEF PostUe
  <2> QED
    BY <1>11, <2>1, <2>2 DEF PostUe
<1>12. CASE PostNonUe(r)
  <2>1. PICK S \in SUBSET (IF phase[r] = "TRP" THEN Gnbs ELSE {target[r]}) :
          \E a \in [S -> AnswersTo(phase[r])] :
            net' = net \cup {Answer(r, g, a[g]) : g \in S}
    BY <1>12 DEF PostNonUe
  <2>2. PICK a \in [S -> AnswersTo(phase[r])] :
          net' = net \cup {Answer(r, g, a[g]) : g \in S}
    BY <2>1
  <2> DEFINE N == {Answer(r, g, a[g]) : g \in S}
  <2>3. phase[r] \in Awaited => S \subseteq {target[r]}
    BY <2>1 DEF Awaited
  <2>4. \A m \in N : /\ m.req = r /\ m.tid = tId[r] /\ m.proc = phase[r]
                     /\ m.proc \in Awaited => m.from = target[r]
    <3> SUFFICES ASSUME NEW g \in S, NEW m, m = Answer(r, g, a[g])
                 PROVE  /\ m.req = r /\ m.tid = tId[r] /\ m.proc = phase[r]
                        /\ m.proc \in Awaited => m.from = target[r]
      OBVIOUS
    <3>1. m.req = r /\ m.tid = tId[r] /\ m.proc = phase[r] /\ m.from = g
      BY DEF Answer
    <3> QED
      BY <2>3, <3>1
  <2>5. phase[r] \in Awaited => \A m, n \in N : m = n
    <3> SUFFICES ASSUME phase[r] \in Awaited, NEW g \in S, NEW k \in S
                 PROVE  Answer(r, g, a[g]) = Answer(r, k, a[k])
      OBVIOUS
    <3> QED
      BY <2>3
  <2>6. net' = net \cup N
    BY <2>2
  <2> HIDE DEF N
  <2> QED
    BY <1>12, <2>4, <2>5, <2>6, PostStep DEF PostNonUe
<1>13. CASE PostRefused(r)
  <2>1. Quiet(r) /\ Keeps(r)
    BY <1>3, <1>13, EraseIsQuiet DEF PostRefused
  <2> QED
    BY <1>1, <1>13, <2>1 DEF PostRefused
<1>14. CASE FreeRefused(r)
  <2>1. Quiet(r)
    BY <1>14, ThrowIsQuiet DEF FreeRefused
  <2>2. pc'[r] = "failed"
    BY <1>0, <1>14 DEF FreeRefused, Throw, Leave, Goto, RequestTypes
  <2>3. OneOwner'
    BY <1>14, <2>1, <2>2, FreeOwned DEF FreeRefused, Quiet
  <2> QED
    BY <1>14, <2>1, <2>3, QuietStep DEF FreeRefused
<1>15. CASE ReplyInitiated(r)
  BY <1>1, <1>15, ContinueIsQuiet DEF ReplyInitiated
<1>16. CASE ReplyUnreadable(r)
  BY <1>2, <1>16 DEF ReplyUnreadable
<1>17. CASE TrpWaitEnds(r)
  <2>1. ASSUME NEW m \in Carried PROVE m.req # r
    <3>1. SUFFICES ASSUME m.req = r PROVE FALSE
      OBVIOUS
    <3>2. m.proc = "TRP" /\ m.tid = tId[r]
      BY <1>17, <3>1, CarriedCurrent DEF Current, TrpWaitEnds
    <3>3. TrpAnswersServed(r)
      BY <1>17 DEF TrpWaitEnds, PunctualAnswers
    <3>4. \E h \in Handlers : Active(h) /\ m = hmsg[h]
      BY <3>2, <3>3 DEF TrpAnswersServed, Carried
    <3> QED
      BY <3>2, <3>3, <3>4 DEF TrpAnswersServed, Active, Unserved, Awaited
  <2>2. Quiet(r) /\ Keeps(r)
    BY <1>17, <2>1, EraseIsQuiet DEF TrpWaitEnds
  <2> QED
    BY <1>1, <1>17, <2>2 DEF TrpWaitEnds
<1>18. CASE TrpFree(r)
  <2>1. pc'[r] = "trpErase" /\ OnlyOf(r)
    BY <1>0, <1>18 DEF TrpFree, Goto, RequestTypes, OnlyOf
  <2>2. Quiet(r)
    <3>1. RequestOk(r)' /\ AnswersMatch(r)'
      BY <1>18, <2>1 DEF TrpFree, RequestOk, AnswersMatch, IInv, AnswerMatches
    <3> QED
      BY <1>3, <1>18, <2>1, <3>1 DEF TrpFree, Quiet
  <2>3. OneOwner'
    BY <1>18, <2>1, FreeOwned DEF TrpFree
  <2> QED
    BY <1>18, <2>2, <2>3, QuietStep DEF TrpFree
<1>19. CASE TrpInfoDone(r)
  <2>1. \A q \in Requests : q # r => phase'[q] = phase[q]
    BY <1>0, <1>19 DEF TrpInfoDone, RequestTypes
  <2>2. Quiet(r) /\ Keeps(r)
    BY <1>3, <1>19, <2>1, MoveIsQuiet DEF TrpInfoDone, RequestLabels
  <2> QED
    BY <1>1, <1>19, <2>2 DEF TrpInfoDone
<1>20. CASE TrpInfoFails(r)
  BY <1>2, <1>20 DEF TrpInfoFails
<1>21. ASSUME HasAnswer(r), NEW m \in Carried PROVE m.req # r
  BY <1>21, CarriedCurrent DEF HasAnswer, Current
<1>22. CASE SrsConfigured(r)
  <2>1. \A q \in Requests : q # r => phase'[q] = phase[q]
    BY <1>0, <1>22 DEF SrsConfigured, RequestTypes
  <2>2. Quiet(r) /\ Keeps(r)
    BY <1>21, <1>22, <2>1, MoveIsQuiet DEF SrsConfigured, HasAnswer, RequestLabels
  <2> QED
    BY <1>1, <1>22, <2>2 DEF SrsConfigured
<1>23. CASE NextGnb(r)
  <2>1. \A q \in Requests : q # r => phase'[q] = phase[q] /\ target'[q] = target[q]
    BY <1>0, <1>23 DEF NextGnb, RequestTypes
  <2>2. Quiet(r) /\ Keeps(r)
    BY <1>21, <1>23, <2>1, MoveIsQuiet DEF NextGnb, HasAnswer, RequestLabels
  <2> QED
    BY <1>1, <1>23, <2>2 DEF NextGnb
<1>24. CASE AllMeasured(r)
  <2>1. Quiet(r) /\ Keeps(r)
    BY <1>21, <1>24, MoveIsQuiet DEF AllMeasured, HasAnswer, RequestLabels
  <2> QED
    BY <1>1, <1>24, <2>1 DEF AllMeasured
<1>25. CASE FailureTaken(r)
  BY <1>2, <1>25 DEF FailureTaken
<1>26. CASE WaitTimeout(r)
  BY <1>2, <1>26 DEF WaitTimeout
<1>27. CASE Finish(r)
  <2>1. pc'[r] = "done" /\ phase'[r] = "TRP" /\ OnlyOf(r)
    BY <1>0, <1>27 DEF Finish, Leave, Goto, RequestTypes, OnlyOf
  <2>2. RequestOk(r)' /\ AnswersMatch(r)'
    BY <1>27, <2>1 DEF Finish, RequestOk, AnswersMatch, IInv, AnswerMatches, Awaited
  <2>3. Quiet(r) /\ Keeps(r)
    BY <1>3, <1>27, <2>1, <2>2 DEF Finish, Quiet, Keeps, HoldsId
  <2> QED
    BY <1>1, <1>27, <2>3 DEF Finish
<1>28. CASE ComputeFails(r)
  BY <1>2, <1>28 DEF ComputeFails
<1> QED
  BY <1>4, <1>5, <1>6, <1>7, <1>8, <1>9, <1>10, <1>11, <1>12, <1>13, <1>14, <1>15,
     <1>16, <1>17, <1>18, <1>19, <1>20, <1>22, <1>23, <1>24, <1>25, <1>26, <1>27,
     <1>28 DEF RequestStep

-----------------------------------------------------------------------------
(* Steps of notification threads *)

OnlyOfHandler(h) ==
  \A g \in Handlers : g # h =>
    /\ hpc'[g] = hpc[g] /\ hmsg'[g] = hmsg[g]
    /\ hctx'[g] = hctx[g] /\ hproc'[g] = hproc[g]

requestVars == <<pc, phase, tId, target, response, nrppa_tId>>

HandlerTypes ==
  /\ hpc \in [Handlers -> HandlerLabels]
  /\ hmsg \in [Handlers -> Messages \cup {None}]
  /\ hctx \in [Handlers -> Requests \cup {None}]
  /\ hproc \in [Handlers -> Procs \cup {None}]

LEMMA HandlersTyped ==
  ASSUME IInv
  PROVE  HandlerTypes
BY DEF IInv, TypeOK, HandlerTypes

LEMMA SameRequests ==
  ASSUME IInv, UNCHANGED requestVars
  PROVE  /\ RequestInv' /\ AnswerMatches'
         /\ \A m : (Current(m)' <=> Current(m)) /\ (IsPending(m)' <=> IsPending(m))
<1>1. ASSUME NEW r \in Requests PROVE RequestOk(r)' /\ AnswersMatch(r)'
  BY DEF requestVars, RequestOk, AnswersMatch, IInv, RequestInv, AnswerMatches
<1>2. ASSUME NEW m
      PROVE  (Current(m)' <=> Current(m)) /\ (IsPending(m)' <=> IsPending(m))
  BY DEF requestVars, Current, IsPending
<1> QED
  BY <1>1, <1>2 DEF RequestInv, AnswerMatches

(* A notification thread that goes on with its message, or is done with    *)
(* it, and writes nothing the invariant speaks of.                         *)
LEMMA HandlerMoves ==
  ASSUME IInv, NEW h \in Handlers, OnlyOfHandler(h), HandlerOk(h)', TypeOK',
         UNCHANGED <<requestVars, nrppa_tid_gen, net>>,
         hpc'[h] = "idle" \/ (hpc[h] # "idle" /\ hmsg'[h] = hmsg[h]),
         hpc'[h] # "free"
  PROVE  IInv'
<1>1. /\ RequestInv' /\ AnswerMatches'
      /\ \A m : (Current(m)' <=> Current(m)) /\ (IsPending(m)' <=> IsPending(m))
  BY SameRequests
<1>2. NetInv' /\ NetUnique'
  BY <1>1 DEF IInv, NetInv, NetUnique
<1>3. ASSUME NEW g \in Handlers PROVE HandlerOk(g)'
  <2>1. CASE g = h
    BY <2>1
  <2>2. CASE g # h
    <3>1. HandlerOk(g)
      BY DEF IInv, HandlerInv
    <3>2. /\ hpc'[g] = hpc[g] /\ hmsg'[g] = hmsg[g]
          /\ hctx'[g] = hctx[g] /\ hproc'[g] = hproc[g]
      BY <2>2 DEF OnlyOfHandler
    <3>3. Current(hmsg[g])' <=> Current(hmsg[g])
      BY <3>2 DEF Current, requestVars
    <3>4. IsPending(hmsg[g])' <=> IsPending(hmsg[g])
      BY <3>2 DEF IsPending, requestVars
    <3> QED
      BY <3>1, <3>2, <3>3, <3>4 DEF HandlerOk, Active
  <2> QED
    BY <2>1, <2>2
<1>4. NetOrHandler' /\ HandlerUnique'
  BY DEF OnlyOfHandler, IInv, NetOrHandler, HandlerUnique
<1>5. OneOwner'
  <2>1. ASSUME NEW q \in Requests, NEW t \in TIds
        PROVE  HoldsId(q, t)' <=> HoldsId(q, t)
    BY DEF HoldsId, requestVars
  <2>2. ASSUME NEW g \in Handlers, NEW t \in TIds
        PROVE  FreesId(g, t)' => FreesId(g, t)
    BY DEF FreesId, OnlyOfHandler
  <2> QED
    BY <2>1, <2>2 DEF OneOwner, IInv
<1> QED
  BY <1>1, <1>2, <1>3, <1>4, <1>5 DEF IInv, HandlerInv

LEMMA ReturnStep ==
  ASSUME IInv, NEW h \in Handlers, Return(h), TypeOK',
         UNCHANGED <<requestVars, nrppa_tid_gen, net>>
  PROVE  IInv'
<1>1. hpc'[h] = "idle" /\ OnlyOfHandler(h)
  BY HandlersTyped DEF HandlerTypes, Return, OnlyOfHandler
<1>2. HandlerOk(h)'
  BY <1>1 DEF HandlerOk, Active, Unserved, Served
<1> QED
  BY <1>1, <1>2, HandlerMoves

(* A message is taken out of the net, for good if nothing is repeated.     *)
LEMMA ReceiveStep ==
  ASSUME PunctualAnswers, IInv, NEW h \in Handlers, NEW m \in net, hpc[h] = "idle",
         NEW l \in {"lookup", "context"}, HGoto(h, l), Take(m),
         hmsg' = [hmsg EXCEPT ![h] = m],
         UNCHANGED <<requestVars, nrppa_tid_gen, hctx, hproc>>, TypeOK'
  PROVE  IInv'
<1>1. net' = net \ {m}
  <2>1. ~(redelivered < MaxRedeliveries)
    BY DEF IInv, TypeOK, PunctualAnswers
  <2> QED
    BY <2>1 DEF Take
<1>2. hpc'[h] = l /\ hmsg'[h] = m /\ OnlyOfHandler(h)
  BY HandlersTyped DEF HandlerTypes, HGoto, OnlyOfHandler
<1>3. /\ RequestInv' /\ AnswerMatches'
      /\ \A n : (Current(n)' <=> Current(n)) /\ (IsPending(n)' <=> IsPending(n))
  BY SameRequests
<1>4. NetInv' /\ NetUnique'
  BY <1>1, <1>3 DEF IInv, NetInv, NetUnique
<1>5. ASSUME NEW g \in Handlers PROVE HandlerOk(g)'
  <2>1. CASE g = h
    <3>1. Current(m) /\ IsPending(m)
      BY DEF IInv, NetInv
    <3>2. Current(hmsg[h])' /\ IsPending(hmsg[h])'
      BY <1>2, <3>1 DEF Current, IsPending, requestVars
    <3> QED
      BY <1>2, <2>1, <3>2 DEF HandlerOk, Served
  <2>2. CASE g # h
    <3>1. HandlerOk(g)
      BY DEF IInv, HandlerInv
    <3>2. /\ hpc'[g] = hpc[g] /\ hmsg'[g] = hmsg[g]
          /\ hctx'[g] = hctx[g] /\ hproc'[g] = hproc[g]
      BY <1>2, <2>2 DEF OnlyOfHandler
    <3>3. Current(hmsg[g])' <=> Current(hmsg[g])
      BY <3>2 DEF Current, requestVars
    <3>4. IsPending(hmsg[g])' <=> IsPending(hmsg[g])
      BY <3>2 DEF IsPending, requestVars
    <3> QED
      BY <3>1, <3>2, <3>3, <3>4 DEF HandlerOk, Active
  <2> QED
    BY <2>1, <2>2
<1>6. NetOrHandler'
  <2>1. ASSUME NEW n \in net', NEW g \in Handlers, hpc'[g] # "idle",
               n.proc \in Awaited, hmsg'[g].proc \in Awaited
        PROVE  n.req # hmsg'[g].req
    <3>1. CASE g = h
      BY <1>1, <1>2, <2>1, <3>1 DEF IInv, NetUnique
    <3>2. CASE g # h
      BY <1>1, <1>2, <2>1, <3>2 DEF IInv, NetOrHandler, OnlyOfHandler
    <3> QED
      BY <3>1, <3>2
  <2> QED
    BY <2>1 DEF NetOrHandler
<1>7. HandlerUnique'
  <2>1. ASSUME NEW g \in Handlers, g # h, hpc'[g] # "idle",
               m.proc \in Awaited, hmsg'[g].proc \in Awaited
        PROVE  m.req # hmsg'[g].req
    BY <1>2, <2>1 DEF IInv, NetOrHandler, OnlyOfHandler
  <2> QED
    BY <1>2, <2>1 DEF IInv, HandlerUnique, OnlyOfHandler
<1>8. OneOwner'
  <2>1. ASSUME NEW q \in Requests, NEW t \in TIds
        PROVE  HoldsId(q, t)' <=> HoldsId(q, t)
    BY DEF HoldsId, requestVars
  <2>2. ASSUME NEW g \in Handlers, NEW t \in TIds
        PROVE  FreesId(g, t)' => FreesId(g, t)
    BY <1>2 DEF FreesId, OnlyOfHandler
  <2> QED
    BY <2>1, <2>2 DEF OneOwner, IInv
<1> QED
  BY <1>3, <1>4, <1>5, <1>6, <1>7, <1>8 DEF IInv, HandlerInv

(* The context found under the SUPI, whichever it is, has the id pending   *)
(* only if it is the one the answer is for: OneOwner.                      *)
LEMMA CheckPendingStep ==
  ASSUME IInv, NEW h \in Handlers, CheckPending(h), TypeOK'
  PROVE  IInv'
<1>1. /\ hpc[h] = "check" /\ hctx[h] \in Requests
      /\ hmsg[h].req \in Requests /\ hmsg[h].tid \in TIds
      /\ nrppa_tId[hctx[h]][hmsg[h].tid] # None
  BY HandlerTyped DEF CheckPending, Pending, IInv, TypeOK, LocalsSet
<1>2. nrppa_tId[hmsg[h].req][hmsg[h].tid] = hmsg[h].proc /\ hmsg[h].proc \in Procs
  BY <1>1, HandlerTyped DEF IInv, HandlerInv, HandlerOk, Unserved, IsPending
<1>3. hctx[h] = hmsg[h].req
  <2>1. HoldsId(hctx[h], hmsg[h].tid)
    BY <1>1 DEF HoldsId
  <2>2. HoldsId(hmsg[h].req, hmsg[h].tid)
    BY <1>2, NoneAssumption DEF HoldsId
  <2> QED
    BY <1>1, <2>1, <2>2 DEF IInv, OneOwner
<1>4. /\ hproc'[h] = hmsg[h].proc /\ hmsg'[h] = hmsg[h] /\ hctx'[h] = hctx[h]
      /\ hpc'[h] = IF hmsg[h].proc = "TRP" THEN "dispatch" ELSE "erase"
      /\ OnlyOfHandler(h)
      /\ UNCHANGED <<requestVars, nrppa_tid_gen, net>>
  BY <1>2, <1>3, HandlersTyped
     DEF CheckPending, Pending, HGoto, HandlerTypes, OnlyOfHandler, requestVars,
         appVars, ctxVars, reqVars, locals, amfVars
<1>5. HandlerOk(h)'
  <2>1. Current(hmsg[h]) /\ IsPending(hmsg[h])
    BY <1>1 DEF IInv, HandlerInv, HandlerOk, Active, Unserved
  <2>2. Current(hmsg[h])' /\ IsPending(hmsg[h])'
    BY <1>4, <2>1 DEF Current, IsPending, requestVars
  <2> QED
    BY <1>2, <1>3, <1>4, <2>2 DEF HandlerOk, Served, Unserved, Procs, Awaited
<1> QED
  BY <1>1, <1>4, <1>5, HandlerMoves

(* A thread past the check handles the answer of a transaction nobody else *)
(* has an answer of, and its request waits for nothing else.               *)
LEMMA ServedFacts ==
  ASSUME IInv, NEW h \in Handlers, hpc[h] \in Served, hproc[h] \in Awaited
  PROVE  /\ hctx[h] = hmsg[h].req /\ hproc[h] = hmsg[h].proc
         /\ hmsg[h] \in Messages
         /\ hmsg[h].req \in Requests /\ hmsg[h].tid \in TIds
         /\ Active(h) /\ Current(hmsg[h])
         /\ \A m \in net : m.req = hmsg[h].req => m.proc \notin Awaited
         /\ \A g \in Handlers :
              g # h /\ hpc[g] # "idle" /\ hmsg[g].req = hmsg[h].req
                => hmsg[g].proc \notin Awaited
<1>1. hpc[h] # "idle"
  BY DEF Served
<1>2. hctx[h] = hmsg[h].req /\ hproc[h] = hmsg[h].proc
  BY DEF IInv, HandlerInv, HandlerOk
<1>3. Active(h) /\ Current(hmsg[h])
  BY <1>2 DEF IInv, HandlerInv, HandlerOk, Active
<1>4. \A m \in net : m.req = hmsg[h].req => m.proc \notin Awaited
  BY <1>1, <1>2 DEF IInv, NetOrHandler
<1>5. \A g \in Handlers :
        g # h /\ hpc[g] # "idle" /\ hmsg[g].req = hmsg[h].req
          => hmsg[g].proc \notin Awaited
  BY <1>1, <1>2 DEF IInv, HandlerUnique
<1> QED
  BY <1>1, <1>2, <1>3, <1>4, <1>5, HandlerTyped

LEMMA EraseTxnStep ==
  ASSUME IInv, NEW h \in Handlers, EraseTxn(h), TypeOK'
  PROVE  IInv'
<1> DEFINE q0 == hmsg[h].req
           t0 == hmsg[h].tid
<1>1. hpc[h] = "erase" /\ hpc[h] \in Served /\ hproc[h] \in Awaited
  BY DEF EraseTxn, Served, IInv, HandlerInv, HandlerOk
<1>2. /\ hctx[h] = q0 /\ hproc[h] = hmsg[h].proc /\ q0 \in Requests /\ t0 \in TIds
      /\ Current(hmsg[h])
      /\ \A m \in net : m.req = q0 => m.proc \notin Awaited
      /\ \A g \in Handlers : g # h /\ hpc[g] # "idle" /\ hmsg[g].req = q0
           => hmsg[g].proc \notin Awaited
  BY <1>1, ServedFacts
<1>3. nrppa_tId[q0][t0] = hmsg[h].proc
  BY <1>1 DEF IInv, HandlerInv, HandlerOk, IsPending
<1>4. /\ hpc'[h] = "free" /\ hmsg'[h] = hmsg[h] /\ hctx'[h] = hctx[h]
      /\ hproc'[h] = hproc[h] /\ OnlyOfHandler(h)
      /\ UNCHANGED <<pc, phase, tId, target, response, nrppa_tid_gen, net>>
      /\ UNCHANGED <<hmsg, hctx, hproc>>
  BY HandlersTyped DEF EraseTxn, HandlerTypes, HGoto, OnlyOfHandler, appVars, reqVars,
                       locals, amfVars
<1>5. /\ nrppa_tId'[q0][t0] = None
      /\ \A q \in Requests : \A t \in TIds :
           q # q0 \/ t # t0 => nrppa_tId'[q][t] = nrppa_tId[q][t]
  <2>1. nrppa_tId' = [nrppa_tId EXCEPT ![q0][t0] = None]
    BY <1>2 DEF EraseTxn, ErasePending
  <2> QED
    BY <1>2, <2>1, RequestTyped DEF RequestTypes
<1>6. pc[q0] = "failed" \/ (pc[q0] \in {"reply", "wait"} /\ phase[q0] \in Awaited)
  BY <1>1, <1>2 DEF Current
<1>7. ASSUME NEW r \in Requests PROVE RequestOk(r)' /\ AnswersMatch(r)'
  <2>1. RequestOk(r) /\ AnswersMatch(r)
    BY DEF IInv, RequestInv, AnswerMatches
  <2>2. AnswersMatch(r)'
    BY <1>4, <2>1 DEF AnswersMatch
  <2>3. CASE r = q0
    BY <1>4, <1>6, <2>1, <2>2, <2>3 DEF RequestOk, Awaited
  <2>4. CASE r # q0
    <3>1. pc[r] \in OwnIdLabels => nrppa_tId'[r][tId[r]] = nrppa_tId[r][tId[r]]
      BY <1>5, <2>4, RequestTyped DEF RequestTypes
    <3> QED
      BY <1>4, <2>1, <2>2, <3>1 DEF RequestOk, OwnIdLabels
  <2> QED
    BY <2>2, <2>3, <2>4
<1>8. ASSUME NEW m, m.req \in Requests, m.tid \in TIds, IsPending(m),
             m.req = q0 => m.proc \notin Awaited
      PROVE  IsPending(m)'
  <2>1. nrppa_tId[m.req][m.tid] = m.proc
    BY <1>8 DEF IsPending
  <2>2. m.req # q0 \/ m.tid # t0
    BY <1>1, <1>2, <1>3, <1>8, <2>1
  <2>3. nrppa_tId'[m.req][m.tid] = m.proc
    BY <1>5, <1>8, <2>1, <2>2
  <2> QED
    BY <2>3 DEF IsPending
<1>9. \A m : Current(m)' <=> Current(m)
  BY <1>4 DEF Current
<1>10. NetInv'
  <2>1. ASSUME NEW m \in net PROVE Current(m)' /\ IsPending(m)'
    <3>1. m.req \in Requests /\ m.tid \in TIds
      BY CarriedCurrent DEF Carried
    <3>2. Current(m) /\ IsPending(m)
      BY DEF IInv, NetInv
    <3>3. m.req = q0 => m.proc \notin Awaited
      BY <1>2
    <3> QED
      BY <1>8, <1>9, <3>1, <3>2, <3>3
  <2> QED
    BY <1>4, <2>1 DEF NetInv
<1>11. ASSUME NEW g \in Handlers PROVE HandlerOk(g)'
  <2>1. HandlerOk(g)
    BY DEF IInv, HandlerInv
  <2>2. Current(hmsg[g])' <=> Current(hmsg[g])
    BY <1>4 DEF Current
  <2>3. CASE g = h
    BY <1>1, <1>2, <1>4, <2>1, <2>2, <2>3 DEF HandlerOk, Active, Unserved, Served
  <2>4. CASE g # h
    <3>1. /\ hpc'[g] = hpc[g] /\ hmsg'[g] = hmsg[g]
          /\ hctx'[g] = hctx[g] /\ hproc'[g] = hproc[g]
      BY <1>4, <2>4 DEF OnlyOfHandler
    <3>2. hpc[g] \in Unserved \cup {"erase"} => IsPending(hmsg[g])'
      <4> SUFFICES ASSUME hpc[g] \in Unserved \cup {"erase"} PROVE IsPending(hmsg[g])'
        OBVIOUS
      <4>1. hpc[g] # "idle"
        BY DEF Unserved
      <4>2. hmsg[g].req \in Requests /\ hmsg[g].tid \in TIds
        BY <4>1, HandlerTyped
      <4>3. nrppa_tId[hmsg[g].req][hmsg[g].tid] = hmsg[g].proc
        BY <2>1 DEF HandlerOk, IsPending
      <4>4. nrppa_tId'[hmsg[g].req][hmsg[g].tid] = hmsg[g].proc
        BY <1>1, <1>2, <1>3, <1>5, <2>4, <4>1, <4>2, <4>3
      <4> QED
        BY <3>1, <4>4 DEF IsPending
    <3> QED
      BY <2>1, <2>2, <3>1, <3>2 DEF HandlerOk, Active
  <2> QED
    BY <2>3, <2>4
<1>12. NetUnique' /\ NetOrHandler' /\ HandlerUnique'
  BY <1>1, <1>4 DEF OnlyOfHandler, IInv, NetUnique, NetOrHandler, HandlerUnique
<1>13. OneOwner'
  <2>1. HoldsId(q0, t0)
    <3>1. hmsg[h].proc # None
      BY <1>1, <1>2, NoneAssumption DEF Procs
    <3> QED
      BY <1>3, <3>1 DEF HoldsId
  <2>2. ASSUME NEW q \in Requests, NEW t \in TIds, HoldsId(q, t)'
        PROVE  HoldsId(q, t) /\ (q # q0 \/ t # t0)
    <3>1. CASE q = q0 /\ t = t0
      BY <1>4, <1>5, <1>6, <2>2, <3>1 DEF HoldsId
    <3>2. CASE q # q0 \/ t # t0
      BY <1>4, <1>5, <2>2, <3>2 DEF HoldsId
    <3> QED
      BY <3>1, <3>2
  <2>3. ASSUME NEW g \in Handlers, NEW t \in TIds, FreesId(g, t)'
        PROVE  FreesId(g, t) \/ (g = h /\ t = t0)
    BY <1>4, <2>3 DEF FreesId, OnlyOfHandler
  <2>4. OneOwner
    BY DEF IInv
  <2>5. ASSUME NEW t \in TIds, NEW q \in Requests, HoldsId(q, t)'
        PROVE  /\ t \in nrppa_tid_gen
               /\ \A p \in Requests : HoldsId(p, t)' => p = q
               /\ \A g \in Handlers : ~FreesId(g, t)'
    <3>1. HoldsId(q, t) /\ t # t0
      BY <1>2, <2>1, <2>2, <2>4, <2>5 DEF OneOwner
    <3> QED
      BY <2>2, <2>3, <2>4, <3>1 DEF OneOwner
  <2>6. ASSUME NEW t \in TIds, NEW g \in Handlers, FreesId(g, t)'
        PROVE  /\ t \in nrppa_tid_gen
               /\ \A k \in Handlers : FreesId(k, t)' => k = g
    BY <1>2, <2>1, <2>3, <2>4, <2>6 DEF OneOwner
  <2> QED
    BY <1>4, <2>5, <2>6 DEF OneOwner
<1> QED
  BY <1>7, <1>10, <1>11, <1>12, <1>13 DEF IInv, RequestInv, AnswerMatches, HandlerInv

LEMMA FreeTxnStep ==
  ASSUME IInv, NEW h \in Handlers, FreeTxn(h), TypeOK'
  PROVE  IInv'
<1>1. hpc[h] = "free" /\ hpc[h] \in Served /\ hproc[h] \in Awaited
  BY DEF FreeTxn, Served, IInv, HandlerInv, HandlerOk
<1>2. /\ hctx[h] = hmsg[h].req /\ hproc[h] = hmsg[h].proc /\ hmsg[h].tid \in TIds
      /\ Current(hmsg[h])
  BY <1>1, ServedFacts
<1>3. /\ hpc'[h] \in {"unmap", "dispatch"} /\ OnlyOfHandler(h)
      /\ UNCHANGED <<requestVars, net, hmsg, hctx, hproc>>
      /\ nrppa_tid_gen' = nrppa_tid_gen \ {hmsg[h].tid}
  BY HandlersTyped DEF FreeTxn, HandlerTypes, HGoto, OnlyOfHandler, requestVars, appVars,
                       ctxVars, reqVars, locals, amfVars, free_uid
<1>4. /\ RequestInv' /\ AnswerMatches'
      /\ \A m : (Current(m)' <=> Current(m)) /\ (IsPending(m)' <=> IsPending(m))
  BY <1>3, SameRequests
<1>5. NetInv' /\ NetUnique'
  BY <1>3, <1>4 DEF IInv, NetInv, NetUnique
<1>6. ASSUME NEW g \in Handlers PROVE HandlerOk(g)'
  <2>1. HandlerOk(g)
    BY DEF IInv, HandlerInv
  <2>2. (Current(hmsg[g])' <=> Current(hmsg[g])) /\ (IsPending(hmsg[g])' <=> IsPending(hmsg[g]))
    BY <1>3 DEF Current, IsPending, requestVars
  <2>3. CASE g = h
    BY <1>1, <1>2, <1>3, <2>1, <2>2, <2>3 DEF HandlerOk, Active, Served, Unserved
  <2>4. CASE g # h
    BY <1>3, <2>1, <2>2, <2>4 DEF HandlerOk, Active, OnlyOfHandler
  <2> QED
    BY <2>3, <2>4
<1>7. NetOrHandler' /\ HandlerUnique'
  BY <1>1, <1>3 DEF OnlyOfHandler, IInv, NetOrHandler, HandlerUnique
<1>8. OneOwner'
  <2>1. ASSUME NEW q \in Requests, NEW t \in TIds, HoldsId(q, t)'
        PROVE  HoldsId(q, t) /\ t # hmsg[h].tid
    <3>1. HoldsId(q, t)
      BY <1>3, <2>1 DEF HoldsId, requestVars
    <3> QED
      BY <1>1, <3>1 DEF IInv, OneOwner, FreesId
  <2>2. ASSUME NEW g \in Handlers, NEW t \in TIds, FreesId(g, t)'
        PROVE  FreesId(g, t) /\ t # hmsg[h].tid
    <3>1. g # h /\ FreesId(g, t)
      BY <1>3, <2>2 DEF FreesId, OnlyOfHandler
    <3> QED
      BY <1>1, <3>1 DEF IInv, OneOwner, FreesId
  <2> QED
    BY <1>3, <2>1, <2>2 DEF IInv, OneOwner
<1> QED
  BY <1>4, <1>5, <1>6, <1>7, <1>8 DEF IInv, HandlerInv

LEMMA DeliverAnswerStep ==
  ASSUME IInv, NEW h \in Handlers, DeliverAnswer(h), TypeOK'
  PROVE  IInv'
<1>1. hpc[h] = "dispatch" /\ hpc[h] \in Served /\ hproc[h] \in Awaited /\ Return(h)
  BY DEF DeliverAnswer, Served
<1>2. PICK m : m = hmsg[h]
  OBVIOUS
<1>3. PICK q : q = m.req
  OBVIOUS
<1>4. /\ hctx[h] = q /\ hproc[h] = m.proc /\ m \in Messages /\ q \in Requests
      /\ Current(m) /\ m.proc \in Awaited
      /\ \A n \in net : n.req = q => n.proc \notin Awaited
      /\ \A g \in Handlers : g # h /\ hpc[g] # "idle" /\ hmsg[g].req = q
           => hmsg[g].proc \notin Awaited
  BY <1>1, <1>2, <1>3, ServedFacts
<1>5. UNCHANGED <<pc, phase, tId, target, nrppa_tId, nrppa_tid_gen, net>>
  BY DEF DeliverAnswer, appVars, reqVars, locals, amfVars
<1>6. CASE response' = response
  BY <1>1, <1>5, <1>6, ReturnStep DEF requestVars
<1>7. CASE response' = [response EXCEPT ![q][m.proc] = m]
  <2>1. /\ response'[q][m.proc] = m
        /\ \A r \in Requests : \A p \in Awaited :
             r # q \/ p # m.proc => response'[r][p] = response[r][p]
    BY <1>4, <1>7, RequestTyped DEF RequestTypes
  <2>2. hpc'[h] = "idle" /\ OnlyOfHandler(h)
    BY <1>1, HandlersTyped DEF HandlerTypes, Return, OnlyOfHandler
  <2>3. \/ pc[q] = "failed"
        \/ pc[q] \in {"reply", "wait"} /\ tId[q] = m.tid /\ target[q] = m.from
    BY <1>3, <1>4 DEF Current
  <2>4. ASSUME NEW r \in Requests PROVE RequestOk(r)' /\ AnswersMatch(r)'
    <3>1. RequestOk(r) /\ AnswersMatch(r)
      BY DEF IInv, RequestInv, AnswerMatches
    <3>2. CASE r # q
      BY <1>5, <2>1, <3>1, <3>2 DEF RequestOk, AnswersMatch
    <3>3. CASE r = q
      <4>1. RequestOk(r)'
        BY <1>5, <2>3, <3>1, <3>3 DEF RequestOk
      <4>2. ASSUME NEW p \in Awaited, response'[r][p] # None
            PROVE  /\ response'[r][p].req = r /\ response'[r][p].proc = p
                   /\ phase[r] = p /\ pc[r] \notin {"getUid", "register"} =>
                        /\ response'[r][p].tid = tId[r]
                        /\ response'[r][p].from = target[r]
        <5>1. CASE p = m.proc
          <6>1. pc[q] = "failed" => phase[q] # p
            BY <3>1, <3>3 DEF RequestOk, Awaited
          <6> QED
            BY <1>3, <2>1, <2>3, <3>3, <5>1, <6>1
        <5>2. CASE p # m.proc
          BY <2>1, <3>1, <4>2, <5>2 DEF AnswersMatch
        <5> QED
          BY <5>1, <5>2
      <4> QED
        BY <1>5, <4>1, <4>2 DEF AnswersMatch
    <3> QED
      BY <3>2, <3>3
  <2>5. ASSUME NEW n, n.req \in Requests, n.req = q => n.proc \notin Awaited
        PROVE  (Current(n) => Current(n)') /\ (IsPending(n) => IsPending(n)')
    BY <1>5, <2>1, <2>5 DEF Current, IsPending
  <2>6. NetInv'
    <3>1. ASSUME NEW n \in net PROVE Current(n)' /\ IsPending(n)'
      <4>1. n.req \in Requests
        BY CarriedCurrent DEF Carried
      <4>2. Current(n) /\ IsPending(n)
        BY DEF IInv, NetInv
      <4>3. n.req = q => n.proc \notin Awaited
        BY <1>4
      <4> QED
        BY <2>5, <4>1, <4>2, <4>3
    <3> QED
      BY <1>5, <3>1 DEF NetInv
  <2>7. ASSUME NEW g \in Handlers PROVE HandlerOk(g)'
    <3>1. CASE g = h
      BY <2>2, <3>1 DEF HandlerOk, Active, Unserved, Served
    <3>2. CASE g # h
      <4>1. HandlerOk(g)
        BY DEF IInv, HandlerInv
      <4>2. /\ hpc'[g] = hpc[g] /\ hmsg'[g] = hmsg[g]
            /\ hctx'[g] = hctx[g] /\ hproc'[g] = hproc[g]
        BY <2>2, <3>2 DEF OnlyOfHandler
      <4>3. CASE hpc[g] = "idle"
        BY <4>2, <4>3 DEF HandlerOk, Active, Unserved, Served
      <4>4. CASE hpc[g] # "idle"
        <5>1. PICK n : n = hmsg[g]
          OBVIOUS
        <5>2. n.req \in Requests /\ (n.req = q => n.proc \notin Awaited)
          BY <1>4, <3>2, <4>4, <5>1, HandlerTyped
        <5>3. (Current(n) => Current(n)') /\ (IsPending(n) => IsPending(n)')
          BY <2>5, <5>2
        <5>4. /\ Current(hmsg[g]) => Current(hmsg[g])'
              /\ IsPending(hmsg[g]) => IsPending(hmsg[g])'
          BY <4>2, <5>1, <5>3 DEF Current, IsPending
        <5> QED
          BY <4>1, <4>2, <5>4 DEF HandlerOk, Active
      <4> QED
        BY <4>3, <4>4
    <3> QED
      BY <3>1, <3>2
  <2>8. NetUnique' /\ NetOrHandler' /\ HandlerUnique'
    BY <1>5, <2>2 DEF OnlyOfHandler, IInv, NetUnique, NetOrHandler, HandlerUnique
  <2>9. OneOwner'
    <3>1. ASSUME NEW r \in Requests, NEW t \in TIds
          PROVE  HoldsId(r, t)' <=> HoldsId(r, t)
      BY <1>5 DEF HoldsId
    <3>2. ASSUME NEW g \in Handlers, NEW t \in TIds
          PROVE  FreesId(g, t)' => FreesId(g, t)
      BY <2>2 DEF FreesId, OnlyOfHandler
    <3> QED
      BY <1>5, <3>1, <3>2 DEF OneOwner, IInv
  <2> QED
    BY <2>4, <2>6, <2>7, <2>8, <2>9 DEF IInv, RequestInv, AnswerMatches, HandlerInv
<1> QED
  BY <1>2, <1>4, <1>6, <1>7 DEF DeliverAnswer

(* Every step of a notification thread preserves the invariant.            *)
LEMMA HandlerStepKeeps ==
  ASSUME PunctualAnswers, IInv, NEW h \in Handlers, HandlerStep(h), TypeOK'
  PROVE  IInv'
<1> USE DEF appVars, trpVars, ctxVars, locals, reqVars, amfVars, requestVars
<1>0. HandlerTypes
  BY HandlersTyped
<1>1. ASSUME NEW m \in net, ReceiveUe(h, m) PROVE IInv'
  BY <1>1, ReceiveStep DEF ReceiveUe
<1>2. ASSUME NEW m \in net, ReceiveNonUe(h, m) PROVE IInv'
  BY <1>2, ReceiveStep DEF ReceiveNonUe
<1>3. ASSUME hpc[h] # "idle", hpc'[h] # "free", hmsg'[h] = hmsg[h], OnlyOfHandler(h),
             HandlerOk(h)', UNCHANGED <<reqVars, ctxVars, nrppa_tid_gen, net>>
      PROVE  IInv'
  BY <1>3, HandlerMoves
<1>4. ASSUME Return(h), UNCHANGED <<reqVars, ctxVars, nrppa_tid_gen, net>>
      PROVE  IInv'
  BY <1>4, ReturnStep
<1>5. HandlerOk(h)
  BY DEF IInv, HandlerInv
<1>6. CASE LookupSupi(h)
  <2>1. hpc[h] = "lookup" /\ hpc'[h] = "context" /\ OnlyOfHandler(h) /\ hmsg' = hmsg
    BY <1>0, <1>6 DEF LookupSupi, HGoto, HandlerTypes, OnlyOfHandler
  <2>2. HandlerOk(h)'
    BY <1>5, <1>6, <2>1
       DEF LookupSupi, HandlerOk, Active, Unserved, Served, Current, IsPending
  <2> QED
    BY <1>3, <1>6, <2>1, <2>2 DEF LookupSupi
<1>7. CASE UnknownId(h)
  BY <1>4, <1>7 DEF UnknownId
<1>8. CASE FindContext(h)
  <2>1. hpc[h] = "context" /\ hpc'[h] = "check" /\ OnlyOfHandler(h) /\ hmsg' = hmsg
    BY <1>0, <1>8 DEF FindContext, HGoto, HandlerTypes, OnlyOfHandler
  <2>2. HandlerOk(h)'
    BY <1>5, <1>8, <2>1
       DEF FindContext, HandlerOk, Active, Unserved, Served, Current, IsPending
  <2> QED
    BY <1>3, <1>8, <2>1, <2>2 DEF FindContext
<1>9. CASE UnknownSupi(h)
  BY <1>4, <1>9 DEF UnknownSupi
<1>10. CASE CheckPending(h)
  BY <1>10, CheckPendingStep
<1>11. CASE UnknownTransaction(h)
  BY <1>4, <1>11 DEF UnknownTransaction
<1>12. CASE EraseTxn(h)
  BY <1>12, EraseTxnStep
<1>13. CASE FreeTxn(h)
  BY <1>13, FreeTxnStep
<1>14. CASE UnmapTxn(h)
  <2>1. /\ hpc[h] = "unmap" /\ hpc'[h] = "dispatch" /\ OnlyOfHandler(h)
        /\ UNCHANGED <<hmsg, hctx, hproc>>
    BY <1>0, <1>14 DEF UnmapTxn, HGoto, HandlerTypes, OnlyOfHandler
  <2>2. HandlerOk(h)'
    BY <1>5, <1>14, <2>1
       DEF UnmapTxn, HandlerOk, Active, Unserved, Served, Current, IsPending
  <2> QED
    BY <1>3, <1>14, <2>1, <2>2 DEF UnmapTxn
<1>15. CASE UnmappedTwice(h)
  BY <1>4, <1>15 DEF UnmappedTwice
<1>16. CASE RejectMismatch(h)
  BY <1>4, <1>16 DEF RejectMismatch
<1>17. CASE DeliverTrp(h)
  BY <1>4, <1>17 DEF DeliverTrp
<1>18. CASE DeliverAnswer(h)
  BY <1>18, DeliverAnswerStep
<1> QED
  BY <1>1, <1>2, <1>6, <1>7, <1>8, <1>9, <1>10, <1>11, <1>12, <1>13, <1>14, <1>15,
     <1>16, <1>17, <1>18 DEF HandlerStep

-----------------------------------------------------------------------------
(* The theorems *)

LEMMA InvariantInit == Init => IInv
<1> SUFFICES ASSUME Init PROVE IInv
  OBVIOUS
<1>1. TypeOK
  BY TypeInit
<1>2. \A h \in Handlers : hpc[h] = "idle"
  BY DEF Init
<1>3. \A r \in Requests : pc[r] = "start" /\ phase[r] = "TRP"
  BY DEF Init
<1>4. OneOwner
  BY <1>2, <1>3 DEF Init, OneOwner, HoldsId, FreesId
<1>5. RequestInv
  BY <1>3 DEF RequestInv, RequestOk
<1>6. HandlerInv /\ HandlerUnique
  BY <1>2 DEF HandlerInv, HandlerOk, Active, Unserved, Served, HandlerUnique
<1>7. NetInv /\ NetUnique /\ NetOrHandler
  BY DEF Init, NetInv, NetUnique, NetOrHandler
<1>8. AnswerMatches
  BY DEF Init, AnswerMatches, AnswersMatch
<1> QED
  BY <1>1, <1>4, <1>5, <1>6, <1>7, <1>8 DEF IInv

LEMMA InvariantStutters ==
  ASSUME IInv, UNCHANGED vars
  PROVE  IInv'
<1> USE DEF vars, appVars, trpVars, ctxVars, locals, reqVars, hVars, amfVars
<1>1. TypeOK'
  BY DEF IInv, TypeOK, LocalsSet
<1>2. OneOwner'
  BY DEF IInv, OneOwner, HoldsId, FreesId
<1>3. RequestInv'
  BY DEF IInv, RequestInv, RequestOk
<1>4. NetInv' /\ NetUnique'
  BY DEF IInv, NetInv, NetUnique, Current, IsPending
<1>5. HandlerInv'
  BY DEF IInv, HandlerInv, HandlerOk, Active, Current, IsPending
<1>6. NetOrHandler' /\ HandlerUnique'
  BY DEF IInv, NetOrHandler, HandlerUnique
<1>7. AnswerMatches'
  BY DEF IInv, AnswerMatches, AnswersMatch
<1> QED
  BY <1>1, <1>2, <1>3, <1>4, <1>5, <1>6, <1>7 DEF IInv

(* With punctual answers, wherever requests and notification threads are,  *)
(* they agree on the transaction they share.                               *)
THEOREM Agreement ==
  ASSUME PunctualAnswers
  PROVE  Spec => []IInv
<1>1. IInv /\ [Next]_vars => IInv'
  <2> SUFFICES ASSUME IInv, [Next]_vars PROVE IInv'
    OBVIOUS
  <2>1. TypeOK'
    BY TypeInductive DEF IInv
  <2>2. ASSUME NEW r \in Requests, RequestStep(r) PROVE IInv'
    BY <2>1, <2>2, RequestStepKeeps
  <2>3. ASSUME NEW h \in Handlers, HandlerStep(h) PROVE IInv'
    BY <2>1, <2>3, HandlerStepKeeps
  <2>4. CASE UNCHANGED vars
    BY <2>4, InvariantStutters
  <2> QED
    BY <2>2, <2>3, <2>4 DEF Next, Terminated
<1> QED
  BY InvariantInit, <1>1, PTL DEF Spec

(* No id is handed out while a request or a notification thread still has  *)
(* to give it back, and none is given back twice.                          *)
THEOREM IdsHaveOneOwner ==
  ASSUME PunctualAnswers
  PROVE  Spec => []OneOwner
<1>1. IInv => OneOwner
  BY DEF IInv
<1> QED
  BY Agreement, <1>1, PTL

(* A request is given no answer but its own.                               *)
THEOREM AnswersReachTheirRequest ==
  ASSUME PunctualAnswers
  PROVE  Spec => []AnswerMatches
<1>1. IInv => AnswerMatches
  BY DEF IInv
<1> QED
  BY Agreement, <1>1, PTL

=============================================================================
