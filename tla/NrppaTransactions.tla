------------------------- MODULE NrppaTransactions -------------------------
(***************************************************************************)
(* NRPPa transactions of the LMF: the threads that serve determine-        *)
(* location requests run one transaction after the other (TRP information, *)
(* positioning information, positioning activation, one measurement per    *)
(* gNB), each under an id of nrppa_tid_gen that is entered in the tables   *)
(* by which the threads that serve the AMF's notifications find it again.  *)
(*                                                                         *)
(* An action is one access to one shared structure (lmf_app.cpp and        *)
(* lmf_location_determination.cpp take a lock per access, or none), so the *)
(* two kinds of threads interleave as they do in the program.  A request   *)
(* owns the LocationDetermination it creates: the request's name stands    *)
(* for that object too.                                                    *)
(***************************************************************************)
EXTENDS Integers, FiniteSets

CONSTANTS
  Requests,        \* determine-location requests; each served by a thread of its own
  Handlers,        \* server threads that serve AMF notifications
  Supis,           \* subscribers
  SupiOf,          \* the subscriber each request locates
  TIds,            \* ids nrppa_tid_gen can hand out
  Gnbs,            \* gNB ids (positive: 0 stands for "before the first gNB")
  None,            \* absent entry, unset promise, free mutex, nullptr
  NumGnb,          \* lmf_cfg.num_gnb
  DetermineNumGnb, \* lmf_cfg.determine_num_gnb
  MaxRedeliveries, \* how often the AMF repeats a notification (0: never)
  LateTrpAnswers   \* may TRP answers arrive after trp_info_wait_ms is over?

Awaited == {"PosInfo", "PosAct", "Meas"}  \* procedures answered through a promise
Procs   == Awaited \cup {"TRP"}
NonUe   == {"TRP", "Meas"}                \* procedures sent as non-UE N2 messages

(* What a gNB answers.  A measurement response without the list of results *)
(* is incomplete and sets no promise; a positioning information response   *)
(* without the SRS configuration sets an exception, to the waiting request *)
(* a failure like the other; a TRP information response that names no gNB  *)
(* is to the LMF like one that never came.                                 *)
Answers      == {"success", "failure", "incomplete"}
AnswersTo(p) == IF p = "Meas" THEN Answers ELSE Answers \ {"incomplete"}

(* An answer: the id and procedure it carries, the request it answers and  *)
(* the gNB it is from or, for a UE procedure, the request's target then.   *)
Messages == {m \in [tid : TIds, proc : Procs, req : Requests,
                    from : Gnbs \cup {0}, ans : Answers] :
               m.proc = "TRP" => m.from \in Gnbs}

ASSUME ConstantsAssumption ==
  /\ SupiOf \in [Requests -> Supis]
  /\ Gnbs \subseteq Nat \ {0}
  /\ NumGnb \in Nat \ {0}
  /\ DetermineNumGnb \in BOOLEAN
  /\ MaxRedeliveries \in Nat
  /\ LateTrpAnswers \in BOOLEAN

ASSUME NoneAssumption ==
  None \notin Requests \cup Supis \cup TIds \cup Procs \cup Messages

VARIABLES
  supi2ctx,         \* SUPI -> the context registered for it
  nrppaTxnId2supi,  \* id -> SUPI, for notifications that name no UE
  nrppa_tid_gen,    \* ids handed out and not freed
  gnb,              \* gNBs whose TRP information was received
  trp_info_err,     \* TRP information failures received
  cv_m_gnb,         \* request that holds the mutex over gnb and trp_info_err
  nrppa_tId,        \* per context: id -> procedure pending under it
  response,         \* per context: the three promises
  pc,               \* where each request thread is
  phase,            \* the procedure it runs
  tId,              \* the id it runs it under
  target,           \* gNB it measures: the iterator of the loop over gnb
  hpc,              \* where each notification thread is
  hmsg,             \* the notification it handles
  hsupi,            \* supi argument of handle_n2info_nrppa_notification
  hctx,             \* its local ctx
  hproc,            \* its local procedureCode
  net,              \* answers of the gNBs on their way to the LMF
  redelivered       \* notifications the AMF has repeated

appVars == <<supi2ctx, nrppaTxnId2supi, nrppa_tid_gen>>
trpVars == <<gnb, trp_info_err, cv_m_gnb>>
ctxVars == <<nrppa_tId, response>>
locals  == <<phase, tId, target>>
reqVars == <<pc, locals>>
hVars   == <<hpc, hmsg, hsupi, hctx, hproc>>
amfVars == <<net, redelivered>>
vars    == <<appVars, trpVars, ctxVars, reqVars, hVars, amfVars>>

Init ==
  /\ supi2ctx = [s \in Supis |-> None]
  /\ nrppaTxnId2supi = [t \in TIds |-> None]
  /\ nrppa_tid_gen = {}
  /\ gnb = {} /\ trp_info_err = 0 /\ cv_m_gnb = None
  /\ nrppa_tId = [r \in Requests |-> [t \in TIds |-> None]]
  /\ response = [r \in Requests |-> [p \in Awaited |-> None]]
  /\ pc = [r \in Requests |-> "start"]
  /\ phase = [r \in Requests |-> "TRP"]
  /\ tId = [r \in Requests |-> None]
  /\ target = [r \in Requests |-> 0]
  /\ hpc = [h \in Handlers |-> "idle"]
  /\ hmsg = [h \in Handlers |-> None]
  /\ hsupi = [h \in Handlers |-> None]
  /\ hctx = [h \in Handlers |-> None]
  /\ hproc = [h \in Handlers |-> None]
  /\ net = {} /\ redelivered = 0

RequestLabels == {"start", "trpInfo", "getUid", "register", "insert", "post",
                  "refused", "reply", "wait", "trpFree", "trpErase", "compute",
                  "done", "failed"}
OwnIdLabels   == {"register", "insert", "post", "refused", "reply", "wait",
                  "trpFree", "trpErase"}
HandlerLabels == {"idle", "lookup", "context", "check", "erase", "free",
                  "unmap", "dispatch"}

-----------------------------------------------------------------------------
(* Helpers *)

Goto(r, l) == pc' = [pc EXCEPT ![r] = l]

(* Mutant of Leave: the mutex is not released when an exception is thrown. *)
Leave_KeepsMutex(r, l) ==
  /\ Goto(r, l)
  /\ phase' = [phase EXCEPT ![r] = "TRP"]
  /\ tId' = [tId EXCEPT ![r] = None]
  /\ target' = [target EXCEPT ![r] = 0]
  /\ UNCHANGED cv_m_gnb

(* The thread leaves handle_determine_location: its locals are gone, and   *)
(* so is the unique_lock of trp_information if it had it.                  *)
Leave(r, l) ==
  /\ Goto(r, l)
  /\ phase' = [phase EXCEPT ![r] = "TRP"]
  /\ tId' = [tId EXCEPT ![r] = None]
  /\ target' = [target EXCEPT ![r] = 0]
  /\ cv_m_gnb' = IF cv_m_gnb = r THEN None ELSE cv_m_gnb

(* An exception: the context stays in supi2ctx.                            *)
Throw(r) == Leave(r, "failed")

ErasePending(r, t) == nrppa_tId' = [nrppa_tId EXCEPT ![r][t] = None]

free_uid(t) == nrppa_tid_gen' = nrppa_tid_gen \ {t}

(* The checks of trp_information after its wait, made under cv_m_gnb: any  *)
(* failure, fewer or more gNBs than configured, no gNB at all.             *)
TrpInfoComplete ==
  /\ trp_info_err = 0
  /\ DetermineNumGnb \/ Cardinality(gnb) = NumGnb
  /\ gnb # {}

(* The loop over gnb, an ordered map, moves to the next larger gNB id.     *)
GnbsAhead(r)  == {g \in gnb : g > target[r]}
IsFirst(r, g) == g \in GnbsAhead(r) /\ \A x \in GnbsAhead(r) : g <= x

(* No answer to r's TRP information request can still change anything.     *)
TrpAnswersServed(r) ==
  /\ \A m \in net : m.tid # tId[r]
  /\ \A h \in Handlers :
       hpc[h] \in {"lookup", "context", "check"} => hmsg[h].tid # tId[r]

-----------------------------------------------------------------------------
(* Request threads: handle_determine_location and what it calls            *)

(* create_lmf_context: a context of the same SUPI is replaced.             *)
CreateContext(r) ==
  /\ pc[r] = "start"
  /\ supi2ctx' = [supi2ctx EXCEPT ![SupiOf[r]] = r]
  /\ Goto(r, "trpInfo")
  /\ UNCHANGED <<nrppaTxnId2supi, nrppa_tid_gen, trpVars, ctxVars,
                 locals, hVars, amfVars>>

(* trp_information finds gNBs and returns ...                              *)
TrpInfoKnown(r) ==
  /\ pc[r] = "trpInfo" /\ cv_m_gnb = None
  /\ gnb # {}
  /\ phase' = [phase EXCEPT ![r] = "PosInfo"]
  /\ Goto(r, "getUid")
  /\ UNCHANGED <<appVars, trpVars, ctxVars, tId, target, hVars, amfVars>>

(* ... or asks all gNBs, and keeps the mutex until it waits.               *)
TrpInfoRequest(r) ==
  /\ pc[r] = "trpInfo" /\ cv_m_gnb = None
  /\ gnb = {}
  /\ cv_m_gnb' = r
  /\ Goto(r, "getUid")
  /\ UNCHANGED <<appVars, gnb, trp_info_err, ctxVars, locals, hVars, amfVars>>

GetUid(r) ==
  /\ pc[r] = "getUid"
  /\ \E t \in TIds \ nrppa_tid_gen :
       /\ nrppa_tid_gen' = nrppa_tid_gen \cup {t}
       /\ tId' = [tId EXCEPT ![r] = t]
  /\ Goto(r, "register")
  /\ UNCHANGED <<supi2ctx, nrppaTxnId2supi, trpVars, ctxVars, phase, target,
                 hVars, amfVars>>

(* Mutant of RegisterPending: only the TRP information request, a          *)
(* broadcast, is entered in nrppaTxnId2supi.                               *)
RegisterPending_TrpOnly(r) ==
  /\ pc[r] = "register"
  /\ response' = [response EXCEPT ![r] =
                    [p \in Awaited |-> IF p = phase[r] THEN None ELSE @[p]]]
  /\ nrppa_tId' = [nrppa_tId EXCEPT ![r][tId[r]] = phase[r]]
  /\ Goto(r, IF phase[r] = "TRP" THEN "insert" ELSE "post")
  /\ UNCHANGED <<appVars, trpVars, locals, hVars, amfVars>>

(* Mutant of RegisterPending: the promise of the last transaction is used  *)
(* again.                                                                  *)
RegisterPending_KeepsPromise(r) ==
  /\ pc[r] = "register"
  /\ nrppa_tId' = [nrppa_tId EXCEPT ![r][tId[r]] = phase[r]]
  /\ Goto(r, IF phase[r] \in NonUe THEN "insert" ELSE "post")
  /\ UNCHANGED <<response, appVars, trpVars, locals, hVars, amfVars>>

(* The promise is renewed and the id entered in the context's table.       *)
RegisterPending(r) ==
  /\ pc[r] = "register"
  /\ response' = [response EXCEPT ![r] =
                    [p \in Awaited |-> IF p = phase[r] THEN None ELSE @[p]]]
  /\ IF nrppa_tId[r][tId[r]] = None
     THEN /\ nrppa_tId' = [nrppa_tId EXCEPT ![r][tId[r]] = phase[r]]
          /\ Goto(r, IF phase[r] \in NonUe THEN "insert" ELSE "post")
          /\ UNCHANGED <<cv_m_gnb, locals>>
     ELSE /\ Throw(r)
          /\ UNCHANGED nrppa_tId
  /\ UNCHANGED <<appVars, gnb, trp_info_err, hVars, amfVars>>

(* insert_nrppaTxnId2supi, before the request is sent; it throws when the  *)
(* id still has an entry.                                                  *)
InsertSupi(r) ==
  /\ pc[r] = "insert"
  /\ nrppaTxnId2supi[tId[r]] = None
  /\ nrppaTxnId2supi' = [nrppaTxnId2supi EXCEPT ![tId[r]] = SupiOf[r]]
  /\ Goto(r, "post")
  /\ UNCHANGED <<supi2ctx, nrppa_tid_gen, trpVars, ctxVars, locals,
                 hVars, amfVars>>

InsertReuse(r) ==
  /\ pc[r] = "insert"
  /\ nrppaTxnId2supi[tId[r]] # None
  /\ Throw(r)
  /\ UNCHANGED <<appVars, gnb, trp_info_err, ctxVars, hVars, amfVars>>

Answer(r, g, a) == [tid |-> tId[r], proc |-> phase[r], req |-> r,
                    from |-> g, ans |-> a]

(* The AMF takes the message of a UE procedure (n1_n2_message_transfer):   *)
(* the UE's gNB may answer.  An answer that is lost is one never given.    *)
PostUe(r) ==
  /\ pc[r] = "post" /\ phase[r] \notin NonUe
  /\ \/ net' = net
     \/ \E a \in AnswersTo(phase[r]) : net' = net \cup {Answer(r, target[r], a)}
  /\ Goto(r, "reply")
  /\ UNCHANGED <<appVars, trpVars, ctxVars, locals, hVars, redelivered>>

(* The AMF takes a non-UE message (non_ue_n2_message_transfer): for TRP    *)
(* information any gNB may answer, for a measurement the addressed one.    *)
PostNonUe(r) ==
  /\ pc[r] = "post" /\ phase[r] \in NonUe
  /\ \E S \in SUBSET (IF phase[r] = "TRP" THEN Gnbs ELSE {target[r]}) :
       \E a \in [S -> AnswersTo(phase[r])] :
         net' = net \cup {Answer(r, g, a[g]) : g \in S}
  /\ Goto(r, "reply")
  /\ UNCHANGED <<appVars, trpVars, ctxVars, locals, hVars, redelivered>>

(* The AMF's reply names another cause: the id leaves the context's table, *)
PostRefused(r) ==
  /\ pc[r] = "post"
  /\ ErasePending(r, tId[r])
  /\ Goto(r, "refused")
  /\ UNCHANGED <<appVars, trpVars, response, locals, hVars, amfVars>>

(* Mutant of FreeRefused: the id does not go back.                         *)
FreeRefused_KeepsId(r) ==
  /\ pc[r] = "refused"
  /\ Throw(r)
  /\ UNCHANGED <<appVars, gnb, trp_info_err, ctxVars, hVars, amfVars>>

(* goes back to the generator and the request fails; the entry made by     *)
(* insert_nrppaTxnId2supi stays.                                           *)
FreeRefused(r) ==
  /\ pc[r] = "refused"
  /\ free_uid(tId[r])
  /\ Throw(r)
  /\ UNCHANGED <<supi2ctx, nrppaTxnId2supi, gnb, trp_info_err, ctxVars, hVars,
                 amfVars>>

(* The AMF's reply: the request waits; trp_information first clears the    *)
(* failures and gives up the mutex while it waits.                         *)
ReplyInitiated(r) ==
  /\ pc[r] = "reply"
  /\ Goto(r, "wait")
  /\ IF phase[r] = "TRP"
     THEN trp_info_err' = 0 /\ cv_m_gnb' = None
     ELSE UNCHANGED <<trp_info_err, cv_m_gnb>>
  /\ UNCHANGED <<appVars, gnb, ctxVars, locals, hVars, amfVars>>

(* No reply, or one that is not JSON: the parser's exception passes by the *)
(* clean-up of the transfer functions.                                     *)
ReplyUnreadable(r) ==
  /\ pc[r] = "reply"
  /\ Throw(r)
  /\ UNCHANGED <<appVars, gnb, trp_info_err, ctxVars, hVars, amfVars>>

(* trp_information stops waiting, notified or not, with the mutex again    *)
(* its own, and forgets the transaction in three steps.                    *)
TrpWaitEnds(r) ==
  /\ pc[r] = "wait" /\ phase[r] = "TRP" /\ cv_m_gnb = None
  /\ LateTrpAnswers \/ TrpAnswersServed(r)
  /\ cv_m_gnb' = r
  /\ ErasePending(r, tId[r])
  /\ Goto(r, "trpFree")
  /\ UNCHANGED <<appVars, gnb, trp_info_err, response, locals,
                 hVars, amfVars>>

TrpFree(r) ==
  /\ pc[r] = "trpFree"
  /\ free_uid(tId[r])
  /\ Goto(r, "trpErase")
  /\ UNCHANGED <<supi2ctx, nrppaTxnId2supi, trpVars, ctxVars, locals,
                 hVars, amfVars>>

(* erase_nrppaTxnId2Supi, which throws for an unknown id, and the checks.  *)
TrpInfoDone(r) ==
  /\ pc[r] = "trpErase"
  /\ nrppaTxnId2supi[tId[r]] # None /\ TrpInfoComplete
  /\ nrppaTxnId2supi' = [nrppaTxnId2supi EXCEPT ![tId[r]] = None]
  /\ cv_m_gnb' = None
  /\ phase' = [phase EXCEPT ![r] = "PosInfo"]
  /\ Goto(r, "getUid")
  /\ UNCHANGED <<supi2ctx, nrppa_tid_gen, gnb, trp_info_err, ctxVars, tId, target,
                 hVars, amfVars>>

TrpInfoFails(r) ==
  /\ pc[r] = "trpErase"
  /\ nrppaTxnId2supi[tId[r]] = None \/ ~TrpInfoComplete
  /\ nrppaTxnId2supi' = [nrppaTxnId2supi EXCEPT ![tId[r]] = None]
  /\ Throw(r)
  /\ UNCHANGED <<supi2ctx, nrppa_tid_gen, gnb, trp_info_err, ctxVars, hVars,
                 amfVars>>

(* wait_for_notification returns the answer and the request goes on: to    *)
(* the next procedure, the next gNB or the computation.                    *)
HasAnswer(r) ==
  /\ pc[r] = "wait" /\ phase[r] \in Awaited
  /\ response[r][phase[r]] # None

SrsConfigured(r) ==
  /\ HasAnswer(r) /\ response[r][phase[r]].ans = "success"
  /\ phase[r] = "PosInfo"
  /\ phase' = [phase EXCEPT ![r] = "PosAct"]
  /\ Goto(r, "getUid")
  /\ UNCHANGED <<appVars, trpVars, ctxVars, tId, target, hVars, amfVars>>

NextGnb(r) ==
  /\ HasAnswer(r) /\ response[r][phase[r]].ans = "success"
  /\ phase[r] # "PosInfo"
  /\ \E g \in gnb : IsFirst(r, g) /\ target' = [target EXCEPT ![r] = g]
  /\ phase' = [phase EXCEPT ![r] = "Meas"]
  /\ Goto(r, "getUid")
  /\ UNCHANGED <<appVars, trpVars, ctxVars, tId, hVars, amfVars>>

AllMeasured(r) ==
  /\ HasAnswer(r) /\ response[r][phase[r]].ans = "success"
  /\ phase[r] # "PosInfo" /\ GnbsAhead(r) = {}
  /\ Goto(r, "compute")
  /\ UNCHANGED <<appVars, trpVars, ctxVars, locals, hVars, amfVars>>

(* A failure: CauseError or exception.                                     *)
FailureTaken(r) ==
  /\ HasAnswer(r) /\ response[r][phase[r]].ans # "success"
  /\ Throw(r)
  /\ UNCHANGED <<appVars, gnb, trp_info_err, ctxVars, hVars, amfVars>>

(* Mutant of WaitTimeout: the id is freed but stays in the context.        *)
WaitTimeout_FreesId(r) ==
  /\ pc[r] = "wait" /\ phase[r] \in Awaited
  /\ response[r][phase[r]] = None
  /\ free_uid(tId[r])
  /\ Throw(r)
  /\ UNCHANGED <<supi2ctx, nrppaTxnId2supi, gnb, trp_info_err, ctxVars, hVars,
                 amfVars>>

(* Mutant of WaitTimeout: the transaction is forgotten and its id freed    *)
(* while its answer may still be on the way.                               *)
WaitTimeout_Forgets(r) ==
  /\ pc[r] = "wait" /\ phase[r] \in Awaited
  /\ response[r][phase[r]] = None
  /\ ErasePending(r, tId[r])
  /\ nrppaTxnId2supi' = [nrppaTxnId2supi EXCEPT ![tId[r]] = None]
  /\ free_uid(tId[r])
  /\ Throw(r)
  /\ UNCHANGED <<supi2ctx, gnb, trp_info_err, response, hVars, amfVars>>

(* positioning_wait_ms or measurement_wait_ms is over; the id stays in     *)
(* every table.                                                            *)
WaitTimeout(r) ==
  /\ pc[r] = "wait" /\ phase[r] \in Awaited
  /\ response[r][phase[r]] = None
  /\ Throw(r)
  /\ UNCHANGED <<appVars, gnb, trp_info_err, ctxVars, hVars, amfVars>>

(* compute_location, then del_supi_2_context by SUPI ...                   *)
Finish(r) ==
  /\ pc[r] = "compute"
  /\ supi2ctx' = [supi2ctx EXCEPT ![SupiOf[r]] = None]
  /\ Leave(r, "done")
  /\ UNCHANGED <<nrppaTxnId2supi, nrppa_tid_gen, gnb, trp_info_err, ctxVars, hVars,
                 amfVars>>

(* ... unless it throws (fewer than four TRPs measured).                   *)
ComputeFails(r) ==
  /\ pc[r] = "compute"
  /\ Throw(r)
  /\ UNCHANGED <<appVars, gnb, trp_info_err, ctxVars, hVars, amfVars>>

-----------------------------------------------------------------------------
(* Notification threads: handle_(non_ue_)n2info_nrppa_notification         *)

(* A handler that returns or throws.                                       *)
Return(h) ==
  /\ hpc' = [hpc EXCEPT ![h] = "idle"]
  /\ hmsg' = [hmsg EXCEPT ![h] = None]
  /\ hsupi' = [hsupi EXCEPT ![h] = None]
  /\ hctx' = [hctx EXCEPT ![h] = None]
  /\ hproc' = [hproc EXCEPT ![h] = None]

HGoto(h, l) == hpc' = [hpc EXCEPT ![h] = l]

(* The AMF may repeat a notification.                                      *)
Take(m) ==
  /\ m \in net
  /\ \/ net' = net \ {m} /\ UNCHANGED redelivered
     \/ /\ redelivered < MaxRedeliveries
        /\ redelivered' = redelivered + 1 /\ UNCHANGED net

(* A notification of a UE procedure carries the SUPI in its URI.           *)
ReceiveUe(h, m) ==
  /\ hpc[h] = "idle" /\ m.proc \notin NonUe
  /\ Take(m)
  /\ hmsg' = [hmsg EXCEPT ![h] = m]
  /\ hsupi' = [hsupi EXCEPT ![h] = SupiOf[m.req]]
  /\ HGoto(h, "context")
  /\ UNCHANGED <<appVars, trpVars, ctxVars, reqVars, hctx, hproc>>

(* Of a non-UE one the SUPI is looked up by the id: get_nrppaTxnId2Supi    *)
(* throws for an unknown one.                                              *)
ReceiveNonUe(h, m) ==
  /\ hpc[h] = "idle" /\ m.proc \in NonUe
  /\ Take(m)
  /\ hmsg' = [hmsg EXCEPT ![h] = m]
  /\ HGoto(h, "lookup")
  /\ UNCHANGED <<appVars, trpVars, ctxVars, reqVars, hsupi, hctx, hproc>>

LookupSupi(h) ==
  /\ hpc[h] = "lookup" /\ nrppaTxnId2supi[hmsg[h].tid] # None
  /\ hsupi' = [hsupi EXCEPT ![h] = nrppaTxnId2supi[hmsg[h].tid]]
  /\ HGoto(h, "context")
  /\ UNCHANGED <<appVars, trpVars, ctxVars, reqVars, hmsg, hctx, hproc, amfVars>>

UnknownId(h) ==
  /\ hpc[h] = "lookup" /\ nrppaTxnId2supi[hmsg[h].tid] = None
  /\ Return(h)
  /\ UNCHANGED <<appVars, trpVars, ctxVars, reqVars, amfVars>>

(* Mutant of FindContext: nullptr is not checked.                          *)
FindContext_Unchecked(h) ==
  /\ hpc[h] = "context"
  /\ hctx' = [hctx EXCEPT ![h] = supi2ctx[hsupi[h]]]
  /\ HGoto(h, "check")
  /\ UNCHANGED <<appVars, trpVars, ctxVars, reqVars, hmsg, hsupi, hproc, amfVars>>

(* supi_2_context; the handler returns false for an unknown SUPI.          *)
FindContext(h) ==
  /\ hpc[h] = "context" /\ supi2ctx[hsupi[h]] # None
  /\ hctx' = [hctx EXCEPT ![h] = supi2ctx[hsupi[h]]]
  /\ HGoto(h, "check")
  /\ UNCHANGED <<appVars, trpVars, ctxVars, reqVars, hmsg, hsupi, hproc, amfVars>>

UnknownSupi(h) ==
  /\ hpc[h] = "context" /\ supi2ctx[hsupi[h]] = None
  /\ Return(h)
  /\ UNCHANGED <<appVars, trpVars, ctxVars, reqVars, amfVars>>

Pending(h) == nrppa_tId[hctx[h]][hmsg[h].tid]

(* at(tId) gives the procedure; its entry is kept when it is TRP           *)
(* information: other gNBs may still answer.                               *)
CheckPending(h) ==
  /\ hpc[h] = "check" /\ Pending(h) # None
  /\ hproc' = [hproc EXCEPT ![h] = Pending(h)]
  /\ HGoto(h, IF Pending(h) = "TRP" THEN "dispatch" ELSE "erase")
  /\ UNCHANGED <<appVars, trpVars, ctxVars, reqVars, hmsg, hsupi, hctx, amfVars>>

(* count(tId) != 1 throws.                                                 *)
UnknownTransaction(h) ==
  /\ hpc[h] = "check" /\ Pending(h) = None
  /\ Return(h)
  /\ UNCHANGED <<appVars, trpVars, ctxVars, reqVars, amfVars>>

(* Mutant of EraseTxn: checkPC comes before free_uid, but after the erase. *)
EraseTxn_ChecksFirst(h) ==
  /\ hpc[h] = "erase"
  /\ ErasePending(hctx[h], hmsg[h].tid)
  /\ HGoto(h, IF hproc[h] = hmsg[h].proc THEN "free" ELSE "dispatch")
  /\ UNCHANGED <<appVars, trpVars, response, reqVars, hmsg, hsupi, hctx, hproc,
                 amfVars>>

EraseTxn(h) ==
  /\ hpc[h] = "erase"
  /\ ErasePending(hctx[h], hmsg[h].tid)
  /\ HGoto(h, "free")
  /\ UNCHANGED <<appVars, trpVars, response, reqVars, hmsg, hsupi, hctx, hproc,
                 amfVars>>

(* Mutant of FreeTxn: the entry of a measurement is not erased.            *)
FreeTxn_KeepsEntry(h) ==
  /\ hpc[h] = "free"
  /\ free_uid(hmsg[h].tid)
  /\ HGoto(h, "dispatch")
  /\ UNCHANGED <<supi2ctx, nrppaTxnId2supi, trpVars, ctxVars, reqVars,
                 hmsg, hsupi, hctx, hproc, amfVars>>

FreeTxn(h) ==
  /\ hpc[h] = "free"
  /\ free_uid(hmsg[h].tid)
  /\ HGoto(h, IF hproc[h] = "Meas" THEN "unmap" ELSE "dispatch")
  /\ UNCHANGED <<supi2ctx, nrppaTxnId2supi, trpVars, ctxVars, reqVars,
                 hmsg, hsupi, hctx, hproc, amfVars>>

(* erase_nrppaTxnId2Supi ...                                               *)
UnmapTxn(h) ==
  /\ hpc[h] = "unmap" /\ nrppaTxnId2supi[hmsg[h].tid] # None
  /\ nrppaTxnId2supi' = [nrppaTxnId2supi EXCEPT ![hmsg[h].tid] = None]
  /\ HGoto(h, "dispatch")
  /\ UNCHANGED <<supi2ctx, nrppa_tid_gen, trpVars, ctxVars, reqVars,
                 hmsg, hsupi, hctx, hproc, amfVars>>

(* ... throws when another thread has erased the entry.                    *)
UnmappedTwice(h) ==
  /\ hpc[h] = "unmap" /\ nrppaTxnId2supi[hmsg[h].tid] = None
  /\ Return(h)
  /\ UNCHANGED <<appVars, trpVars, ctxVars, reqVars, amfVars>>

(* checkPC: the answer's procedure must be the pending one; only now, with *)
(* the transaction already gone.                                           *)
RejectMismatch(h) ==
  /\ hpc[h] = "dispatch" /\ hproc[h] # hmsg[h].proc
  /\ Return(h)
  /\ UNCHANGED <<appVars, trpVars, ctxVars, reqVars, amfVars>>

(* TRP information: the gNB is recorded, or the failure is.                *)
DeliverTrp(h) ==
  /\ hpc[h] = "dispatch" /\ hproc[h] = hmsg[h].proc /\ hproc[h] = "TRP"
  /\ cv_m_gnb = None
  /\ gnb' = IF hmsg[h].ans = "success" THEN gnb \cup {hmsg[h].from} ELSE gnb
  /\ trp_info_err' = trp_info_err + (IF hmsg[h].ans = "failure" THEN 1 ELSE 0)
  /\ Return(h)
  /\ UNCHANGED <<appVars, cv_m_gnb, ctxVars, reqVars, amfVars>>

(* The promise of the procedure is set, once: set_value throws when it is  *)
(* set already.  An incomplete measurement response sets nothing.          *)
DeliverAnswer(h) ==
  /\ hpc[h] = "dispatch" /\ hproc[h] = hmsg[h].proc /\ hproc[h] \in Awaited
  /\ response' =
       IF \/ response[hctx[h]][hproc[h]] # None
          \/ hproc[h] = "Meas" /\ hmsg[h].ans = "incomplete"
       THEN response
       ELSE [response EXCEPT ![hctx[h]][hproc[h]] = hmsg[h]]
  /\ Return(h)
  /\ UNCHANGED <<appVars, trpVars, nrppa_tId, reqVars, amfVars>>

-----------------------------------------------------------------------------

RequestStep(r) ==
  \/ CreateContext(r) \/ TrpInfoKnown(r) \/ TrpInfoRequest(r)
  \/ GetUid(r) \/ RegisterPending(r) \/ InsertSupi(r) \/ InsertReuse(r)
  \/ PostUe(r) \/ PostNonUe(r) \/ PostRefused(r) \/ FreeRefused(r)
  \/ ReplyInitiated(r) \/ ReplyUnreadable(r)
  \/ TrpWaitEnds(r) \/ TrpFree(r) \/ TrpInfoDone(r) \/ TrpInfoFails(r)
  \/ SrsConfigured(r) \/ NextGnb(r) \/ AllMeasured(r) \/ FailureTaken(r) \/ WaitTimeout(r)
  \/ Finish(r) \/ ComputeFails(r)

HandlerStep(h) ==
  \/ \E m \in net : ReceiveUe(h, m)
  \/ \E m \in net : ReceiveNonUe(h, m)
  \/ LookupSupi(h) \/ UnknownId(h)
  \/ FindContext(h) \/ UnknownSupi(h)
  \/ CheckPending(h) \/ UnknownTransaction(h)
  \/ EraseTxn(h) \/ FreeTxn(h) \/ UnmapTxn(h) \/ UnmappedTwice(h)
  \/ RejectMismatch(h) \/ DeliverTrp(h) \/ DeliverAnswer(h)

Ended(r) == pc[r] \in {"done", "failed"}

(* All requests are answered and all notifications served.                 *)
Terminated ==
  /\ \A r \in Requests : Ended(r)
  /\ \A h \in Handlers : hpc[h] = "idle"
  /\ net = {}
  /\ UNCHANGED vars

Next ==
  \/ \E r \in Requests : RequestStep(r)
  \/ \E h \in Handlers : HandlerStep(h)
  \/ Terminated

Spec == Init /\ [][Next]_vars

(* Threads run; the HTTP client returns and waits end, so no step of a     *)
(* thread that can be taken for ever is put off for ever.                  *)
Fairness ==
  /\ \A r \in Requests : WF_vars(RequestStep(r))
  /\ \A h \in Handlers : WF_vars(HandlerStep(h))

FairSpec == Spec /\ Fairness

-----------------------------------------------------------------------------
(* Properties *)

LocalsSet ==
  /\ \A r \in Requests :
       pc[r] \in OwnIdLabels => tId[r] # None
  /\ \A h \in Handlers :
       /\ hpc[h] # "idle" => hmsg[h] # None
       /\ hpc[h] \notin {"idle", "lookup"} => hsupi[h] # None
       /\ hpc[h] \notin {"idle", "lookup", "context"} => hctx[h] # None
       /\ hpc[h] \in {"erase", "free", "unmap", "dispatch"} => hproc[h] # None

TypeOK ==
  /\ supi2ctx \in [Supis -> Requests \cup {None}]
  /\ nrppaTxnId2supi \in [TIds -> Supis \cup {None}]
  /\ nrppa_tid_gen \subseteq TIds
  /\ gnb \subseteq Gnbs
  /\ trp_info_err \in Nat
  /\ cv_m_gnb \in Requests \cup {None}
  /\ nrppa_tId \in [Requests -> [TIds -> Procs \cup {None}]]
  /\ response \in [Requests -> [Awaited -> Messages \cup {None}]]
  /\ pc \in [Requests -> RequestLabels]
  /\ phase \in [Requests -> Procs]
  /\ tId \in [Requests -> TIds \cup {None}]
  /\ target \in [Requests -> Gnbs \cup {0}]
  /\ hpc \in [Handlers -> HandlerLabels]
  /\ hmsg \in [Handlers -> Messages \cup {None}]
  /\ hsupi \in [Handlers -> Supis \cup {None}]
  /\ hctx \in [Handlers -> Requests \cup {None}]
  /\ hproc \in [Handlers -> Procs \cup {None}]
  /\ net \subseteq Messages
  /\ redelivered \in 0..MaxRedeliveries
  /\ LocalsSet

(* r or h still has to give id t back to the generator.                    *)
HoldsId(r, t) ==
  \/ nrppa_tId[r][t] # None
  \/ pc[r] \in {"register", "refused", "trpFree"} /\ tId[r] = t
FreesId(h, t) == hpc[h] = "free" /\ hmsg[h].tid = t

(* An id that a request or a notification thread still has to give back is *)
(* handed out to nobody else: erase-before-free in every path, and at most *)
(* one thread per transaction that frees.                                  *)
OneOwner ==
  \A t \in TIds :
    /\ \A r \in Requests : HoldsId(r, t) =>
         /\ t \in nrppa_tid_gen
         /\ \A q \in Requests : HoldsId(q, t) => q = r
         /\ \A h \in Handlers : ~FreesId(h, t)
    /\ \A h \in Handlers : FreesId(h, t) =>
         /\ t \in nrppa_tid_gen
         /\ \A g \in Handlers : FreesId(g, t) => g = h

(* No id is lost: each one handed out is with somebody who can still give  *)
(* it back.  So an answer that consumes a transaction it does not fit, or  *)
(* one that comes a second time, takes the id with it only to free it.     *)
NoIdLost ==
  \A t \in nrppa_tid_gen :
    \/ \E r \in Requests : HoldsId(r, t)
    \/ \E h \in Handlers : FreesId(h, t)

(* The generator cannot run dry faster than requests come: no id is lost,  *)
(* and a request that failed keeps at most one.                            *)
IdsAccounted ==
  /\ NoIdLost
  /\ \A r \in Requests : \A t, u \in TIds :
       HoldsId(r, t) /\ HoldsId(r, u) => t = u

AnswersMatch(r) ==
  \A p \in Awaited :
    LET m == response[r][p]
    IN m # None =>
         /\ m.req = r /\ m.proc = p
         /\ phase[r] = p /\ pc[r] \notin {"getUid", "register"} =>
              m.tid = tId[r] /\ m.from = target[r]

(* A promise only ever holds the answer to the request of its own context, *)
(* for its own procedure, and never that of an earlier transaction while a *)
(* later one is awaited (a measurement of another gNB or of another UE).   *)
AnswerMatches == \A r \in Requests : AnswersMatch(r)

(* "prepare receiving n2 notification before sending request": an answer   *)
(* on its way to a request that still waits for it finds the SUPI (non-UE) *)
(* and the pending procedure under its id, however early it arrives.       *)
AnswerFindsTransaction ==
  \A m \in net : \A r \in Requests :
    /\ m.req = r /\ m.tid = tId[r] /\ m.proc = phase[r]
    /\ pc[r] \in {"reply", "wait"}
    => /\ nrppa_tId[r][m.tid] = m.proc
       /\ m.proc \in NonUe => nrppaTxnId2supi[m.tid] = SupiOf[r]

(* A request that succeeded leaves nothing behind: no id, no answer of its *)
(* own under way, and no entry of nrppaTxnId2supi that a later transaction *)
(* under the same id could trip over: an entry for its subscriber is that  *)
(* of another request for the same, which failed or still runs under it.   *)
DoneHoldsNothing ==
  \A r \in Requests : pc[r] = "done" =>
    \A t \in TIds :
      /\ ~HoldsId(r, t)
      /\ \A m \in net : m.req = r => m.proc = "TRP"
      /\ nrppaTxnId2supi[t] = SupiOf[r] =>
           \E q \in Requests :
             /\ SupiOf[q] = SupiOf[r]
             /\ pc[q] = "failed" \/ tId[q] = t

(* Every determine-location request is answered in the end.                *)
EveryRequestEnds == <>(\A r \in Requests : Ended(r))

-----------------------------------------------------------------------------
(* What the code's own text says, and the runs refute                      *)

(* "for reuse": an id that free_uid gave back can be used again, so no     *)
(* request fails with "nrppa id ... reuse".                                *)
FreedIdReusable ==
  \A r \in Requests : pc[r] = "insert" => nrppaTxnId2supi[tId[r]] = None

=============================================================================
