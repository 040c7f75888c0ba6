-------------------------- MODULE NrppaInvariant --------------------------
(***************************************************************************)
(* The inductive invariant behind OneOwner and AnswerMatches.  It says     *)
(* where the answer to each transaction can be and what its request, the   *)
(* context's table and the promise look like meanwhile.                    *)
(***************************************************************************)
EXTENDS NrppaTransactions

(* The environment the ownership of ids needs: the AMF repeats nothing and *)
(* no TRP information answer outlives the wait of trp_information.         *)
PunctualAnswers == MaxRedeliveries = 0 /\ LateTrpAnswers = FALSE

Unserved == {"lookup", "context", "check"}
Served   == {"erase", "free", "unmap", "dispatch"}

(* Handler h is busy with an answer that can still free an id or set a     *)
(* promise.                                                                *)
Active(h) ==
  \/ hpc[h] \in Unserved
  \/ hpc[h] \in Served /\ hmsg[h].proc \in Awaited

(* The request m answers waits for it with an empty promise, or has given  *)
(* up for good.                                                            *)
Current(m) ==
  \/ pc[m.req] = "failed"
  \/ /\ pc[m.req] \in {"reply", "wait"}
     /\ phase[m.req] = m.proc /\ tId[m.req] = m.tid
     /\ m.proc \in Awaited => /\ target[m.req] = m.from
                              /\ response[m.req][m.proc] = None

IsPending(m) == nrppa_tId[m.req][m.tid] = m.proc

(* What the position of a request says about its entry in nrppa_tId and    *)
(* about the promise it is going to wait for.                              *)
RequestOk(r) ==
  /\ pc[r] \in {"register", "refused", "trpFree"} => nrppa_tId[r][tId[r]] = None
  /\ pc[r] \in {"insert", "post"} =>
       /\ nrppa_tId[r][tId[r]] = phase[r]
       /\ phase[r] \in Awaited => response[r][phase[r]] = None
  /\ pc[r] \in {"reply", "wait"} /\ phase[r] = "TRP"
       => nrppa_tId[r][tId[r]] = "TRP"
  /\ pc[r] \in {"done", "failed"} => phase[r] = "TRP"

RequestInv == \A r \in Requests : RequestOk(r)

(* An answer on its way is current and its transaction pending, up to the  *)
(* step that consumes it.                                                  *)
NetInv == \A m \in net : Current(m) /\ IsPending(m)

HandlerOk(h) ==
  /\ Active(h) => Current(hmsg[h])
  /\ hpc[h] \in Unserved \cup {"erase"} => IsPending(hmsg[h])
  /\ hpc[h] \in Served => hctx[h] = hmsg[h].req /\ hproc[h] = hmsg[h].proc
  /\ hpc[h] \in Served \ {"dispatch"} => hproc[h] \in Awaited

HandlerInv == \A h \in Handlers : HandlerOk(h)

(* A request has at most one awaited answer, in the net or with a handler. *)
NetUnique ==
  \A m, n \in net :
    m.req = n.req /\ m.proc \in Awaited /\ n.proc \in Awaited => m = n
NetOrHandler ==
  \A m \in net : \A h \in Handlers :
    hpc[h] # "idle" /\ m.proc \in Awaited /\ hmsg[h].proc \in Awaited
      => m.req # hmsg[h].req
HandlerUnique ==
  \A g, h \in Handlers :
    /\ hpc[g] # "idle" /\ hpc[h] # "idle"
    /\ hmsg[g].proc \in Awaited /\ hmsg[h].proc \in Awaited
    /\ hmsg[g].req = hmsg[h].req
    => g = h

(* A request that is answered late, early or never, and a notification     *)
(* thread anywhere in its handler, agree on the transaction they share.    *)
IInv ==
  /\ TypeOK /\ OneOwner /\ RequestInv /\ NetInv /\ HandlerInv
  /\ NetUnique /\ NetOrHandler /\ HandlerUnique /\ AnswerMatches

-----------------------------------------------------------------------------
(* The invariant behind IdsAccounted, AnswerFindsTransaction and           *)
(* DoneHoldsNothing: who still needs an entry of nrppaTxnId2supi, who may  *)
(* have left one, and what a request can have pending in nrppa_tId.        *)

(* The request is between insert_nrppaTxnId2supi and the answer, or        *)
(* erases the entry itself (TRP information).                              *)
RequestUses(r, t) ==
  /\ tId[r] = t
  /\ \/ pc[r] = "post" /\ phase[r] \in NonUe
     \/ pc[r] \in {"reply", "wait"} /\ phase[r] = "TRP"
     \/ pc[r] \in {"trpFree", "trpErase"}

(* Its measurement is answered, and nobody has taken the answer yet, or    *)
(* the thread that has will erase the entry.                               *)
AnswerUses(r, t) == \E m \in net : m.req = r /\ m.tid = t /\ m.proc = "Meas"
HandlerUses(r, t) ==
  \E h \in Handlers :
    /\ hpc[h] \in Unserved \cup {"erase", "free", "unmap"}
    /\ hmsg[h].req = r /\ hmsg[h].tid = t /\ hmsg[h].proc = "Meas"

UsesEntry(r, t) == RequestUses(r, t) \/ AnswerUses(r, t) \/ HandlerUses(r, t)

EntryInv ==
  /\ \A t \in TIds : \A r \in Requests : UsesEntry(r, t) =>
       /\ nrppaTxnId2supi[t] = SupiOf[r]
       /\ \A q \in Requests : UsesEntry(q, t) => q = r
  /\ \A h \in Handlers : hpc[h] = "unmap" => hmsg[h].proc = "Meas"

(* A transaction is pending while its request waits for it, and for ever   *)
(* once the request has failed.                                            *)
HeldOk(r) ==
  \A t \in TIds : nrppa_tId[r][t] # None =>
    /\ \/ pc[r] = "failed"
       \/ /\ pc[r] \in {"insert", "post", "reply", "wait"} /\ tId[r] = t
          /\ phase[r] \in Awaited => response[r][phase[r]] = None
    /\ \A u \in TIds : nrppa_tId[r][u] # None => u = t

HeldInv ==
  /\ \A r \in Requests : HeldOk(r)
  /\ \A h \in Handlers :
       hpc[h] \in Served \ {"erase"} /\ hmsg[h].proc \in Awaited
         => nrppa_tId[hmsg[h].req][hmsg[h].tid] = None

(* The measurement that r waits for has no answer, and no thread is about  *)
(* to give it one.                                                         *)
Unanswered(r) ==
  /\ response[r]["Meas"] = None
  /\ \A h \in Handlers :
       hpc[h] = "dispatch" /\ hmsg[h].proc = "Meas" => hmsg[h].req # r

(* r may have left the entry under t: it failed, or runs the transaction.  *)
MayLeave(r, t) ==
  \/ pc[r] = "failed"
  \/ /\ tId[r] = t /\ phase[r] \in NonUe
     /\ pc[r] \in {"post", "refused", "reply", "wait", "trpFree", "trpErase"}
     /\ phase[r] = "Meas" => Unanswered(r)

(* An entry of nrppaTxnId2supi that is there is somebody's.                *)
LeftInv ==
  /\ \A t \in TIds : nrppaTxnId2supi[t] # None =>
       \E r \in Requests : SupiOf[r] = nrppaTxnId2supi[t] /\ MayLeave(r, t)
  /\ \A r \in Requests : pc[r] = "insert" => phase[r] \in NonUe

(* Entries are where those who still need them can find them, and nobody   *)
(* else has any.                                                           *)
AccountInv == EntryInv /\ HeldInv /\ LeftInv

=============================================================================
