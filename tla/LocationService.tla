-------------------------- MODULE LocationService --------------------------
(***************************************************************************)
(* The location service around the transactions: the threads of the HTTP   *)
(* server, the contexts by SUPI and the subscriptions at the AMF, without  *)
(* which no answer of a gNB reaches the LMF (lmf_app.cpp, the two          *)
(* subscription classes, lmf-http2-server.cpp and api_server/).            *)
(*                                                                         *)
(* A request keeps its thread until it is answered, and there is one gNB.  *)
(* A transaction is one question and one answer here: ids and promises are *)
(* the subject of NrppaTransactions, and the information and activation    *)
(* procedures, which use the same subscription, are one transaction.       *)
(* Waits are long: they run out only when the answer is lost or no thread  *)
(* is left to take it.                                                     *)
(***************************************************************************)
EXTENDS Integers, FiniteSets

CONSTANTS
  Requests,    \* determine-location requests
  Supis,       \* subscribers
  NonUe,       \* the key of the non-UE subscription among the SUPIs
  None,        \* no request, no SUPI
  Unserved,    \* requests the AMF or a gNB may fail
  MaxThreads,  \* bound of the model: threads of the server
  MaxLost      \* bound of the model: subscriptions the AMF keeps

ASSUME ConstantsAssumption ==
  /\ IsFiniteSet(Requests) /\ Unserved \subseteq Requests
  /\ NonUe \notin Supis /\ None \notin Requests \cup Supis
  /\ MaxThreads \in Nat \ {0} /\ MaxLost \in Nat

Keys   == Supis \cup {NonUe}
Stages == {"trp", "positioning", "measurement"}

VARIABLES
  lmf_cfg,        \* which of the two servers runs, with how many threads
  supi,           \* per request: the subscriber it asks for
  pc,             \* per request: what its thread does
  stage,          \* per request: its transaction
  supi2ctx,       \* per SUPI: the request that made its context
  subscriptions,  \* keys of supi2n1n2subs, and of nonUeN2MessageSubscription
  owner,          \* who holds m_supi2n1n2subs and m_non_ue_subs
  gnb,            \* is the gNB known?
  trp_info_err,   \* has it refused to tell its TRPs?
  response,       \* per request: has its transaction's promise been set?
  asked,          \* questions the gNBs have still to answer
  notifications,  \* the AMF's requests to the LMF that wait for a thread
  handling,       \* ... and that have one
  amf,            \* per key: the AMF's subscriptions
  lost            \* per key: those of them that the LMF does not know of

trpVars == <<gnb, trp_info_err>>
lmfVars == <<supi2ctx, subscriptions, owner, trpVars>>
netVars == <<asked, notifications, handling>>
amfVars == <<amf, lost>>
vars    == <<lmf_cfg, supi, pc, stage, lmfVars, response, netVars, amfVars>>

Locks   == {"m_supi2n1n2subs", "m_non_ue_subs"}
Lock(k) == IF k = NonUe THEN "m_non_ue_subs" ELSE "m_supi2n1n2subs"

LmfConfig == [use_http2 : BOOLEAN, http_threads_count : 1..MaxThreads]

Init ==
  /\ lmf_cfg \in LmfConfig
  /\ supi = [r \in Requests |-> None]
  /\ pc = [r \in Requests |-> "new"] /\ stage = [r \in Requests |-> "trp"]
  /\ supi2ctx = [s \in Supis |-> None]
  /\ subscriptions = {} /\ owner = [l \in Locks |-> None]
  /\ gnb = FALSE /\ trp_info_err = FALSE
  /\ response = [r \in Requests |-> FALSE]
  /\ asked = {} /\ notifications = {} /\ handling = {}
  /\ amf = [k \in Keys |-> 0] /\ lost = [k \in Keys |-> 0]

-----------------------------------------------------------------------------
(* Threads                                                                 *)

Releasing == {"releaseUe", "clearUe", "releaseNonUe", "resetNonUe"}
Ended(r)  == pc[r] \in {"located", "failed"}
Busy      == {r \in Requests : pc[r] # "new" /\ ~Ended(r)}
ThreadFree == Cardinality(Busy) + Cardinality(handling) < lmf_cfg.http_threads_count

Goto(r, label) == pc' = [pc EXCEPT ![r] = label]

(* An exception: both servers answer, and the HTTP/2 server goes on to     *)
(* release the subscriptions of all.                                       *)
Fail(r) == Goto(r, IF lmf_cfg.use_http2 THEN "releaseUe" ELSE "failed")

-----------------------------------------------------------------------------
(* handle_determine_location                                               *)

(* A thread takes the request; create_lmf_context replaces any context the *)
(* SUPI has.                                                               *)
Receive(r) ==
  /\ pc[r] = "new" /\ ThreadFree
  /\ \E s \in Supis :
       /\ supi' = [supi EXCEPT ![r] = s]
       /\ supi2ctx' = [supi2ctx EXCEPT ![s] = r]
  /\ Goto(r, "createNonUe")
  /\ UNCHANGED <<lmf_cfg, stage, subscriptions, owner, trpVars, response,
                 netVars, amfVars>>

(* The AMF is left with a subscription that the LMF does not know of.      *)
Lose(k) ==
  /\ lost[k] < MaxLost
  /\ lost' = [lost EXCEPT ![k] = @ + 1]

(* The key of the subscription that r is creating.                         *)
Creating(r) == IF pc[r] \in {"createNonUe", "postNonUe"} THEN NonUe ELSE supi[r]

(* create_non_ue_subscription and create_n1n2subscription: there is one    *)
(* already.                                                                *)
AlreadySubscribed(r) ==
  /\ pc[r] \in {"createNonUe", "createUe"}
  /\ owner[Lock(Creating(r))] = None
  /\ Creating(r) \in subscriptions
  /\ Goto(r, "ask")
  /\ stage' = [stage EXCEPT ![r] = IF pc[r] = "createUe" THEN "positioning" ELSE "trp"]
  /\ UNCHANGED <<lmf_cfg, supi, lmfVars, response, netVars, amfVars>>

(* Or else the constructor asks the AMF, with the mutex held.              *)
Subscribe(r) ==
  /\ pc[r] \in {"createNonUe", "createUe"}
  /\ owner[Lock(Creating(r))] = None
  /\ Creating(r) \notin subscriptions
  /\ owner' = [owner EXCEPT ![Lock(Creating(r))] = r]
  /\ Goto(r, IF pc[r] = "createUe" THEN "postUe" ELSE "postNonUe")
  /\ UNCHANGED <<lmf_cfg, supi, stage, supi2ctx, subscriptions, trpVars, response,
                 netVars, amfVars>>

Subscribed(r) ==
  /\ pc[r] \in {"postNonUe", "postUe"}
  /\ amf' = [amf EXCEPT ![Creating(r)] = @ + 1]
  /\ subscriptions' = subscriptions \cup {Creating(r)}
  /\ owner' = [owner EXCEPT ![Lock(Creating(r))] = None]
  /\ Goto(r, "ask")
  /\ stage' = [stage EXCEPT ![r] = IF pc[r] = "postUe" THEN "positioning" ELSE "trp"]
  /\ UNCHANGED <<lmf_cfg, supi, supi2ctx, trpVars, response, netVars, lost>>

(* The AMF's reply cannot be read; it may have subscribed the LMF.         *)
SubscribeFails(r) ==
  /\ pc[r] \in {"postNonUe", "postUe"} /\ r \in Unserved
  /\ \/ UNCHANGED amfVars
     \/ /\ amf' = [amf EXCEPT ![Creating(r)] = @ + 1]
        /\ Lose(Creating(r))
  /\ owner' = [owner EXCEPT ![Lock(Creating(r))] = None]
  /\ Fail(r)
  /\ UNCHANGED <<lmf_cfg, supi, stage, supi2ctx, subscriptions, trpVars, response, netVars>>

(* The TRPs are known: nothing to ask.                                     *)
TrpsKnown(r) == stage[r] = "trp" /\ gnb

AlreadyDone(r) ==
  /\ pc[r] = "ask" /\ TrpsKnown(r)
  /\ Goto(r, "createUe")
  /\ UNCHANGED <<lmf_cfg, supi, stage, lmfVars, response, netVars, amfVars>>

(* The transfer of one NRPPa message.                                      *)
Ask(r) ==
  /\ pc[r] = "ask" /\ ~TrpsKnown(r)
  /\ asked' = asked \cup {<<r, stage[r]>>}
  /\ response' = [response EXCEPT ![r] = FALSE]
  /\ \/ stage[r] = "trp" /\ trp_info_err' = FALSE
     \/ stage[r] # "trp" /\ UNCHANGED trp_info_err
  /\ Goto(r, "await")
  /\ UNCHANGED <<lmf_cfg, supi, stage, supi2ctx, subscriptions, owner, gnb,
                 notifications, handling, amfVars>>

(* The wait for TRP information looks at what all requests share, the      *)
(* others at their promise.                                                *)
Answered(r) == IF stage[r] = "trp" THEN gnb /\ ~trp_info_err ELSE response[r]

(* TRP information failed, whichever request asked.                        *)
TrpInfoFails(r) ==
  /\ pc[r] = "await" /\ stage[r] = "trp" /\ trp_info_err
  /\ Fail(r)
  /\ UNCHANGED <<lmf_cfg, supi, stage, lmfVars, response, netVars, amfVars>>

NextStage(r) ==
  /\ pc[r] = "await" /\ Answered(r) /\ stage[r] # "measurement"
  /\ Goto(r, IF stage[r] = "trp" THEN "createUe" ELSE "ask")
  /\ stage' = [stage EXCEPT ![r] =
                 IF @ = "trp" THEN @ ELSE "measurement"]
  /\ UNCHANGED <<lmf_cfg, supi, lmfVars, response, netVars, amfVars>>

(* Mutant of Locate: every request ends with release_non_ue_subscription.  *)
Locate_Unsubscribes(r) ==
  /\ pc[r] = "await" /\ Answered(r) /\ stage[r] = "measurement"
  /\ owner["m_non_ue_subs"] = None
  /\ supi2ctx' = [supi2ctx EXCEPT ![supi[r]] = None]
  /\ subscriptions' = subscriptions \ {NonUe}
  /\ amf' = [amf EXCEPT ![NonUe] = IF NonUe \in subscriptions THEN @ - 1 ELSE @]
  /\ Goto(r, "located")
  /\ UNCHANGED <<lmf_cfg, supi, stage, owner, trpVars, response, netVars, lost>>

(* The position is computed and whatever context the SUPI has deleted.     *)
Locate(r) ==
  /\ pc[r] = "await" /\ Answered(r) /\ stage[r] = "measurement"
  /\ supi2ctx' = [supi2ctx EXCEPT ![supi[r]] = None]
  /\ Goto(r, "located")
  /\ UNCHANGED <<lmf_cfg, supi, stage, subscriptions, owner, trpVars, response,
                 netVars, amfVars>>

(* A refused transfer, a failure of the gNB or an answer that is no use.   *)
Refused(r) ==
  /\ pc[r] \in {"ask", "await"} /\ r \in Unserved /\ ~TrpsKnown(r)
  /\ Fail(r)
  /\ UNCHANGED <<lmf_cfg, supi, stage, lmfVars, response, netVars, amfVars>>

(* The wait runs out: the answer is lost, or no thread is left for it.     *)
Timeout(r) ==
  /\ pc[r] = "await" /\ ~Answered(r) /\ ~(stage[r] = "trp" /\ trp_info_err)
  /\ <<r, stage[r]>> \notin asked \cup handling
  /\ <<r, stage[r]>> \in notifications => Cardinality(Busy) >= lmf_cfg.http_threads_count
  /\ Fail(r)
  /\ UNCHANGED <<lmf_cfg, supi, stage, lmfVars, response, netVars, amfVars>>

-----------------------------------------------------------------------------
(* Failed requests on the HTTP/2 server                                    *)

(* release_all_n1n2subscriptions clears the map with its mutex held, ...   *)
ReleaseAll(r) ==
  /\ pc[r] = "releaseUe" /\ owner["m_supi2n1n2subs"] = None
  /\ owner' = [owner EXCEPT !["m_supi2n1n2subs"] = r]
  /\ Goto(r, "clearUe")
  /\ UNCHANGED <<lmf_cfg, supi, stage, supi2ctx, subscriptions, trpVars, response,
                 netVars, amfVars>>

(* The destructor of a subscription deletes it at the AMF, or fails to.    *)
Unsubscribe(k) ==
  /\ subscriptions' = subscriptions \ {k}
  /\ \/ amf' = [amf EXCEPT ![k] = @ - 1] /\ UNCHANGED lost
     \/ Lose(k) /\ UNCHANGED amf

ClearOne(r) ==
  /\ pc[r] = "clearUe"
  /\ \E k \in subscriptions \ {NonUe} : Unsubscribe(k)
  /\ UNCHANGED <<lmf_cfg, supi, pc, stage, supi2ctx, owner, trpVars, response, netVars>>

Cleared(r) ==
  /\ pc[r] = "clearUe" /\ subscriptions \subseteq {NonUe}
  /\ owner' = [owner EXCEPT !["m_supi2n1n2subs"] = None]
  /\ Goto(r, "releaseNonUe")
  /\ UNCHANGED <<lmf_cfg, supi, stage, supi2ctx, subscriptions, trpVars, response,
                 netVars, amfVars>>

(* Mutant of ReleaseNonUe: the mutex is not taken.                         *)
ReleaseNonUe_Unlocked(r) ==
  /\ pc[r] = "releaseNonUe"
  /\ Goto(r, IF NonUe \in subscriptions THEN "resetNonUe" ELSE "failed")
  /\ UNCHANGED <<lmf_cfg, supi, stage, supi2ctx, subscriptions, owner, trpVars,
                 response, netVars, amfVars>>

(* ... and release_non_ue_subscription the pointer, if there is one.       *)
ReleaseNonUe(r) ==
  /\ pc[r] = "releaseNonUe" /\ owner["m_non_ue_subs"] = None
  /\ \/ /\ NonUe \in subscriptions
        /\ owner' = [owner EXCEPT !["m_non_ue_subs"] = r]
        /\ Goto(r, "resetNonUe")
     \/ /\ NonUe \notin subscriptions
        /\ Goto(r, "failed")
        /\ UNCHANGED owner
  /\ UNCHANGED <<lmf_cfg, supi, stage, supi2ctx, subscriptions, trpVars, response,
                 netVars, amfVars>>

ResetNonUe(r) ==
  /\ pc[r] = "resetNonUe"
  /\ Unsubscribe(NonUe)
  /\ owner' = [owner EXCEPT !["m_non_ue_subs"] = None]
  /\ Goto(r, "failed")
  /\ UNCHANGED <<lmf_cfg, supi, stage, supi2ctx, trpVars, response, netVars>>

-----------------------------------------------------------------------------
(* Answers                                                                 *)

KeyOf(m) == IF m[2] \in {"trp", "measurement"} THEN NonUe ELSE supi[m[1]]

(* The gNB answers; the AMF notifies the LMF if that is subscribed.        *)
Answer ==
  \E m \in asked :
    /\ asked' = asked \ {m}
    /\ notifications' = IF amf[KeyOf(m)] > 0 THEN notifications \cup {m}
                                             ELSE notifications
    /\ UNCHANGED <<lmf_cfg, supi, pc, stage, lmfVars, response, handling, amfVars>>

(* A thread takes a notification.                                          *)
Notify ==
  /\ ThreadFree
  /\ \E m \in notifications :
       /\ notifications' = notifications \ {m}
       /\ handling' = handling \cup {m}
  /\ UNCHANGED <<lmf_cfg, supi, pc, stage, lmfVars, response, asked, amfVars>>

(* It answers the transaction in progress of the context of the SUPI.      *)
Fits(m) ==
  /\ supi2ctx[supi[m[1]]] = m[1]
  /\ pc[m[1]] = "await" /\ stage[m[1]] = m[2]

HandleAnswer ==
  \E m \in handling :
    /\ Fits(m)
    /\ handling' = handling \ {m}
    /\ \/ m[2] = "trp" /\ gnb' = TRUE /\ UNCHANGED <<trp_info_err, response>>
       \/ /\ m[2] = "trp" /\ m[1] \in Unserved
          /\ trp_info_err' = TRUE
          /\ UNCHANGED <<gnb, response>>
       \/ /\ m[2] # "trp"
          /\ response' = [response EXCEPT ![m[1]] = TRUE]
          /\ UNCHANGED trpVars
    /\ UNCHANGED <<lmf_cfg, supi, pc, stage, supi2ctx, subscriptions, owner,
                   asked, notifications, amfVars>>

(* Mutant of HandleUnknown: the HTTP/1 server's unsubscribe finds its      *)
(* subscription.                                                           *)
HandleUnknown_Unsubscribes ==
  \E m \in handling :
    /\ ~Fits(m)
    /\ handling' = handling \ {m}
    /\ amf' = [amf EXCEPT ![KeyOf(m)] =
                 IF /\ ~lmf_cfg.use_http2 /\ KeyOf(m) # NonUe /\ @ > 0
                    /\ supi2ctx[supi[m[1]]] = None
                 THEN @ - 1 ELSE @]
    /\ UNCHANGED <<lmf_cfg, supi, pc, stage, lmfVars, response, asked,
                   notifications, lost>>

(* Or none: an error is answered.  The HTTP/1 server unsubscribes a SUPI   *)
(* without a context, but with the SUPI for the id and the id for the      *)
(* SUPI: the AMF has no such subscription.                                 *)
HandleUnknown ==
  \E m \in handling :
    /\ ~Fits(m)
    /\ handling' = handling \ {m}
    /\ UNCHANGED <<lmf_cfg, supi, pc, stage, lmfVars, response, asked,
                   notifications, amfVars>>

-----------------------------------------------------------------------------
RequestStep(r) ==
  \/ AlreadySubscribed(r) \/ Subscribe(r) \/ Subscribed(r) \/ SubscribeFails(r)
  \/ AlreadyDone(r) \/ Ask(r) \/ NextStage(r) \/ Locate(r)
  \/ Refused(r) \/ TrpInfoFails(r) \/ Timeout(r)
  \/ ReleaseAll(r) \/ ClearOne(r) \/ Cleared(r) \/ ReleaseNonUe(r) \/ ResetNonUe(r)

Terminated ==
  /\ \A r \in Requests : Ended(r)
  /\ asked = {} /\ notifications = {} /\ handling = {}
  /\ UNCHANGED vars

Next ==
  \/ \E r \in Requests : Receive(r) \/ RequestStep(r)
  \/ Answer \/ Notify \/ HandleAnswer \/ HandleUnknown
  \/ Terminated

(* Threads run, the HTTP client returns, and a question is answered or     *)
(* dropped.                                                                *)
Spec ==
  /\ Init /\ [][Next]_vars
  /\ \A r \in Requests : WF_vars(RequestStep(r))
  /\ WF_vars(Answer) /\ WF_vars(Notify) /\ WF_vars(HandleAnswer)
  /\ WF_vars(HandleUnknown)

-----------------------------------------------------------------------------
(* Properties *)

(* The types of the variables.                                             *)
TypeOK ==
  /\ lmf_cfg \in LmfConfig
  /\ supi \in [Requests -> Supis \cup {None}]
  /\ pc \in [Requests -> {"new", "createNonUe", "postNonUe", "createUe", "postUe",
                          "ask", "await", "located", "failed"} \cup Releasing]
  /\ stage \in [Requests -> Stages]
  /\ supi2ctx \in [Supis -> Requests \cup {None}]
  /\ subscriptions \subseteq Keys
  /\ owner \in [Locks -> Requests \cup {None}]
  /\ gnb \in BOOLEAN /\ trp_info_err \in BOOLEAN /\ response \in [Requests -> BOOLEAN]
  /\ asked \subseteq Requests \X Stages
  /\ notifications \subseteq Requests \X Stages
  /\ handling \subseteq Requests \X Stages
  /\ amf \in [Keys -> Nat] /\ lost \in [Keys -> Nat]

(* The requests that are changing one of the two tables, for as long as    *)
(* the AMF takes to answer.                                                *)
ChangingUe    == {r \in Requests : pc[r] \in {"postUe", "clearUe"}}
ChangingNonUe == {r \in Requests : pc[r] \in {"postNonUe", "resetNonUe"}}

(* A table is changed by one thread at a time, and what the thread saw     *)
(* there before it called the AMF still holds when the call returns: the   *)
(* subscription that it creates was created by no other, and the one that  *)
(* it deletes was not deleted under it (release against create, and        *)
(* release against release, of requests that fail together).               *)
OneAtWork ==
  /\ \A r, q \in ChangingUe : q = r
  /\ \A r, q \in ChangingNonUe : q = r
  /\ \A r \in Requests :
       /\ pc[r] \in {"postUe", "postNonUe"} => Creating(r) \notin subscriptions
       /\ pc[r] = "resetNonUe" => NonUe \in subscriptions

(* The LMF and the AMF agree on the subscriptions: one for every entry of  *)
(* the LMF's tables and no other, but for those whose creation or deletion *)
(* failed.                                                                 *)
SubscriptionsMatch ==
  \A k \in Keys : amf[k] = (IF k \in subscriptions THEN 1 ELSE 0) + lost[k]

(* Every determine-location is answered, and fails only for a reason       *)
(* (LocationRequests).                                                     *)
status == [r \in Requests |->
             IF pc[r] \in {"new", "located"} THEN pc[r]
             ELSE IF pc[r] \in Releasing \cup {"failed"} THEN "failed"
             ELSE "served"]

(* Others' failures reach every request of the HTTP/2 server, and on the   *)
(* HTTP/1 server those that wait for TRP information.                      *)
exposed == IF lmf_cfg.use_http2
           THEN Requests
           ELSE {r \in Requests : pc[r] = "await" /\ stage[r] = "trp"}

Abstract == INSTANCE LocationRequests WITH threads <- lmf_cfg.http_threads_count
Implements == Abstract!Spec

(* "Accepts a positioning request and returns the location result": with a *)
(* thread for every answer and the TRPs known, the only request for its    *)
(* subscriber does not fail when the network serves it.                    *)
OthersUnharmed ==
  lmf_cfg.http_threads_count > Cardinality(Requests) =>
    \A r \in Requests \ Unserved :
      pc[r] = "failed" /\ stage[r] # "trp" =>
        \E q \in Requests \ {r} : supi[q] = supi[r]

=============================================================================
