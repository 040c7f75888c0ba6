# A verification project for the OAI location management function

The LMF answers one question of the 5G core, "where is this subscriber?". A
`determine-location` request makes it exchange NRPPa messages with the gNBs
through the AMF: for each transaction it sends an HTTP request to the AMF and
waits until another server thread receives the gNB's answer as a notification
from the AMF. The hard part of the program is that meeting of threads: ids drawn
from a generator, tables keyed by id and by SUPI, promises, a condition variable,
timeouts, and locks that cover one access at a time. This directory models it in
TLA+, model-checks it with TLC and proves its core with TLAPS.

Paths below are relative to `src/src/` of the repository.

## 1. Inventory

| part | source | state | operations | interacts with |
|---|---|---|---|---|
| lmf_app | `lmf_app/lmf_app.{hpp,cpp}` | `supi2ctx`, `nrppaTxnId2supi`, `gnb`, `trp_info_err` + `cv_gnb`/`cv_m_gnb`, `supi2n1n2subs`, `nonUeN2MessageSubscription`, `nrppa_tid_gen`, `measurement_id_gen` | `handle_determine_location`, `trp_information`, `handle_n2info_nrppa_notification`, `handle_non_ue_...`, create/delete of contexts and subscriptions | called by server threads; calls the AMF |
| LocationDetermination | `lmf_app/lmf_location_determination.{hpp,cpp}` | `nrppa_tId` (no lock), three promises, the measured results | the three requests, `handle_*_response/failure`, `wait_for_notification`, `compute_location` | one per context; written by request and notification threads |
| AMF subscriptions | `lmf_app/lmf_{n1_n2,non_ue_n2}_message_subscription.*` | the subscription's id | subscribe in the constructor, unsubscribe in the destructor (HTTP, with the owner's mutex held) | lmf_app, AMF |
| HTTP/2 server | `api_server/lmf-http2-server.*` | worker threads | three handlers; releases *all* subscriptions when one request fails | lmf_app |
| HTTP/1 server | `api_server/lmf-api-server.*`, `api_server/impl`, `api_server/api` | worker threads | the same operations | lmf_app |
| NRF client | `lmf_app/lmf_nrf.*` | heartbeat and retry connections | register, heartbeat, retry, deregister | NRF, lmf_event |
| timer | `lmf_app/lmf_event.*`, `lmf_app/task_manager.*` | signal slots; `terminate`, `terminated` | subscribe, tick every ms, stop | lmf_nrf, main |
| main | `oai_lmf/main.cpp` | the instances | start, signal handler | all |
| MIME parser | `common/mime_parser.*` | parts | parse, create | called by the notification handlers with what the AMF sent, by LocationDetermination to compose a request |
| position estimation | `lmf_app/position_estimation.*` | none | builds a linear system from differences of distance and has LAPACK solve it | compute_location |
| configuration, profile, URIs | `lmf_app/lmf_config*`, `lmf_profile.*`, `common/lmf_sbi_helper.*` | read at start | conversions | all |

Generated or vendored: `nrppa/`, `lpp/`, `common/libngap`, `common/unicode`. They are
more than 370,000 of the repository's 381,596 lines of code, so that any count of lines over the
whole tree is a count of `asn1c`'s output. Git submodules (the id
generator, HTTP client and models) are not in the repository: what the models say
of them is taken from how `src/` uses them, and is marked external in the map.

What is hard, and what makes each part correct:

* *transactions*: an id has one owner; an answer reaches the request it answers or
  nobody, early, late, twice or refused; a request ends; nothing is left behind.
* *TRP information*: one thread asks, the others find the gNBs; the waiter is
  woken; a partial answer is not taken for a complete one; nobody changes the map while
  a request reads it.
* *notifications*: a multipart message is taken apart as it was put together.
* *position*: each time of arrival is used at its TRP's position, in its unit, and the
  system that is solved has the true place as a solution.
* *contexts and subscriptions*: a request's context and subscription last as long
  as the request; nobody creates or deletes a subscription while another does.
* *worker threads*: a request occupies a thread while it waits for a notification
  that needs another one.
* *NRF*: heartbeat or retry, never both nor neither; the ticks hit every period;
  shutdown does not hang and nothing runs on deleted objects.

`PROJECT.json` lists every hazard with its line under `hazards`.

## 2. Modules

### NrppaTransactions

The core: request threads that run `handle_determine_location` and notification
threads that run the two `handle_*n2info_nrppa_notification`. One action is one
access to one shared structure, because that is all a lock covers in the code.

| state | code |
|---|---|
| `supi2ctx`, `nrppaTxnId2supi`, `gnb`, `trp_info_err` | members of `lmf_app` |
| `nrppa_tid_gen` | the ids in use of the id generator (external) |
| `cv_m_gnb` | owner of that mutex, kept over the AMF request and given up by the wait |
| `nrppa_tId[r]`, `response[r]` | the table and the promises of the context that request `r` created |
| `pc`, `phase`, `tId`, `target` | program counter, procedure, local `tId` and loop iterator of a request thread |
| `hpc`, `hmsg`, `hsupi`, `hctx`, `hproc` | the same of a notification thread |
| `net`, `redelivered` | answers on their way; how many the AMF has repeated |

The path of a transaction is `GetUid`, `RegisterPending`, `InsertSupi` (non-UE
only), `PostUe`/`PostNonUe`/`PostRefused`, `ReplyInitiated`/`ReplyUnreadable`, and
then `SrsConfigured`, `NextGnb`, `AllMeasured`, `FailureTaken` or `WaitTimeout`; for
TRP information `TrpWaitEnds`, `TrpFree`, `TrpInfoDone`/`TrpInfoFails`. A
notification is `ReceiveUe` or `ReceiveNonUe` + `LookupSupi`, `FindContext`,
`CheckPending`, `EraseTxn`, `FreeTxn`, `UnmapTxn`, and then `DeliverTrp`,
`DeliverAnswer` or `RejectMismatch`; every early return is an action of its own.

Abstracted: the content of a message is its id, procedure, addressee, sender and
whether it is a success, a failure or incomplete. The `cv_gnb` wait may end at any
time that the mutex is free: notified, predicate true or timed out are one outcome,
since the code tells them apart only through `gnb` and `trp_info_err`; the wait itself is
`TrpInformation`'s subject. The AMF subscriptions are the subject of `LocationService`. Not
repaired by the model: the unlocked `std::map` `nrppa_tId` is accessed by two threads, a data race whose outcomes here are the
interleavings of the accesses.

Two environment parameters say how the AMF and the gNBs behave.
`LateTrpAnswers = FALSE`: no answer to a TRP information request is still under way
when its wait ends. `MaxRedeliveries = 0`: no notification is repeated. Together
they are `PunctualAnswers`. Every other lateness is always allowed: answers to
UE procedures and measurements may come after the timeout, in any order, or never.

### NrppaInvariant

The inductive invariants `IInv` and `AccountInv` (section 4) in a module of their own, so that
TLC checks the formulas the proofs use.

### NrppaTransactions_proofs, NrppaInvariant_proofs, NrppaAccounts_proofs

The theorems (section 4).

### TrpInformation, TrpInformation_proofs

The condition variable: requests in `trp_information`, from the look at the map over the
question to the wait and what is checked after it, and the handlers of the gNBs' answers.

| state | code |
|---|---|
| `lmf_cfg` | `determine_num_gnb` and `num_gnb` |
| `pc[r]` | where the request is: `wait`, `notified` and `timedOut` are the wait set of `cv_gnb`, who was taken out of it, and whose `wait_for` ran out |
| `nrppa_tId[r]` | is the transaction still in the table of the request's context? |
| `cv_m_gnb` | who holds the mutex: a request, a handler or nobody |
| `trp[g]`, `trp_info_err` | TRPs of a gNB in the map `gnb`, 0 for one that is not there; size of the vector of errors |
| `answer[<<r, g>>]` | where the answer of a gNB to a request's question is |
| `added` | TRPs that the handler with the mutex has added |

A request is `AlreadyDone`, or `Lock`, `TrpInformationRequest` (`Refused`, `Unreadable`) and
`Wait`; then `Recheck` as often as it is notified for nothing, `Timeout` at any time, `WaitEnds`
and `Locate`. An answer is `Lost` or `TooLate`, or `LookUp` without the mutex and then, with it,
`TrpInformationFailure` or `HandleTrpInformationResponse`, one `AddTrp` per TRP and `AllAdded`;
`NotUnique` and `Unusable` are the exceptions, which give the mutex up and notify nobody.

Abstracted: `NrppaTransactions` looks after ids, contexts and the races for them, and lets its wait
end at any time; here the transaction of a question is the question's own. The two share
`gnb`, `trp_info_err`, `cv_m_gnb` and the table, and each has every step of the other that touches
these. A gNB is entered in the map a few lines before its first TRP, under the same mutex, and
is one step with it; a gNB that is left without a TRP because its second cell identity is
malformed, or an answer without any TRP, is left out, so that `numTrps()` is never 0 where a gNB
is known.

### MimeParser, MimeParser_proofs, N2Notification

Two modules of operators, without state. `MimeParser` is `mime_parser::parse` over a sequence of
lines, each named for what the parser looks for: every `find` and the place it starts at is kept,
the characters are not. `Compose` is a message as `create_multipart_related_content` and other
senders write it, from parts that are in `SentPart`. `N2Notification` is the way of a notification from the
message to the response, through the callbacks of the HTTP/2 server and through the API
classes of the HTTP/1 server, which catch different exceptions in different places:
`Responses` is the sequence of responses that are sent.

### PositionEstimation

`lls_estimation` up to the call of LAPACK, over integers: the equation of each TRP (`Row`), the
known height with four TRPs (`FixHeight`), the columns that are solved for (`Solved`) and which unknown stands
in which column when the solution is read (`Satisfies`). `SeenFrom` says what it means that measurements
come from a place. What LAPACK returns and the rounding of floating-point numbers are external.

### MeasurementReports, MeasurementReports_proofs

Composes the three: a request receives the answer about the UE and a report per gNB, each as a
multipart message through one of the servers, collects the values (`collectResult`) and computes
the location (`compute_location`).

| state | code |
|---|---|
| `server` | which server runs |
| `pc`, `left` | where the request is in `handle_determine_location`; gNBs its loop has still to measure |
| `result` | `LocationDetermination::result`: the values by granularity of each gNB and TRP |
| `note` | the last notification and the responses it got |

Abstracted: the transaction of an answer is found (`NrppaTransactions` says when it is not); what
`lmf_app` makes of it is one of the five `AppResults`. Each of these may come with each message,
and a promise that is not fulfilled is a timeout. Lengths are in
millimetres and times in nanoseconds; `SpeedOfLight` is a constant so that instances have small
solutions. What may be sent is constants too: `Messages` are put together of any `Lines`, well-formed
or not; `Trps` are finitely many with integer coordinates in any unit, known or not; a report gives a TRP
integers in some of the six granularities, or none. The `ASSUME`s say no more than that.

### NrfRegistration, NrfRegistration_proofs

Two threads: main, which registers, creates the task manager and its thread, serves,
and on a signal runs the handler in place of what it did; and the task manager's thread,
which calls the slots that are due and waits for the next cycle.

| state | code |
|---|---|
| `main`, `tm` | where the two threads are |
| `terminate`, `terminated` | the flags of `task_manager` |
| `tm_inst`, `lmf_nrf_inst` | are the globals set? |
| `live`, `kind`, `due` | connected slots of `task_tick`, what each calls, ticks until it is called |
| `task_connection`, `retry_connection` | the two connection objects of `lmf_nrf` |
| `lag`, `blocked` | how far the counter `t` is behind the clock; what this cycle's calls took |
| `nrf`, `failures` | external: does the NRF hold the LMF as registered; failures so far |

Time is relative: `due` counts down, so the model needs no clock and its states repeat.
A slot whose start is `now + period` by the clock is called `period + lag` ticks from
now, which is how the code's mixture of clock and counter is kept. A call to the NRF is one
action that takes `0..MaxWait` units; what the NRF answers is a choice, bounded by
`MaxFailures`. Left out: `register_nrf` switched off (no slot is ever made), the failing
starts, and the servers, whose stop is one step.

### LocationService

The service around the transactions: a request from the thread that takes it to its
answer, the contexts by SUPI, the subscriptions of the LMF and those of the AMF,
the two mutexes that are held over the calls to the AMF, and the release of all
subscriptions on the HTTP/2 server. Without a subscription the AMF drops the gNB's
answer, and without a free thread the LMF cannot take it.

| state | code |
|---|---|
| `lmf_cfg` | which server runs, with how many threads; fixed at the start |
| `supi[r]`, `pc[r]`, `stage[r]`, `response[r]` | the SUPI, place, transaction and promise of a request thread |
| `supi2ctx`, `gnb`, `trp_info_err` | members of `lmf_app` |
| `subscriptions` | keys of `supi2n1n2subs`, and `NonUe` for `nonUeN2MessageSubscription` |
| `owner` | who holds `m_supi2n1n2subs` and `m_non_ue_subs` |
| `asked`, `notifications`, `handling` | external: questions under way; notifications that wait for a thread; that have one |
| `amf`, `lost` | external: the AMF's subscriptions; those the LMF does not know of |

A request is `Receive`, then for the non-UE and again for the UE subscription
`AlreadySubscribed` or `Subscribe` and `Subscribed`/`SubscribeFails`, and for each
transaction `Ask` (`AlreadyDone` if the TRPs are known) and `NextStage` or `Locate`. It
fails by `Refused`, `TrpInfoFails` or `Timeout`; the HTTP/2 server goes on with
`ReleaseAll`, `ClearOne`, `Cleared`, `ReleaseNonUe`, `ResetNonUe`. The other side is
`Answer`, `Notify`, `HandleAnswer`, `HandleUnknown`.

Abstracted: ids are `NrppaTransactions`' subject, so a transaction is one question with one
answer here. There is one gNB. The UE information and activation procedures follow each
other under the same subscription and context, and are one transaction. An answer the LMF
cannot read adds no gNB and is one of the ways to be `Refused`. Any free thread
takes a notification; how the libraries pin a connection to a thread is external and
could only make answers rarer. Waits are long: they run out only when the answer is lost
or no thread is left to take it, since a wait that runs out before its answer is
`NrppaTransactions`' subject. Requests refused before they touch any state are left out.

### LocationRequests

What a client is promised: a request is accepted, answered once, with a location or a
failure, and fails only for a reason (`Excused`): the network fails it, no thread is
left for its answer, another request for its subscriber came between, or it is exposed
to the failure of another. `LocationService` implements it with the mapping

* `status`: what the client has seen; a request that releases is already answered;
* `threads`: `http_threads_count`;
* `exposed`: every request on the HTTP/2 server, where a failure releases the
  subscriptions of all; on the HTTP/1 server those that wait for TRP information, since
  `trp_info_err` is shared.

The fourth reason is what the code does, not what its documentation says: the run
`location_release` asks for the promise without it.

### LocationService_proofs

The theorems (section 4).

### MCNrppaTransactions, MCNrfRegistration, MCLocationService, MCTrpInformation, MCMeasurementReports

Model values and symmetry of the TLC instances; in the last the messages, TRPs and reports.

## 3. Runs

| run | instance | checks |
|---|---|---|
| `nrppa_two_ues` | 2 requests for 2 SUPIs, 2 ids, 2 gNBs, 1 notification thread | `OneOwner`, `IdsAccounted`, `AnswerMatches`, `AnswerFindsTransaction`, `DoneHoldsNothing`, `IInv`, `AccountInv` |
| `nrppa_missing_gnb` | 2 requests for 1 SUPI, 2 notification threads, 2 gNBs configured and 1 there | `EveryRequestEnds` |
| `nrppa_late_answers` | 1 request, 2 gNBs, late TRP answers, 1 repeated notification, 2 notification threads | `TypeOK`, `NoIdLost` |
| `nrppa_id_reuse` | 2 requests for 2 SUPIs, 2 ids, 1 gNB | `FreedIdReusable` is violated |
| `nrppa_late_trp_answer` | 1 request, 2 gNBs, late TRP answers | `AnswerFindsTransaction` is violated |
| `location_promise` | 2 requests for one or two SUPIs, either server, 1 to 3 threads, one request the network may fail, one lost subscription per key | `OneAtWork`, `SubscriptionsMatch`, `Implements` |
| `location_release` | the same | `OthersUnharmed` is violated |
| `nrf_registration` | heartbeat every 3 ticks, retry every 2, calls of up to 2, 3 failures, a signal after the start | `TypeOK`, `OneTimer`, `NoCallAfterDelete`, `RegisteredInTheEnd`, `ShutdownEnds` |
| `trp_information` | 2 requests, 2 gNBs of 2 TRPs, one of which may refuse or send a TRP that is no use, 1 or 2 gNBs configured or none | `TypeOK`, `NotAllAsleep`, `AskOnlyUnknown`, `Settled`, `EveryWaitEnds` |
| `trp_partial` | the same | `DoneIfAlreadyDone` is violated |
| `measurement_reports` | either server, 15 messages, 2 gNBs with 4 TRP ids and 6 known TRPs, one of them in an unknown unit, reports with and without a value, with one of another granularity beside it | `TypeOK`, `PartsAsSent`, `ToaOfItsTrp`, `TruePositionSolves` |
| `reports_granularity` | the same, all reports in k1 or all in k0 | `GranularityHeeded` is violated |

The bounds. Two ids for two requests are the smallest generator that does not block
at once and that hands an id out again as soon as it is freed; a larger one only makes reuse
rarer. It may run dry, as failed requests keep ids (`IdsAccounted`): then `GetUid`
waits, and the run of liveness has enough ids for it not to happen. Two gNBs are
the least for which a promise is used twice and a broadcast is answered twice. Two
notification threads are the least that can race each other; with two requests one
is enough to race the request threads, and the proof covers any number. Deadlock is
checked in every run: the only states that may stop are
`Terminated` (every request ended and nothing is under way) and `Exited`.

For TRP information two requests are the least of which one is woken and one is not, and two gNBs
the least of which one can be missing; the configured number is below, at or, with the
other away, above the number of answers. Two TRPs let an answer be half entered. One of the
gNBs has no faults, so that there are answers that all come good.

For the reports the well-formed messages have the header first or last, content with blank and
header-like lines, and end with or without the last CRLF; the others have one part, three, the
wrong order, another JSON document, JSON that is no notification, another PDU, another content type, an empty part,
no end and no parts. Of the six TRPs five can be used, so that a location may be computed from four
or five, and six times of arrival for five positions may come of a value too many. `Places` has
all places within a millimetre and `r0` up to 10 for the small instance; `TruePlaceSolves` is for all.

For the service two requests and 1 to 3 threads give fewer threads than requests,
as many, and one to spare for the answers; the two SUPIs may be the same or not; and
`Unserved = {r1}` has one request that the network may fail beside one that it serves.
One lost subscription per key is enough for the AMF to notify an LMF that has forgotten it.

For the NRF the periods are 3 and 2 ticks instead of 10000 and 5000: what matters is
that they differ, that neither is 1 and that a call may take as long as a period. Three
failures allow a failed registration, a failed heartbeat and a failed retry in one run,
and `MaxLag` lets two slow calls add up. Three connections are enough, as at most two
are referred to when a third is connected. `EarlySignal` is false, for the reason given
below; the proofs are for both values.

Fairness is weak, per thread: the operating system schedules every thread, the HTTP
client has a timeout, `wait_for` has a timeout, and handlers do not wait for
anything but mutexes. Answers have no fairness: an answer that never comes is allowed.
In `LocationService` it is weak for the steps of each request, and for `Answer`, `Notify`,
`HandleAnswer` and `HandleUnknown`: a question is answered or, where the AMF has no
subscription, dropped. With it `Implements` includes that every request that is taken is answered
although requests wait for threads and for each other's mutexes.
In `NrfRegistration` it is weak for the main thread and for the task manager's; the
signal, the NRF's failures and its restarts have none, and there are finitely many
failures: `RegisteredInTheEnd` says what the client does once they end.
In `TrpInformation` it is weak for each request and each answer: `EveryWaitEnds` needs the
timeout, as an exception or a lost answer wakes nobody.
`MeasurementReports` has no fairness and no liveness property.
`EveryRequestEnds` rests on the timeouts and on `cv_m_gnb` being released
by every path.

What the violations show:

* `FreedIdReusable`: the code frees ids "for reuse" (`lmf_app.cpp:678`), but
  a refused non-UE transfer (`lmf_location_determination.cpp:348`) leaves the entry
  in `nrppaTxnId2supi`, so that the next non-UE transaction under that id fails.
* `AnswerFindsTransaction`: the wait for TRP information ends while the second gNB's answer is
  under way. Its thread finds the SUPI just before `trp_information` erases that entry; the request
  draws the freed id again for the positioning information request, registers it and sends it. The
  late thread now takes that transaction for its own and erases it (`lmf_app.cpp:668-677`) before
  `checkPC` can refuse its answer, and the answer to the request that waits fails
  with "unknown nrppa transaction id".
* `OthersUnharmed`: when a request fails, `lmf-http2-server.cpp:299` releases the
  subscriptions of all requests. One that waits for its gNB is no longer notified and runs
  into its timeout although the network serves it, and then releases in its turn.
* `DoneIfAlreadyDone`: `gnb.size() > 0` is "alreadey done" (`lmf_app.cpp:161`). In the run two gNBs are
  configured, and the first request fails because the AMF's reply cannot be parsed
  (`lmf_location_determination.cpp:343`), although the gNBs were asked. The answer of one of them enters its
  first TRP and ends in an exception at the next. The second request finds that gNB and takes the
  TRP information for done: every request now measures with it alone, and no gNB is ever asked
  again. A wait that runs out with one gNB of two (`lmf_app.cpp:192`) leaves the map the same way; the
  run stops at the shorter trace.
* `GranularityHeeded`: `collectResult` keeps the granularity of a value, and
  `compute_location` takes every value for one of k1 (`lmf_location_determination.cpp:839`). The
  LMF does not ask for a granularity, so the gNB may choose another; the position is wrong
  without an error.

Observed and not a run:

* the message "already exist" (`lmf_app.cpp:223`) is never sent, since
  `create_lmf_context` replaces the context a SUPI has and returns one in every case;
* `response.find("REGISTERED") != 0` (`lmf_nrf.cpp:102`) holds for any JSON document, so a refusal is
  logged and treated as "Registered to NRF". `Accepted` has that outcome, and
  `RegisteredInTheEnd` holds all the same, as the next heartbeat fails;
* `wait_for_cycle` ignores how many periods have passed (`task_manager.cpp:75`): what one slow call
  costs is lost for good, and the next slot that is connected is late by all of it (`lag`);
* with a signal before the task manager's thread runs (`EarlySignal = TRUE`) `ShutdownEnds` fails:
  the destructor waits for a flag that nobody sets (the thread is not there yet) or has its own
  flag cleared by `run()` (`task_manager.cpp:45`). No text in the repository speaks of a
  signal that early;
* the HTTP/1 server sends no response to a notification that is not about a UE
  when the transaction's SUPI has no context
  (`api_server/impl/NonUeN2InfoNotifyApiImpl.cpp:116`). `Called` has it so; nothing in the repository
  promises the AMF an answer, and the LMF's requests do not depend on it;
* a part that ends at a closing boundary without CRLF has that boundary at the end of its content
  (`"cut"`); the PDU decoder stops before it, the JSON parser would not;
* a notification wakes one waiter. If two requests wait for the same gNBs, the second finds
  out at its timeout, and then succeeds or not by what the map holds.

## 4. Proofs

All for any number of requests, notification threads, subscribers, ids and gNBs. The
assumptions on constants are the `ASSUME`s of the modules: finite sets, values that
differ, and positive bounds.

* `Typing`: `Spec => []TypeOK`, with no assumption on the environment. `TypeOK`
  includes `LocalsSet`: a handler never uses a context, SUPI or procedure that it
  has not found.
* `IdsNeverLost`: `Spec => []NoIdLost`, with no assumption on the environment either: a late or repeated
  answer may consume a transaction that is not its own, but the thread that erases it frees its id.
* `TrpInformation_proofs`: `Typing` (`TypeOK`), `SomebodyIsWoken` (`NotAllAsleep`),
  `OnlyTheFirstAsks` (`AskOnlyUnknown`) and `MapIsSettled` (`Settled`), from an invariant of its own.
* `MimeParser_proofs`: `ParsedAsSent`, about operators: for any number of parts, headers, lines of
  content and both endings the parser finds what was sent.
* `MeasurementReports_proofs`: `Types` (`TypeOK`), `PartsReceived`
  (`PartsAsSent`), `ToaOfTrp` (`ToaOfItsTrp`) and `PositionSolves` (`TruePositionSolves`), for any
  messages, gNBs, TRPs, positions and reports, from the invariant of `Invariant`; and about
  operators `EnoughEquations` and `TruePlaceSolves`, for any four or more TRPs and any place, not
  only those of `Places`.
* `Agreement` and `Accounts`: `PunctualAnswers => (Spec => []IInv)` and the same of
  `AccountInv`.
* `Types` of `NrfRegistration_proofs` (`TypeOK`), `TimerIsUnique` and
  `CallsEndBeforeDelete`: `Spec => []OneTimer` and
  `Spec => []NoCallAfterDelete`, for every period, call length and number of failures
  and with signals at any time, from `Invariance`. `OneTimer` speaks of the
  points between two calls; the invariant adds what the slots are inside one
  (`Timers`: a heartbeat is the only slot; a registration finds the retry's or
  none) and who is alive when (`Lifetimes`: the client is only deleted when the thread
  has ended or was never started).
* `OneThreadAtWork` and `SubscriptionsAgree` of `LocationService_proofs`: `Spec => []OneAtWork` and
  `Spec => []SubscriptionsMatch` of `LocationService`. They rest on `Types`, which no run repeats.
* `ImplementsSafety`: `Spec => Abstract!SafeSpec`: every step of `LocationService` is
  one of `LocationRequests` or a stutter under the mapping of section 2.
* `IdsHaveOneOwner` and `AnswersReachTheirRequest`: `OneOwner` and
  `AnswerMatches`, consequences of `IInv`.
* `IdsAreAccounted`, `EarlyAnswersFound`, `SuccessLeavesNothing`: `IdsAccounted`,
  `AnswerFindsTransaction`, `DoneHoldsNothing`, consequences of `IInv` and `AccountInv`.

`OneOwner` and `AnswerMatches` are not inductive: whether a notification thread may
free an id depends on the message it took before, on the context it looked up and on
what the request did since. `IInv` says for each of the three holders of an id what
the others may know of it: a request in a transaction owns its id (`RequestInv`),
an answer on the net names a transaction that is pending or gone (`NetInv`), a
notification thread between two of its steps is the only one for its id
(`HandlerInv`), and no two answers or threads serve one transaction except
for the TRP broadcast (`NetUnique`, `NetOrHandler`, `HandlerUnique`). Without
`PunctualAnswers` it fails, and `nrppa_late_trp_answer` shows why.

`AccountInv` is about the two tables. An entry of `nrppaTxnId2supi` is needed (`UsesEntry`) by
the request that has made it until its TRP information is over, or by the answer of its
measurement until the thread that takes it erases the entry; nobody else needs the same one
(`EntryInv`), so that no erasure takes an entry from somebody. A pending transaction in
`nrppa_tId` is one that the request still waits for with an empty promise, or one that a failed
request has left (`HeldInv`), so that whoever goes on has nothing left. And an entry of
`nrppaTxnId2supi` that is there is that of a request for its subscriber that failed, or that still runs the
transaction, a measurement without its answer so far (`LeftInv`, `MayLeave`): by the time a request has
the answer of its measurement, the thread that brought it has erased the entry. Hence
`DoneHoldsNothing`: an entry that a later transaction under the same id could trip over is
never that of a request that succeeded. It is preserved by the steps that
preserve `IInv`, which says that an answer has one thread and a request one answer.

In `TrpInformation` the danger is that everybody sleeps while all gNBs have answered.
`NotAllAsleep` is part of the invariant, with `MutexInv`: who holds `cv_m_gnb` is one request or one
answer, a request that asks has found no gNB, and the gNB whose answer holds it has just the
TRPs entered that were counted. So an answer that completes the map has entered it all without
being interrupted, and notifies. `InformedInv`, that a request that is told of every gNB there is
knows them all, gives `Settled`: later answers find nothing to enter.

`SubscriptionsMatch` is not inductive either: a second subscription for a key, or a
deletion of none, is kept out only by the mutexes, so `MutexInv` says what the holder of
each may find. The refinement is about reasons for a failure. `TimeoutExcused` asks why a
wait may run out, and the invariant carries the answer from the start of the request: it
has its subscriptions (`SubscribedInv`) and its context (`ContextInv`), so that its answer
is on its way (`AnswerInv`), unless it was disturbed, by another request for its
subscriber or by a failure on the HTTP/2 server (`ModeInv`). `ErrorInv` names who is to
blame for `trp_info_err`.

The parser is a `while` loop of searches, and what could be wrong with it is where a search
starts: one that starts too early finds the boundary again and the part twice, one that starts
too late misses a part. `ParsedAsSent` says where each search ends. `Compose` puts a part after the other, and
by induction on the parts each of them stands at the place where the sizes before it end
(`Stands`) and nothing of it is a boundary but its first line (`NoneWithin`). So the blank line
that is found first is the one after the headers, the next boundary is the next part's
or the closing one, and by induction from the last part backwards the loop, entered at part `i`,
yields the parts from `i` on. The recursion ends because each search goes forward.

`MeasurementReports` has the invariant `IInv`: `ResultTyped` (integers in granularities 0 to 5, for every TRP of
every gNB, whatever was added in whatever order), `NoteInv` (what was answered to a notification is what
its message makes of it) and `LocatedInv` (a location was computed from enough). The type invariant
needs the first, since the values of a report are merged with those before; `PartsAsSent` needs the second
and `ParsedAsSent`. `ToaOfItsTrp` is about two lists that are filled by nested loops, one entry per
TRP in `trp_pos` and one per value in `toas`, and used as if they were parallel. The code only compares their
lengths. `UsedTrps` shows that the TRPs are used in the order of the maps, each once; `OneEach` that
lists that are not empty and together have as many entries as there are lists have one each.
`ToaIsDelay` is the arithmetic of the conversion, with C++'s division on both sides of zero. It
rests on the TRPs in an unknown unit being skipped before either list grows, and on `collectResult` making no
entry for a TRP without a value. `PositionSolves` puts this together with `TruePlaceSolves`.

What a recursive function computes is proved by induction on a set of numbers: the numbers that
have the property are a set, and a set that has no least counterexample has none (`Least`, from
the library's well-founded order on the naturals; `Induction`). The library's own induction
theorems take the property as an operator, which the provers cannot instantiate. It works because
the models' recursions are functions on numbers and not `RECURSIVE` operators.

Only model-checked: liveness, which is beyond TLAPS here, the fairness of `Implements`
included. The safety properties of all passing runs are proved. For `NrppaTransactions` some are proved, as they
are checked, under `PunctualAnswers`.

## 5. Plan

In this order; each module is written to be proved about (constants with
assumptions, one action per operation, no RECURSIVE operator).

1. `NrppaTransactions`, `NrppaInvariant` and their proofs (done).
2. `NrfRegistration` and its proofs (done).
3. `LocationService`, its abstract specification `LocationRequests`, and the proof that it
   implements the safety part (done).
4. `TrpInformation` and its proofs: the wait that `NrppaTransactions` lets end at any time
   (done).
5. `MimeParser`, `N2Notification`, `PositionEstimation` and
   `MeasurementReports`, which composes them (done).
6. The invariant on the tables (`AccountInv`) and the theorems that follow from it (done).
7. The parser and the measured reports: `MimeParser_proofs` and `MeasurementReports_proofs` (done).
8. Next: what of `IInv` holds without `PunctualAnswers`, so that it is known which owner an id has
   after a late TRP answer; and the steps behind liveness that are not temporal: that a waiting
   request always has its timeout, and that whoever holds a mutex can give it up.

Not modelled, and not planned:

* the ASN.1 code: generated from the 3GPP specifications, without state or anything of the
  LMF's own, though nearly all of the lines;
* LAPACK and the rounding of floating-point numbers; hexadecimal conversions of PDUs;
* logging, configuration, the conversions of the NF profile and of URIs, which decide nothing
  the models depend on;
* the shift that cuts the gNB id out of a cell identity (`lmf_app.cpp:485`): whether the
  configured length is right is known to nobody in the LMF;
* deregistration at shutdown: the signal handler deletes the application without `lmf_app::stop()`, so
  none is ever asked for;
* cancel-location and location-context-transfer, which are stubs that answer without doing anything.
