-------------------------- MODULE NrfRegistration --------------------------
(***************************************************************************)
(* The LMF's registration with the NRF: the main thread registers once and *)
(* starts the task manager, whose thread calls the heartbeat or the        *)
(* registration retry every so many ticks (lmf_nrf.cpp, lmf_event.cpp,     *)
(* task_manager.cpp), until a signal ends the program (main.cpp; the       *)
(* handler runs on the main thread, which never continues).                *)
(*                                                                         *)
(* One tick of the task manager is one unit of time.  A call to the NRF    *)
(* blocks the thread for some units, and its clock t, which counts cycles, *)
(* falls behind the real one, from which the start of a slot is computed.  *)
(***************************************************************************)
EXTENDS Integers, FiniteSets

CONSTANTS
  Conns,        \* connections of the tick signal, more than are ever live
  None,         \* a connection object that was never assigned
  HeartBeat,    \* ticks from heartbeat to heartbeat
  Retry,        \* ticks from registration retry to registration retry
  MaxWait,      \* longest call to the NRF, in ticks
  MaxLag,       \* bound of the model: how far the ticks may fall behind
  MaxFailures,  \* bound of the model: failed calls and NRF restarts
  EarlySignal   \* may the signal come before the task manager runs?

ASSUME ConstantsAssumption ==
  /\ None \notin Conns
  /\ HeartBeat \in Nat \ {0} /\ Retry \in Nat \ {0}
  /\ MaxWait \in Nat /\ MaxLag \in Nat /\ MaxFailures \in Nat
  /\ EarlySignal \in BOOLEAN

VARIABLES
  main,              \* where the main thread, or the signal handler on it, is
  tm,                \* where the task manager's thread is
  tm_inst,           \* does tm_inst point to a task manager?
  terminate,         \* its two flags
  terminated,
  lmf_nrf_inst,      \* does lmf_nrf_inst point to an object?
  live,              \* connected slots of task_tick
  kind,              \* per connection: the procedure its slot calls
  due,               \* per connection: ticks until it is called next
  task_connection,   \* the heartbeat's connection object
  retry_connection,  \* retry_nrf_registration_task_connection
  toCall,            \* slots this tick still has to call
  blocked,           \* time the calls of this cycle took
  lag,               \* how far t is behind the clock
  nrf,               \* does the NRF hold the LMF as registered?
  failures           \* failures of the NRF so far

flags    == <<tm_inst, terminate, terminated>>
slotVars == <<live, kind, due, task_connection, retry_connection>>
timeVars == <<blocked, lag>>
nrfVars  == <<nrf, failures>>
vars     == <<main, tm, flags, lmf_nrf_inst, slotVars, toCall, timeVars, nrfVars>>

Init ==
  /\ main = "register" /\ tm = "absent"
  /\ tm_inst = FALSE /\ terminate = FALSE /\ terminated = FALSE
  /\ lmf_nrf_inst = TRUE
  /\ live = {}
  /\ kind = [c \in Conns |-> "heartbeat"] /\ due = [c \in Conns |-> 1]
  /\ task_connection = None /\ retry_connection = None
  /\ toCall = {}
  /\ blocked = 0 /\ lag = 0
  /\ nrf = FALSE /\ failures = 0

-----------------------------------------------------------------------------
(* Slots *)

Period(k) == IF k = "heartbeat" THEN HeartBeat ELSE Retry

(* subscribe_task_nf_heartbeat, at clock time t + lag + blocked + d.       *)
Connect(c, k, d) ==
  /\ c \in Conns \ (live \cup {task_connection, retry_connection})
  /\ kind' = [kind EXCEPT ![c] = k]
  /\ due' = [due EXCEPT ![c] = lag + blocked + d + Period(k)]

(* start_event_nf_heartbeat and stop_nrf_registration_retry.               *)
StartHeartbeat(d) ==
  \E c \in Conns :
    /\ Connect(c, "heartbeat", d)
    /\ task_connection' = c
    /\ live' = (live \ {retry_connection}) \cup {c}
    /\ UNCHANGED retry_connection

StartRetry(d) ==
  IF retry_connection \in live
  THEN UNCHANGED slotVars
  ELSE \E c \in Conns :
         /\ Connect(c, "retry", d)
         /\ retry_connection' = c
         /\ live' = live \cup {c}
         /\ UNCHANGED task_connection

(* A call to the NRF takes d units.                                        *)
CallTakes(d) ==
  /\ d <= MaxWait /\ lag + blocked + d <= MaxLag
  /\ blocked' = blocked + d
  /\ UNCHANGED lag

NrfFails ==
  /\ failures < MaxFailures
  /\ failures' = failures + 1

-----------------------------------------------------------------------------
(* register_to_nrf: the answer to the PUT arrives after d units            *)

(* Any JSON document is taken for success: of a refusal too, find differs  *)
(* from 0.                                                                 *)
Accepted(d) ==
  /\ \/ nrf' = TRUE /\ UNCHANGED failures
     \/ NrfFails /\ UNCHANGED nrf
  /\ StartHeartbeat(d)

(* Mutant of Failed: no retry is started.                                  *)
Failed_NoRetry(d) ==
  /\ NrfFails
  /\ nrf' \in {nrf, TRUE}
  /\ UNCHANGED slotVars

(* No response or one that is no JSON; the NRF may have registered the LMF *)
(* for all that.                                                           *)
Failed(d) ==
  /\ NrfFails
  /\ nrf' \in {nrf, TRUE}
  /\ StartRetry(d)

-----------------------------------------------------------------------------
(* The main thread: start, then the signal handler                         *)

Register ==
  /\ main = "register"
  /\ Accepted(0) \/ Failed(0)
  /\ main' = "createTm"
  /\ UNCHANGED <<tm, flags, lmf_nrf_inst, toCall, timeVars>>

CreateTm ==
  /\ main = "createTm"
  /\ tm_inst' = TRUE /\ terminate' = FALSE /\ terminated' = FALSE
  /\ main' = "spawnTm"
  /\ UNCHANGED <<tm, lmf_nrf_inst, slotVars, toCall, timeVars, nrfVars>>

SpawnTm ==
  /\ main = "spawnTm"
  /\ tm' = "spawned"
  /\ main' = "serve"
  /\ UNCHANGED <<flags, lmf_nrf_inst, slotVars, toCall, timeVars, nrfVars>>

Starting == main \in {"register", "createTm", "spawnTm"} \/ tm = "spawned"

(* SIGTERM or SIGINT: my_app_signal_handler stops the servers, ...         *)
Signal ==
  /\ main \in {"register", "createTm", "spawnTm", "serve"}
  /\ EarlySignal \/ ~Starting
  /\ main' = "stopServers"
  /\ UNCHANGED <<tm, flags, lmf_nrf_inst, slotVars, toCall, timeVars, nrfVars>>

(* Mutant of StopServers: the application goes before the task manager.    *)
StopServers_AppFirst ==
  /\ main = "stopServers"
  /\ lmf_nrf_inst' = FALSE
  /\ live' = live \ {task_connection, retry_connection}
  /\ main' = IF tm_inst THEN "deleteTm" ELSE "deleteApp"
  /\ UNCHANGED <<tm, flags, kind, due, task_connection, retry_connection,
                 toCall, timeVars, nrfVars>>

StopServers ==
  /\ main = "stopServers"
  /\ main' = IF tm_inst THEN "deleteTm" ELSE "deleteApp"
  /\ UNCHANGED <<tm, flags, lmf_nrf_inst, slotVars, toCall, timeVars, nrfVars>>

(* ... deletes the task manager, whose destructor sets terminate and waits *)
(* for terminated, ...                                                     *)
DeleteTm ==
  /\ main = "deleteTm"
  /\ terminate' = TRUE
  /\ main' = "awaitTm"
  /\ UNCHANGED <<tm, tm_inst, terminated, lmf_nrf_inst, slotVars, toCall,
                 timeVars, nrfVars>>

TmDeleted ==
  /\ main = "awaitTm" /\ terminated
  /\ tm_inst' = FALSE
  /\ main' = "deleteApp"
  /\ UNCHANGED <<tm, terminate, terminated, lmf_nrf_inst, slotVars, toCall,
                 timeVars, nrfVars>>

(* ... deletes the application, and the NRF client with it, ...            *)
DeleteApp ==
  /\ main = "deleteApp"
  /\ lmf_nrf_inst' = FALSE
  /\ live' = live \ {task_connection, retry_connection}
  /\ main' = "exit"
  /\ UNCHANGED <<tm, flags, kind, due, task_connection, retry_connection,
                 toCall, timeVars, nrfVars>>

(* ... and exits: no thread runs any more.                                 *)
Exit ==
  /\ main = "exit"
  /\ main' = "exited" /\ tm' = "ended"
  /\ UNCHANGED <<flags, lmf_nrf_inst, slotVars, toCall, timeVars, nrfVars>>

-----------------------------------------------------------------------------
(* The task manager's thread                                               *)

(* run() clears the flags; t starts at the present time.                   *)
RunTm ==
  /\ tm = "spawned"
  /\ terminate' = FALSE /\ terminated' = FALSE
  /\ tm' = "tick"
  /\ UNCHANGED <<main, tm_inst, lmf_nrf_inst, slotVars, toCall, timeVars, nrfVars>>

(* task_tick(t) calls a slot that is due, unless it was disconnected.      *)
CallSlot ==
  /\ tm = "tick"
  /\ \E c \in toCall :
       /\ toCall' = toCall \ {c}
       /\ tm' = IF c \notin live THEN "tick"
                ELSE IF kind[c] = "heartbeat" THEN "heartbeat" ELSE "register"
  /\ UNCHANGED <<main, flags, lmf_nrf_inst, slotVars, timeVars, nrfVars>>

(* trigger_nf_heartbeat_procedure: the PATCH is answered with success ...  *)
HeartbeatOk ==
  /\ tm = "heartbeat" /\ nrf
  /\ \E d \in 0..MaxWait : CallTakes(d)
  /\ tm' = "tick"
  /\ UNCHANGED <<main, flags, lmf_nrf_inst, slotVars, toCall, nrfVars>>

(* Mutant of HeartbeatFails: the heartbeat goes on.                        *)
HeartbeatFails_KeepsSlot ==
  /\ tm = "heartbeat"
  /\ \/ ~nrf /\ UNCHANGED failures
     \/ NrfFails
  /\ \E d \in 0..MaxWait : CallTakes(d)
  /\ tm' = "register"
  /\ UNCHANGED <<main, flags, lmf_nrf_inst, slotVars, toCall, nrf>>

(* ... or not: the NRF does not know the LMF, or fails.  The heartbeat     *)
(* ends and the LMF registers again.                                       *)
HeartbeatFails ==
  /\ tm = "heartbeat"
  /\ \/ ~nrf /\ UNCHANGED failures
     \/ NrfFails
  /\ \E d \in 0..MaxWait : CallTakes(d)
  /\ live' = live \ {task_connection}
  /\ tm' = "register"
  /\ UNCHANGED <<main, flags, lmf_nrf_inst, kind, due, task_connection,
                 retry_connection, toCall, nrf>>

(* register_to_nrf, called by the failed heartbeat or by the retry's slot  *)
(* (trigger_nrf_registration_retry_procedure).                             *)
RegisterAgain ==
  /\ tm = "register"
  /\ \E d \in 0..MaxWait :
       /\ CallTakes(d)
       /\ Accepted(d) \/ Failed(d)
  /\ tm' = "tick"
  /\ UNCHANGED <<main, flags, lmf_nrf_inst, toCall>>

TickDone ==
  /\ tm = "tick" /\ toCall = {}
  /\ tm' = "wait"
  /\ UNCHANGED <<main, flags, lmf_nrf_inst, slotVars, toCall, timeVars, nrfVars>>

(* Mutant of NextCycle: a slot called at start is not due again.           *)
NextCycle_OneShot ==
  /\ lag' = IF blocked > 0 THEN lag + blocked - 1 ELSE lag
  /\ blocked' = 0
  /\ due' = [c \in Conns |-> IF c \notin live THEN due[c] ELSE due[c] - 1]
  /\ UNCHANGED <<live, kind, task_connection, retry_connection>>

(* t++ and wait_for_cycle: after a call that took time the timer has       *)
(* expired already, once or often, and the wait returns at once.           *)
NextCycle ==
  /\ lag' = IF blocked > 0 THEN lag + blocked - 1 ELSE lag
  /\ blocked' = 0
  /\ due' = [c \in Conns |-> IF c \notin live THEN due[c]
                            ELSE IF due[c] > 1 THEN due[c] - 1
                            ELSE Period(kind[c])]
  /\ UNCHANGED <<live, kind, task_connection, retry_connection>>

WaitForCycle ==
  /\ tm = "wait" /\ ~terminate
  /\ NextCycle
  /\ toCall' = {c \in live : due[c] = 1}
  /\ tm' = "tick"
  /\ UNCHANGED <<main, flags, lmf_nrf_inst, nrfVars>>

(* Mutant of EndManageTasks: terminated is not set.                        *)
EndManageTasks_Silent ==
  /\ tm = "wait" /\ terminate
  /\ NextCycle
  /\ tm' = "ended"
  /\ UNCHANGED <<main, flags, lmf_nrf_inst, toCall, nrfVars>>

EndManageTasks ==
  /\ tm = "wait" /\ terminate
  /\ NextCycle
  /\ terminated' = TRUE
  /\ tm' = "ended"
  /\ UNCHANGED <<main, tm_inst, terminate, lmf_nrf_inst, toCall, nrfVars>>

-----------------------------------------------------------------------------
(* The NRF restarts or gives the LMF up.                                   *)
NrfForgets ==
  /\ nrf /\ NrfFails
  /\ nrf' = FALSE
  /\ UNCHANGED <<main, tm, flags, lmf_nrf_inst, slotVars, toCall, timeVars>>

MainStep ==
  \/ Register \/ CreateTm \/ SpawnTm
  \/ StopServers \/ DeleteTm \/ TmDeleted \/ DeleteApp \/ Exit

TmStep ==
  \/ RunTm \/ CallSlot \/ HeartbeatOk \/ HeartbeatFails \/ RegisterAgain
  \/ TickDone \/ WaitForCycle \/ EndManageTasks

Exited == main = "exited" /\ UNCHANGED vars

Next == MainStep \/ Signal \/ TmStep \/ NrfForgets \/ Exited

Spec == Init /\ [][Next]_vars

(* Both threads run and the HTTP client returns.                           *)
FairSpec == Spec /\ WF_vars(MainStep) /\ WF_vars(TmStep)

-----------------------------------------------------------------------------
(* Properties *)

MainLabels == {"register", "createTm", "spawnTm", "serve", "stopServers",
               "deleteTm", "awaitTm", "deleteApp", "exit", "exited"}
TmLabels   == {"absent", "spawned", "tick", "heartbeat", "register", "wait", "ended"}

(* The types of the variables.                                             *)
TypeOK ==
  /\ main \in MainLabels /\ tm \in TmLabels
  /\ tm_inst \in BOOLEAN /\ terminate \in BOOLEAN /\ terminated \in BOOLEAN
  /\ lmf_nrf_inst \in BOOLEAN
  /\ live \subseteq Conns
  /\ kind \in [Conns -> {"heartbeat", "retry"}]
  /\ due \in [Conns -> Nat \ {0}]
  /\ task_connection \in Conns \cup {None}
  /\ retry_connection \in Conns \cup {None}
  /\ toCall \subseteq Conns
  /\ blocked \in Nat /\ lag \in Nat
  /\ nrf \in BOOLEAN
  /\ failures \in 0..MaxFailures

(* Between its calls the client has exactly one slot, which its connection *)
(* object still refers to: the heartbeat or the retry, never both, never   *)
(* neither and never a forgotten one, after any sequence of failures.      *)
OneTimer ==
  tm \in {"tick", "wait"} /\ lmf_nrf_inst =>
    \/ live = {task_connection} /\ kind[task_connection] = "heartbeat"
    \/ live = {retry_connection} /\ kind[retry_connection] = "retry"

(* The task manager's thread never runs a procedure of a deleted client.   *)
NoCallAfterDelete == tm \in {"heartbeat", "register"} => lmf_nrf_inst

(* When the NRF stops failing the LMF is registered in the end and remains *)
(* so, unless it is shut down.                                             *)
Serving == main \in {"register", "createTm", "spawnTm", "serve"}
RegisteredInTheEnd == <>[](Serving => nrf)

(* The signal ends the program.                                            *)
ShutdownEnds == ~Serving ~> main = "exited"

=============================================================================
