----------------------- MODULE NrfRegistration_proofs -----------------------
(* Proofs about NrfRegistration. *)
EXTENDS NrfRegistration, TLAPS

(* What the threads know of each other while the program starts and ends.  *)
Lifetimes ==
  /\ main \in {"register", "createTm", "spawnTm"} => tm = "absent"
  /\ main = "spawnTm" => tm_inst
  /\ ~tm_inst => tm \in {"absent", "ended"}
  /\ terminated => tm = "ended"
  /\ main = "deleteApp" => ~tm_inst
  /\ main \in {"exit", "exited"} => tm \in {"absent", "ended"}
  /\ ~lmf_nrf_inst => main \in {"exit", "exited"}

RetryOnly   == live = {retry_connection} /\ kind[retry_connection] = "retry"
BeatingOnly == live = {task_connection} /\ kind[task_connection] = "heartbeat"

(* The slots at every point of the two threads.                            *)
Timers ==
  /\ main = "register" => live = {}
  /\ main \in {"createTm", "spawnTm"} \/ tm \in {"spawned", "tick", "wait"} =>
       RetryOnly \/ BeatingOnly
  /\ tm = "heartbeat" => BeatingOnly
  /\ tm = "register" => RetryOnly \/ live = {}

IInv == TypeOK /\ Lifetimes /\ Timers

USE DEF flags, slotVars, timeVars, nrfVars

-----------------------------------------------------------------------------
(* Connecting a slot                                                       *)

LEMMA ConnectTypes ==
  ASSUME TypeOK, ConstantsAssumption, NEW c \in Conns, NEW k \in {"heartbeat", "retry"},
         NEW d \in Nat, Connect(c, k, d)
  PROVE  /\ kind' \in [Conns -> {"heartbeat", "retry"}] /\ kind'[c] = k
         /\ due' \in [Conns -> Nat \ {0}]
         /\ c \notin live /\ c # task_connection /\ c # retry_connection
  BY DEF TypeOK, ConstantsAssumption, Connect, Period

SlotTypes ==
  /\ live \subseteq Conns
  /\ kind \in [Conns -> {"heartbeat", "retry"}]
  /\ due \in [Conns -> Nat \ {0}]
  /\ task_connection \in Conns \cup {None}
  /\ retry_connection \in Conns \cup {None}

LEMMA HeartbeatStarts ==
  ASSUME TypeOK, ConstantsAssumption, NEW d \in Nat, StartHeartbeat(d),
         RetryOnly \/ live = {}
  PROVE  SlotTypes' /\ BeatingOnly'
<1>1. PICK c \in Conns : /\ Connect(c, "heartbeat", d)
                         /\ task_connection' = c
                         /\ live' = (live \ {retry_connection}) \cup {c}
                         /\ UNCHANGED retry_connection
  BY DEF StartHeartbeat
<1>2. /\ kind' \in [Conns -> {"heartbeat", "retry"}] /\ kind'[c] = "heartbeat"
      /\ due' \in [Conns -> Nat \ {0}]
  BY <1>1, ConnectTypes
<1>3. live' = {c}
  BY <1>1 DEF RetryOnly
<1> QED
  BY <1>1, <1>2, <1>3 DEF TypeOK, SlotTypes, BeatingOnly

LEMMA RetryStarts ==
  ASSUME TypeOK, ConstantsAssumption, NEW d \in Nat, StartRetry(d),
         RetryOnly \/ live = {}
  PROVE  SlotTypes' /\ RetryOnly'
<1>1. CASE retry_connection \in live
  <2>1. UNCHANGED slotVars
    BY <1>1 DEF StartRetry
  <2> QED
    BY <1>1, <2>1 DEF TypeOK, SlotTypes, RetryOnly
<1>2. CASE retry_connection \notin live
  <2>1. live = {}
    BY <1>2 DEF RetryOnly
  <2>2. PICK c \in Conns : /\ Connect(c, "retry", d)
                           /\ retry_connection' = c
                           /\ live' = live \cup {c}
                           /\ UNCHANGED task_connection
    BY <1>2 DEF StartRetry
  <2>3. /\ kind' \in [Conns -> {"heartbeat", "retry"}] /\ kind'[c] = "retry"
        /\ due' \in [Conns -> Nat \ {0}]
    BY <2>2, ConnectTypes
  <2> QED
    BY <2>1, <2>2, <2>3 DEF TypeOK, SlotTypes, RetryOnly
<1> QED
  BY <1>1, <1>2

LEMMA FailureCounted ==
  ASSUME TypeOK, ConstantsAssumption, NrfFails
  PROVE  failures' \in 0..MaxFailures
  BY DEF TypeOK, ConstantsAssumption, NrfFails

(* Whatever the NRF answers, register_to_nrf leaves one slot.              *)
LEMMA Registering ==
  ASSUME TypeOK, ConstantsAssumption, NEW d \in Nat, Accepted(d) \/ Failed(d),
         RetryOnly \/ live = {}
  PROVE  /\ SlotTypes' /\ (BeatingOnly \/ RetryOnly)'
         /\ nrf' \in BOOLEAN /\ failures' \in 0..MaxFailures
<1>1. CASE Accepted(d)
  <2>1. SlotTypes' /\ BeatingOnly'
    BY <1>1, HeartbeatStarts DEF Accepted
  <2>2. /\ nrf' = TRUE \/ nrf' = nrf
        /\ failures' = failures \/ NrfFails
    BY <1>1 DEF Accepted
  <2> QED
    BY <2>1, <2>2, FailureCounted DEF TypeOK
<1>2. CASE Failed(d)
  <2>1. SlotTypes' /\ RetryOnly'
    BY <1>2, RetryStarts DEF Failed
  <2>2. nrf' \in {nrf, TRUE} /\ NrfFails
    BY <1>2 DEF Failed
  <2> QED
    BY <2>1, <2>2, FailureCounted DEF TypeOK
<1> QED
  BY <1>1, <1>2

-----------------------------------------------------------------------------
(* The invariant                                                           *)

LEMMA InitIInv == ConstantsAssumption /\ Init => IInv
<1> SUFFICES ASSUME ConstantsAssumption, Init PROVE IInv
  OBVIOUS
<1>1. TypeOK
  <2>1. kind \in [Conns -> {"heartbeat", "retry"}] /\ due \in [Conns -> Nat \ {0}]
    BY DEF Init
  <2>2. 0 \in 0..MaxFailures
    BY DEF ConstantsAssumption
  <2>3. main \in MainLabels /\ tm \in TmLabels
    BY DEF Init, MainLabels, TmLabels
  <2> QED
    BY <2>1, <2>2, <2>3 DEF Init, TypeOK
<1>2. Lifetimes /\ Timers
  BY DEF Init, Lifetimes, Timers
<1> QED
  BY <1>1, <1>2 DEF IInv

LEMMA NextIInv ==
  ASSUME ConstantsAssumption, IInv, [Next]_vars
  PROVE  IInv'
<1> USE ConstantsAssumption DEF IInv, MainLabels, TmLabels
<1>1. CASE Register
  <2>1. /\ SlotTypes' /\ (BeatingOnly \/ RetryOnly)'
        /\ nrf' \in BOOLEAN /\ failures' \in 0..MaxFailures
    <3>1. live = {}
      BY <1>1 DEF Register, Timers
    <3> QED
      BY <1>1, <3>1, Registering, 0 \in Nat DEF Register
  <2>2. TypeOK'
    BY <1>1, <2>1 DEF Register, TypeOK, SlotTypes
  <2>3. Lifetimes'
    BY <1>1 DEF Register, Lifetimes
  <2>4. Timers'
    BY <1>1, <2>1 DEF Register, Lifetimes, Timers
  <2> QED
    BY <2>2, <2>3, <2>4
<1>2. CASE CreateTm
  BY <1>2 DEF CreateTm, TypeOK, Lifetimes, Timers, RetryOnly, BeatingOnly
<1>3. CASE SpawnTm
  BY <1>3 DEF SpawnTm, TypeOK, Lifetimes, Timers, RetryOnly, BeatingOnly
<1>4. CASE Signal
  BY <1>4 DEF Signal, TypeOK, Lifetimes, Timers, RetryOnly, BeatingOnly
<1>5. CASE StopServers
  BY <1>5 DEF StopServers, TypeOK, Lifetimes, Timers, RetryOnly, BeatingOnly
<1>6. CASE DeleteTm
  BY <1>6 DEF DeleteTm, TypeOK, Lifetimes, Timers, RetryOnly, BeatingOnly
<1>7. CASE TmDeleted
  BY <1>7 DEF TmDeleted, TypeOK, Lifetimes, Timers, RetryOnly, BeatingOnly
<1>8. CASE DeleteApp
  <2>1. tm \in {"absent", "ended"}
    BY <1>8 DEF DeleteApp, Lifetimes
  <2> QED
    BY <1>8, <2>1 DEF DeleteApp, TypeOK, Lifetimes, Timers
<1>9. CASE Exit
  BY <1>9 DEF Exit, TypeOK, Lifetimes, Timers, RetryOnly, BeatingOnly
<1>10. CASE RunTm
  BY <1>10 DEF RunTm, TypeOK, Lifetimes, Timers, RetryOnly, BeatingOnly
<1>11. CASE CallSlot
  <2>1. PICK c \in toCall :
          /\ toCall' = toCall \ {c}
          /\ tm' = IF c \notin live THEN "tick"
                   ELSE IF kind[c] = "heartbeat" THEN "heartbeat" ELSE "register"
    BY <1>11 DEF CallSlot
  <2>2. /\ tm = "tick"
        /\ UNCHANGED <<main, flags, lmf_nrf_inst, slotVars, timeVars, nrfVars>>
    BY <1>11 DEF CallSlot
  <2>3. TypeOK' /\ Lifetimes'
    BY <2>1, <2>2 DEF TypeOK, Lifetimes
  <2>4. RetryOnly \/ BeatingOnly
    BY <2>2 DEF Timers
  <2>5. main # "register"
    BY <2>2 DEF Lifetimes
  <2>6. Timers'
    BY <2>1, <2>2, <2>4, <2>5 DEF Timers, RetryOnly, BeatingOnly
  <2> QED
    BY <2>3, <2>6
<1>12. CASE HeartbeatOk
  BY <1>12 DEF HeartbeatOk, CallTakes, TypeOK, Lifetimes, Timers, RetryOnly,
               BeatingOnly
<1>13. CASE HeartbeatFails
  <2>1. live' = {} /\ failures' \in 0..MaxFailures
    BY <1>13 DEF HeartbeatFails, NrfFails, TypeOK, Timers, BeatingOnly,
                 ConstantsAssumption
  <2> QED
    BY <1>13, <2>1 DEF HeartbeatFails, CallTakes, TypeOK, Lifetimes, Timers
<1>14. CASE RegisterAgain
  <2>1. PICK d \in 0..MaxWait : CallTakes(d) /\ (Accepted(d) \/ Failed(d))
    BY <1>14 DEF RegisterAgain
  <2>2. d \in Nat
    BY <2>1 DEF ConstantsAssumption
  <2>3. RetryOnly \/ live = {}
    BY <1>14 DEF RegisterAgain, Timers
  <2>4. /\ SlotTypes' /\ (BeatingOnly \/ RetryOnly)'
        /\ nrf' \in BOOLEAN /\ failures' \in 0..MaxFailures
    BY <2>1, <2>2, <2>3, Registering
  <2>5. TypeOK' /\ Lifetimes'
    BY <1>14, <2>1, <2>2, <2>4
       DEF RegisterAgain, CallTakes, TypeOK, SlotTypes, Lifetimes
  <2>6. Timers'
    BY <1>14, <2>4 DEF RegisterAgain, Lifetimes, Timers
  <2> QED
    BY <2>5, <2>6
<1>15. CASE TickDone
  BY <1>15 DEF TickDone, TypeOK, Lifetimes, Timers, RetryOnly, BeatingOnly
<1>16. ASSUME tm = "wait", NextCycle
       PROVE  /\ SlotTypes' /\ lag' \in Nat /\ blocked' \in Nat
              /\ (RetryOnly \/ BeatingOnly)'
  <2>1. RetryOnly \/ BeatingOnly
    BY <1>16 DEF Timers
  <2>2. lag' \in Nat /\ blocked' \in Nat
    BY <1>16 DEF NextCycle, TypeOK
  <2>3. due' \in [Conns -> Nat \ {0}]
    BY <1>16 DEF NextCycle, TypeOK, Period, ConstantsAssumption
  <2> QED
    BY <1>16, <2>1, <2>2, <2>3
       DEF NextCycle, SlotTypes, TypeOK, RetryOnly, BeatingOnly
<1>17. CASE WaitForCycle
  <2>1. /\ SlotTypes' /\ lag' \in Nat /\ blocked' \in Nat
        /\ (RetryOnly \/ BeatingOnly)'
    BY <1>16, <1>17 DEF WaitForCycle
  <2> QED
    BY <1>17, <2>1 DEF WaitForCycle, TypeOK, SlotTypes, Lifetimes, Timers
<1>18. CASE EndManageTasks
  <2>1. /\ SlotTypes' /\ lag' \in Nat /\ blocked' \in Nat
        /\ (RetryOnly \/ BeatingOnly)'
    BY <1>16, <1>18 DEF EndManageTasks
  <2> QED
    BY <1>18, <2>1 DEF EndManageTasks, TypeOK, SlotTypes, Lifetimes, Timers
<1>19. CASE NrfForgets
  <2>1. failures' \in 0..MaxFailures
    BY <1>19, FailureCounted DEF NrfForgets
  <2>2. nrf' \in BOOLEAN
    BY <1>19 DEF NrfForgets
  <2>3. UNCHANGED <<main, tm, tm_inst, terminate, terminated, lmf_nrf_inst, live,
                    kind, due, task_connection, retry_connection, toCall,
                    blocked, lag>>
    BY <1>19 DEF NrfForgets
  <2>4. TypeOK'
    BY <2>1, <2>2, <2>3 DEF TypeOK
  <2> QED
    BY <2>3, <2>4 DEF Lifetimes, Timers, RetryOnly, BeatingOnly
<1>20. CASE UNCHANGED vars
  BY <1>20 DEF vars, TypeOK, Lifetimes, Timers, RetryOnly, BeatingOnly
<1> HIDE DEF IInv, flags, slotVars, timeVars, nrfVars
<1>21. CASE MainStep
  BY <1>1, <1>2, <1>3, <1>5, <1>6, <1>7, <1>8, <1>9, <1>21 DEF MainStep
<1>22. CASE TmStep
  BY <1>10, <1>11, <1>12, <1>13, <1>14, <1>15, <1>17, <1>18, <1>22 DEF TmStep
<1> QED
  BY <1>4, <1>19, <1>20, <1>21, <1>22 DEF Next, Exited

(* The invariant holds for every period, call length and bound.            *)
THEOREM Invariance == Spec => []IInv
<1>1. Init => IInv
  BY InitIInv, ConstantsAssumption
<1>2. IInv /\ [Next]_vars => IInv'
  BY NextIInv, ConstantsAssumption
<1> QED
  BY <1>1, <1>2, PTL DEF Spec

(* Every variable keeps its type; the counters of failures, blocked calls  *)
(* and ticks by which the timers lag stay within their bounds.             *)
THEOREM Types == Spec => []TypeOK
<1>1. IInv => TypeOK
  BY DEF IInv
<1> QED
  BY <1>1, Invariance, PTL

(* The client has one timer between its calls (start_event_nf_heartbeat,   *)
(* start_nrf_registration_retry, stop_nrf_registration_retry).             *)
THEOREM TimerIsUnique == Spec => []OneTimer
<1>1. IInv => OneTimer
  BY DEF IInv, Timers, OneTimer, RetryOnly, BeatingOnly
<1> QED
  BY <1>1, Invariance, PTL

(* No procedure of the client runs after ~lmf_app has deleted it, signals  *)
(* during the start included.                                              *)
THEOREM CallsEndBeforeDelete == Spec => []NoCallAfterDelete
<1>1. IInv => NoCallAfterDelete
  BY DEF IInv, Lifetimes, NoCallAfterDelete
<1> QED
  BY <1>1, Invariance, PTL

=============================================================================
