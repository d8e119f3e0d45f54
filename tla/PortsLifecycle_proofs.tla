----------------------- MODULE PortsLifecycle_proofs ------------------------
(***************************************************************************)
(* What the process "ports" keeps for every set of configurations, and for *)
(* any number of failures, outages and signals.                            *)
(***************************************************************************)
EXTENDS PortsLifecycle, TLAPS

Places ==
  [main : {"start", "stores", "services", "listen", "run", "stop", "drain",
           "close", "closeChannel", "wait"},
   signal : {"none", "start", "waiting", "stop", "drain", "close", "ended"},
   serve : {"none", "start", "serving", "stopping", "ended"}]

\* The goroutines exist once main is in the run group.
Started == at["main"] \notin {"start", "stores", "services", "listen"}

Received == at["main"] \in {"stop", "drain", "close", "closeChannel", "wait"}

One(b) == IF b THEN 1 ELSE 0

-----------------------------------------------------------------------------
(* The inductive invariant, in four parts.                                 *)

TypeInv ==
  /\ config \in Configs /\ dbUp \in BOOLEAN /\ faults \in 0 .. MaxFaults
  /\ signals \in 0 .. MaxSignals
  /\ at \in Places
  /\ tries \in 0 .. 3 /\ db \in {"none", "open", "closed"} /\ registered \subseteq Known
  /\ lis \in {"none", "nil", "open", "closed"}
  /\ stopped \in BOOLEAN /\ drained \in BOOLEAN
  /\ notified \in BOOLEAN /\ pending \in BOOLEAN /\ closed \in BOOLEAN
  /\ errs \in Seq({"nil", "error"})
  /\ result \in {"none", "nil", "error"}
  /\ exit \in {"none", "initError", "runtimeError", "success", "panic", "killed"}

\* How far the parts of the process have come, relative to each other.
Stages ==
  /\ at["main"] = "start" => tries = 0
  /\ Runs /\ at["main"] = "stores" => tries <= 2
  /\ (at["serve"] = "none") = ~Started /\ (at["signal"] = "none") = ~Started
  /\ at["main"] \in {"drain", "close", "closeChannel", "wait"} => stopped
  /\ at["signal"] \in {"drain", "close", "ended"} => stopped
  /\ at["main"] \in {"closeChannel", "wait"} => db = "closed"
  /\ at["signal"] = "ended" => db = "closed"

\* What main has prepared is there until Shutdown takes it away.
Prepared ==
  /\ at["main"] = "services" => db = "open"
  /\ Started \/ at["main"] = "listen" =>
       /\ registered = {config.portsServices[i] : i \in DOMAIN config.portsServices}
       /\ stopped \/ db = "open"

\* The listener goes with Serve, and each goroutine that has ended has left one
\* result, in the channel or received.
Results ==
  /\ at["serve"] = "serving" /\ stopped => lis = "closed"
  /\ at["serve"] \in {"stopping", "ended"} => lis = "closed"
  /\ Runs => Len(errs) + One(Received) =
               One(at["signal"] = "ended") + One(at["serve"] = "ended")
  /\ ~Runs => Len(errs) <= 2

Inv == TypeInv /\ Stages /\ Prepared /\ Results /\ SuccessIsClean

-----------------------------------------------------------------------------
(* The initial states, of the first process and of a restarted one. *)

\* What Init and Restart have in common.
Fresh ==
  /\ at = NotStarted
  /\ tries = 0 /\ db = "none" /\ registered = {}
  /\ lis = "none" /\ stopped = FALSE /\ drained = FALSE
  /\ notified = FALSE /\ pending = FALSE /\ closed = FALSE
  /\ errs = <<>> /\ result = "none"
  /\ exit = "none"

World ==
  /\ config \in Configs /\ dbUp \in BOOLEAN
  /\ faults \in 0 .. MaxFaults /\ signals \in 0 .. MaxSignals

\* A process that has not started satisfies the invariant.
LEMMA FreshInv == Fresh /\ World => Inv
<1> SUFFICES ASSUME Fresh, World PROVE Inv
  OBVIOUS
<1>1. at["main"] = "start" /\ at["signal"] = "none" /\ at["serve"] = "none" /\ at \in Places
  BY DEF Fresh, NotStarted, Places
<1>2. errs \in Seq({"nil", "error"}) /\ Len(errs) = 0
  BY DEF Fresh
<1>3. tries \in 0 .. 3 /\ registered \subseteq Known
  BY DEF Fresh
<1>4. TypeInv
  BY <1>1, <1>2, <1>3, Zenon DEF Fresh, World, TypeInv
<1>5. Stages /\ Prepared
  BY <1>1 DEF Fresh, Stages, Prepared, Started
<1>6. Results /\ SuccessIsClean
  BY <1>1, <1>2 DEF Fresh, Results, SuccessIsClean, Received, One, Runs
<1> QED
  BY <1>4, <1>5, <1>6 DEF Inv

LEMMA InitInv == Init => Inv
<1> SUFFICES ASSUME Init PROVE Inv
  OBVIOUS
<1>1. Fresh
  BY DEF Init, Fresh
<1>2. World
  BY FaultsAssumption DEF Init, World
<1> QED
  BY <1>1, <1>2, FreshInv

-----------------------------------------------------------------------------
(* Every step keeps the invariant. *)

LEMMA StepInv == Inv /\ [Next]_vars => Inv'
<1> SUFFICES ASSUME Inv, [Next]_vars PROVE Inv'
  OBVIOUS
<1>a. TypeInv /\ Stages /\ Prepared /\ Results /\ SuccessIsClean
  BY DEF Inv
<1> USE FaultsAssumption DEF vars, grpc, signal, group, setup, world, Runs
<1>1. CASE LoadConfig
  <2>1. TypeInv'
    BY <1>a, <1>1 DEF TypeInv, Places, LoadConfig, Exit, Go
  <2>2. Stages' /\ Prepared'
    BY <1>a, <1>1 DEF TypeInv, Places, Stages, Prepared, Started, LoadConfig, Exit, Go
  <2>3. Results' /\ SuccessIsClean'
    BY <1>a, <1>1 DEF TypeInv, Places, Stages, Started, Results, SuccessIsClean, Received, One, LoadConfig, Exit, Go
  <2> QED
    BY <2>1, <2>2, <2>3 DEF Inv
<1>2. CASE LoadStores
  <2>1. TypeInv'
    BY <1>a, <1>2 DEF TypeInv, Places, LoadStores, Exit, Go, Stages
  <2>2. Stages' /\ Prepared'
    BY <1>a, <1>2 DEF TypeInv, Places, Stages, Prepared, Started, LoadStores, Exit, Go
  <2>3. Results' /\ SuccessIsClean'
    BY <1>a, <1>2 DEF TypeInv, Places, Stages, Started, Results, SuccessIsClean, Received, One, LoadStores, Exit, Go
  <2> QED
    BY <2>1, <2>2, <2>3 DEF Inv
<1>3. CASE LoadServices
  <2>1. TypeInv'
    BY <1>a, <1>3 DEF TypeInv, Places, LoadServices, Exit, Go, Registrable
  <2>2. Stages' /\ Prepared'
    BY <1>a, <1>3 DEF TypeInv, Places, Stages, Prepared, Started, LoadServices, Exit, Go, Registrable
  <2>3. Results' /\ SuccessIsClean'
    BY <1>a, <1>3 DEF TypeInv, Places, Stages, Started, Results, SuccessIsClean, Received, One, LoadServices, Exit, Go, Registrable
  <2> QED
    BY <2>1, <2>2, <2>3 DEF Inv
<1>4. CASE Listen
  <2>1. TypeInv'
    BY <1>a, <1>4 DEF TypeInv, Places, Listen, Fault
  <2>2. Stages' /\ Prepared'
    BY <1>a, <1>4 DEF TypeInv, Places, Stages, Prepared, Started, Listen, Fault
  <2>3. Results' /\ SuccessIsClean'
    BY <1>a, <1>4 DEF TypeInv, Places, Stages, Started, Results, SuccessIsClean, Received, One, Listen, Fault
  <2> QED
    BY <2>1, <2>2, <2>3 DEF Inv
<1>5. CASE Stop("main")
  <2>1. TypeInv'
    BY <1>a, <1>5 DEF TypeInv, Places, Stop, Go
  <2>2. Stages' /\ Prepared'
    BY <1>a, <1>5 DEF TypeInv, Places, Stages, Prepared, Started, Stop, Go
  <2>3. Results' /\ SuccessIsClean'
    BY <1>a, <1>5 DEF TypeInv, Places, Stages, Started, Results, SuccessIsClean, Received, One, Stop, Go
  <2> QED
    BY <2>1, <2>2, <2>3 DEF Inv
<1>6. CASE Drain("main")
  <2>1. TypeInv'
    BY <1>a, <1>6 DEF TypeInv, Places, Drain, Go
  <2>2. Stages' /\ Prepared'
    BY <1>a, <1>6 DEF TypeInv, Places, Stages, Prepared, Started, Drain, Go
  <2>3. Results' /\ SuccessIsClean'
    BY <1>a, <1>6 DEF TypeInv, Places, Stages, Started, Results, SuccessIsClean, Received, One, Drain, Go
  <2> QED
    BY <2>1, <2>2, <2>3 DEF Inv
<1>7. CASE CloseDB("main")
  <2>1. TypeInv'
    BY <1>a, <1>7 DEF TypeInv, Places, CloseDB, Go
  <2>2. Stages' /\ Prepared'
    BY <1>a, <1>7 DEF TypeInv, Places, Stages, Prepared, Started, CloseDB, Go
  <2>3. Results' /\ SuccessIsClean'
    BY <1>a, <1>7 DEF TypeInv, Places, Stages, Started, Results, SuccessIsClean, Received, One, CloseDB, Go
  <2> QED
    BY <2>1, <2>2, <2>3 DEF Inv
<1>8. CASE FirstEnds
  <2>1. TypeInv'
    <3>1. errs' \in Seq({"nil", "error"}) /\ result' \in {"nil", "error"}
      BY <1>a, <1>8 DEF TypeInv, FirstEnds
    <3>2. at' \in Places
      BY <1>a, <1>8 DEF TypeInv, Places, FirstEnds, Go
    <3> QED
      BY <1>a, <1>8, <3>1, <3>2, ZenonT(40) DEF TypeInv, FirstEnds
  <2>2. Stages' /\ Prepared'
    BY <1>a, <1>8 DEF TypeInv, Places, Stages, Prepared, Started, FirstEnds, Go
  <2>3. Results' /\ SuccessIsClean'
    BY <1>a, <1>8 DEF TypeInv, Places, Stages, Started, Results, SuccessIsClean, Received, One, FirstEnds, Go
  <2> QED
    BY <2>1, <2>2, <2>3 DEF Inv
<1>9. CASE CloseChannel
  <2>1. TypeInv'
    BY <1>a, <1>9 DEF TypeInv, Places, CloseChannel, Go
  <2>2. Stages' /\ Prepared'
    BY <1>a, <1>9 DEF TypeInv, Places, Stages, Prepared, Started, CloseChannel, Go
  <2>3. Results' /\ SuccessIsClean'
    BY <1>a, <1>9 DEF TypeInv, Places, Stages, Started, Results, SuccessIsClean, Received, One, CloseChannel, Go
  <2> QED
    BY <2>1, <2>2, <2>3 DEF Inv
<1>10. CASE LastEnds
  <2>1. TypeInv'
    BY <1>a, <1>10 DEF TypeInv, Places, LastEnds, Exit
  <2>2. Stages' /\ Prepared'
    BY <1>a, <1>10 DEF TypeInv, Places, Stages, Prepared, Started, LastEnds, Exit
  <2>3. Results' /\ SuccessIsClean'
    BY <1>a, <1>10 DEF TypeInv, Places, Stages, Started, Results, SuccessIsClean, Received, One, LastEnds, Exit
  <2> QED
    BY <2>1, <2>2, <2>3 DEF Inv
<1>11. CASE Notify
  <2>1. TypeInv'
    BY <1>a, <1>11 DEF TypeInv, Places, Notify, Go
  <2>2. Stages' /\ Prepared'
    BY <1>a, <1>11 DEF TypeInv, Places, Stages, Prepared, Started, Notify, Go
  <2>3. Results' /\ SuccessIsClean'
    BY <1>a, <1>11 DEF TypeInv, Places, Stages, Started, Results, SuccessIsClean, Received, One, Notify, Go
  <2> QED
    BY <2>1, <2>2, <2>3 DEF Inv
<1>12. CASE WakeUp
  <2>1. TypeInv'
    <3>1. pending' \in BOOLEAN
      BY <1>12 DEF WakeUp
    <3>2. at' = [at EXCEPT !["signal"] = "stop"]
      BY <1>12 DEF WakeUp, Go
    <3>3. tries' = tries /\ db' = db /\ registered' = registered
         /\ lis' = lis /\ stopped' = stopped /\ drained' = drained
         /\ notified' = notified /\ closed' = closed /\ exit' = exit
         /\ errs' = errs /\ result' = result /\ config' = config /\ dbUp' = dbUp
         /\ faults' = faults /\ signals' = signals
      BY <1>12 DEF WakeUp
    <3> QED
      BY <1>a, <3>1, <3>2, <3>3 DEF TypeInv, Places
  <2>2. Stages' /\ Prepared'
    BY <1>a, <1>12 DEF TypeInv, Places, Stages, Prepared, Started, WakeUp, Go
  <2>3. Results' /\ SuccessIsClean'
    BY <1>a, <1>12 DEF TypeInv, Places, Stages, Started, Results, SuccessIsClean, Received, One, WakeUp, Go
  <2> QED
    BY <2>1, <2>2, <2>3 DEF Inv
<1>13. CASE Stop("signal")
  <2>1. TypeInv'
    BY <1>a, <1>13 DEF TypeInv, Places, Stop, Go
  <2>2. Stages' /\ Prepared'
    BY <1>a, <1>13 DEF TypeInv, Places, Stages, Prepared, Started, Stop, Go
  <2>3. Results' /\ SuccessIsClean'
    BY <1>a, <1>13 DEF TypeInv, Places, Stages, Started, Results, SuccessIsClean, Received, One, Stop, Go
  <2> QED
    BY <2>1, <2>2, <2>3 DEF Inv
<1>14. CASE Drain("signal")
  <2>1. TypeInv'
    BY <1>a, <1>14 DEF TypeInv, Places, Drain, Go
  <2>2. Stages' /\ Prepared'
    BY <1>a, <1>14 DEF TypeInv, Places, Stages, Prepared, Started, Drain, Go
  <2>3. Results' /\ SuccessIsClean'
    BY <1>a, <1>14 DEF TypeInv, Places, Stages, Started, Results, SuccessIsClean, Received, One, Drain, Go
  <2> QED
    BY <2>1, <2>2, <2>3 DEF Inv
<1>15. CASE CloseDB("signal")
  <2>1. TypeInv'
    BY <1>a, <1>15 DEF TypeInv, Places, CloseDB, Go
  <2>2. Stages' /\ Prepared'
    BY <1>a, <1>15 DEF TypeInv, Places, Stages, Prepared, Started, CloseDB, Go
  <2>3. Results' /\ SuccessIsClean'
    BY <1>a, <1>15 DEF TypeInv, Places, Stages, Started, Results, SuccessIsClean, Received, One, CloseDB, Go
  <2> QED
    BY <2>1, <2>2, <2>3 DEF Inv
<1>16. CASE Serve
  <2>1. TypeInv'
    BY <1>a, <1>16, SMTT(30) DEF TypeInv, Places, Serve, Go, EndServe, Exit
  <2>2. Stages' /\ Prepared'
    BY <1>a, <1>16 DEF TypeInv, Places, Stages, Prepared, Started, Serve, Go, EndServe, Exit
  <2>3. Results' /\ SuccessIsClean'
    BY <1>a, <1>16 DEF TypeInv, Places, Stages, Started, Results, SuccessIsClean, Received, One, Serve, Go, EndServe, Exit
  <2> QED
    BY <2>1, <2>2, <2>3 DEF Inv
<1>17. CASE ServeStops
  <2>1. TypeInv'
    BY <1>a, <1>17 DEF TypeInv, Places, ServeStops, Go
  <2>2. Stages' /\ Prepared'
    BY <1>a, <1>17 DEF TypeInv, Places, Stages, Prepared, Started, ServeStops, Go
  <2>3. Results' /\ SuccessIsClean'
    BY <1>a, <1>17 DEF TypeInv, Places, Stages, Started, Results, SuccessIsClean, Received, One, ServeStops, Go
  <2> QED
    BY <2>1, <2>2, <2>3 DEF Inv
<1>18. CASE ServeReturns
  <2>1. TypeInv'
    BY <1>a, <1>18 DEF TypeInv, Places, ServeReturns, Go, EndServe
  <2>2. Stages' /\ Prepared'
    BY <1>a, <1>18 DEF TypeInv, Places, Stages, Prepared, Started, ServeReturns, Go, EndServe
  <2>3. Results' /\ SuccessIsClean'
    BY <1>a, <1>18 DEF TypeInv, Places, Stages, Started, Results, SuccessIsClean, Received, One, ServeReturns, Go, EndServe
  <2> QED
    BY <2>1, <2>2, <2>3 DEF Inv
<1>19. CASE AcceptFails
  <2>1. TypeInv'
    BY <1>a, <1>19 DEF TypeInv, Places, AcceptFails, Go, EndServe, Fault
  <2>2. Stages' /\ Prepared'
    BY <1>a, <1>19 DEF TypeInv, Places, Stages, Prepared, Started, AcceptFails, Go, EndServe, Fault
  <2>3. Results' /\ SuccessIsClean'
    BY <1>a, <1>19 DEF TypeInv, Places, Stages, Started, Results, SuccessIsClean, Received, One, AcceptFails, Go, EndServe, Fault
  <2> QED
    BY <2>1, <2>2, <2>3 DEF Inv
<1>20. CASE HandlerPanics
  <2>1. TypeInv'
    BY <1>a, <1>20 DEF TypeInv, Places, HandlerPanics, Exit, Fault
  <2>2. Stages' /\ Prepared'
    BY <1>a, <1>20 DEF TypeInv, Places, Stages, Prepared, Started, HandlerPanics, Exit, Fault
  <2>3. Results' /\ SuccessIsClean'
    BY <1>a, <1>20 DEF TypeInv, Places, Stages, Started, Results, SuccessIsClean, Received, One, HandlerPanics, Exit, Fault
  <2> QED
    BY <2>1, <2>2, <2>3 DEF Inv
<1>21. CASE Signal
  <2>1. TypeInv'
    <3>1. signals' \in 0 .. MaxSignals
      BY <1>a, <1>21 DEF TypeInv, Signal
    <3>2. pending' \in BOOLEAN /\ at' = at /\ exit' \in {exit, "panic", "killed"}
      BY <1>a, <1>21, Zenon DEF TypeInv, Signal, Exit
    <3>3. tries' = tries /\ db' = db /\ registered' = registered
         /\ lis' = lis /\ stopped' = stopped /\ drained' = drained
         /\ notified' = notified /\ closed' = closed
         /\ errs' = errs /\ result' = result /\ config' = config /\ dbUp' = dbUp /\ faults' = faults
      BY <1>21 DEF Signal
    <3> QED
      BY <1>a, <3>1, <3>2, <3>3 DEF TypeInv, Places
  <2>2. Stages' /\ Prepared'
    BY <1>a, <1>21 DEF TypeInv, Places, Stages, Prepared, Started, Signal, Exit
  <2>3. Results' /\ SuccessIsClean'
    BY <1>a, <1>21 DEF TypeInv, Places, Stages, Started, Results, SuccessIsClean, Received, One, Signal, Exit
  <2> QED
    BY <2>1, <2>2, <2>3 DEF Inv
<1>22. CASE DatabaseDown
  <2>1. TypeInv'
    <3>1. faults' \in 0 .. MaxFaults
      BY <1>a, <1>22 DEF TypeInv, DatabaseDown, Fault
    <3>2. dbUp' \in BOOLEAN
      BY <1>22 DEF DatabaseDown
    <3>3. tries' = tries /\ db' = db /\ registered' = registered
         /\ lis' = lis /\ stopped' = stopped /\ drained' = drained
         /\ notified' = notified /\ closed' = closed
         /\ errs' = errs /\ result' = result /\ config' = config /\ at' = at
         /\ pending' = pending /\ exit' = exit /\ signals' = signals
      BY <1>22 DEF DatabaseDown
    <3> QED
      BY <1>a, <3>1, <3>2, <3>3 DEF TypeInv, Places
  <2>2. Stages' /\ Prepared'
    BY <1>a, <1>22 DEF TypeInv, Places, Stages, Prepared, Started, DatabaseDown, Fault
  <2>3. Results' /\ SuccessIsClean'
    BY <1>a, <1>22 DEF TypeInv, Places, Stages, Started, Results, SuccessIsClean, Received, One, DatabaseDown, Fault
  <2> QED
    BY <2>1, <2>2, <2>3 DEF Inv
<1>23. CASE DatabaseUp
  <2>1. TypeInv'
    BY <1>a, <1>23 DEF TypeInv, Places, DatabaseUp
  <2>2. Stages' /\ Prepared'
    BY <1>a, <1>23 DEF TypeInv, Places, Stages, Prepared, Started, DatabaseUp
  <2>3. Results' /\ SuccessIsClean'
    BY <1>a, <1>23 DEF TypeInv, Places, Stages, Started, Results, SuccessIsClean, Received, One, DatabaseUp
  <2> QED
    BY <2>1, <2>2, <2>3 DEF Inv
<1>24. CASE Restart
  <2>1. Fresh' /\ World'
    BY <1>a, <1>24 DEF Restart, Fresh, World, TypeInv
  <2> QED
    BY <2>1, FreshInv, PTL
<1>25. CASE UNCHANGED vars
  BY <1>a, <1>25 DEF Inv, TypeInv, Stages, Prepared, Results, SuccessIsClean, Started, Received
<1> QED
  BY <1>1, <1>2, <1>3, <1>4, <1>5, <1>6, <1>7, <1>8, <1>9, <1>10, <1>11, <1>12, <1>13, <1>14, <1>15, <1>16, <1>17, <1>18, <1>19, <1>20, <1>21, <1>22, <1>23, <1>24, <1>25
  DEF Next, Main, Signaled, Serving, Shutdown

LEMMA Invariance == Spec => []Inv
<1> QED
  BY InitInv, StepInv, PTL DEF Spec

-----------------------------------------------------------------------------
(* The results. *)

\* Every value has its type, and a result is in the channel or received for each
\* goroutine that has ended: the group never loses one and never waits for a third.
THEOREM TypeCorrect == Spec => []TypeOK
<1>1. Inv => TypeOK
  <2> SUFFICES ASSUME Inv PROVE TypeOK
    OBVIOUS
  <2>1. Len(errs) <= 2
    BY DEF Inv, TypeInv, Results, Received, One
  <2>2. TypeInv
    BY DEF Inv
  <2>3. {stopped, drained, notified, pending, closed} \subseteq BOOLEAN
    BY <2>2, Zenon DEF TypeInv
  <2> QED
    BY <2>1, <2>2, <2>3, Zenon DEF TypeInv, TypeOK, Places
<1> QED
  BY <1>1, Invariance, PTL

\* For every configuration and any number of failures: the gRPC server accepts calls
\* only with the database handle open and the services registered.
THEOREM ReadyWhenServing == Spec => []ServesReady
<1>1. Inv => ServesReady
  BY DEF Inv, TypeInv, Stages, Prepared, Started, ServesReady
<1> QED
  BY <1>1, Invariance, PTL

\* For every configuration and any number of failures and signals: a process that says
\* "all good" has let go of its listener, its database handle and its goroutines.
THEOREM CleanSuccess == Spec => []SuccessIsClean
<1>1. Inv => SuccessIsClean
  BY DEF Inv
<1> QED
  BY <1>1, Invariance, PTL

-----------------------------------------------------------------------------
(* Where the process comes to rest. *)

\* The server is stopped only by a Shutdown that goes on to the end of its
\* goroutine, past the draining, and main waits only behind a closed channel.
Flow ==
  /\ at["serve"] = "start" => lis \in {"open", "nil"}
  /\ at["serve"] = "stopping" => stopped
  /\ stopped => \/ at["main"] \in {"drain", "close", "closeChannel", "wait"}
                \/ at["signal"] \in {"drain", "close", "ended"}
  /\ at["main"] \in {"close", "closeChannel", "wait"} => drained
  /\ at["main"] = "wait" => closed

\* Every step keeps the order in which Shutdown and the group proceed.
LEMMA FlowStep == Inv /\ Flow /\ [Next]_vars => Flow'
<1> SUFFICES ASSUME Inv, Flow, [Next]_vars  PROVE Flow'
  OBVIOUS
<1>1. at \in Places /\ lis \in {"none", "nil", "open", "closed"}  BY DEF Inv, TypeInv
<1>2. at["serve"] = "none" => ~Started  BY DEF Inv, Stages
<1>3. (at["signal"] = "none") = ~Started  BY DEF Inv, Stages
<1> USE <1>1, <1>2, <1>3 DEF Flow, Started, Places, Go, Exit, vars, grpc, signal, group, setup, world
<1>4. CASE LoadConfig \/ LoadStores \/ LoadServices
  BY <1>4 DEF LoadConfig, LoadStores, LoadServices
<1>5. CASE Listen  BY <1>5 DEF Listen
<1>6. CASE Stop("main") \/ Stop("signal")  BY <1>6 DEF Stop
<1>7. CASE Drain("main") \/ Drain("signal")  BY <1>7 DEF Drain
<1>8. CASE CloseDB("main") \/ CloseDB("signal")  BY <1>8 DEF CloseDB
<1>9. CASE FirstEnds \/ CloseChannel \/ LastEnds  BY <1>9 DEF FirstEnds, CloseChannel, LastEnds
<1>10. CASE Notify \/ WakeUp  BY <1>10 DEF Notify, WakeUp
<1>11. CASE Serve  BY <1>11 DEF Serve, EndServe
<1>12. CASE ServeStops \/ ServeReturns  BY <1>12 DEF ServeStops, ServeReturns, EndServe
<1>13. CASE AcceptFails \/ HandlerPanics  BY <1>13 DEF AcceptFails, HandlerPanics, EndServe
<1>14. CASE Signal  BY <1>14 DEF Signal
<1>15. CASE DatabaseDown \/ DatabaseUp  BY <1>15 DEF DatabaseDown, DatabaseUp
<1>16. CASE Restart  BY <1>16 DEF Restart, NotStarted
<1>17. CASE UNCHANGED vars  BY <1>17
<1> QED
  BY <1>4, <1>5, <1>6, <1>7, <1>8, <1>9, <1>10, <1>11, <1>12, <1>13, <1>14, <1>15, <1>16, <1>17
  DEF Next, Main, Signaled, Serving, Shutdown

\* For every configuration and any number of failures and signals: no order of
\* the two Shutdowns, of Serve and of the group leaves them waiting for each other;
\* whoever waits, waits for a party that can go on, or the service is up.
THEOREM RestsInService == Spec => []RestsOnlyInService
<1>1. Init => Flow  BY DEF Init, Flow, NotStarted
<1>2. Inv /\ Flow => RestsOnlyInService
  <2> SUFFICES ASSUME Inv, Flow, Runs, ~MainReady, ~SignaledReady, ~ServingReady
               PROVE  /\ at["main"] = "run" /\ at["signal"] = "waiting"
                      /\ at["serve"] = "serving" /\ ~stopped /\ errs = <<>>
    BY DEF RestsOnlyInService
  <2>1. at \in Places /\ stopped \in BOOLEAN  BY DEF Inv, TypeInv
  <2>2. at["main"] # "drain"
    BY DEF Inv, Stages, MainReady, ServingReady
  <2>3. at["main"] \in {"run", "wait"} /\ errs = <<>> /\ Started
    BY <2>1, <2>2 DEF MainReady, Places, Started
  <2>4. Len(errs) = 0  BY <2>3
  <2>5. at["signal"] \in {"waiting", "drain", "ended"}
        /\ at["serve"] \in {"serving", "stopping", "ended"}
    BY <2>1, <2>3 DEF Inv, Stages, SignaledReady, ServingReady, Flow, Places
  <2>6. at["signal"] # "drain"
    BY DEF Inv, Stages, SignaledReady, ServingReady
  <2>7. CASE at["main"] = "run"
    <3>1. at["signal"] # "ended" /\ at["serve"] # "ended"
      BY <2>4, <2>7 DEF Inv, Results, Received, One
    <3>2. at["signal"] = "waiting" /\ ~stopped
      BY <2>1, <2>5, <2>6, <2>7, <3>1 DEF Flow
    <3> QED  BY <2>3, <2>5, <2>7, <3>1, <3>2 DEF Flow
  <2>8. CASE at["main"] = "wait"
    <3>1. closed /\ drained /\ stopped  BY <2>8 DEF Flow, Inv, Stages
    <3>2. at["signal"] = "ended"  BY <2>5, <2>6, <3>1 DEF SignaledReady
    <3>3. at["serve"] = "ended"  BY <2>5, <3>1 DEF ServingReady
    <3> QED  BY <2>4, <2>8, <3>2, <3>3 DEF Inv, Results, Received, One
  <2> QED  BY <2>3, <2>7, <2>8
<1> QED  BY <1>1, <1>2, FlowStep, Invariance, PTL DEF Spec

-----------------------------------------------------------------------------
(* Every step counts. *)

\* How far main and the goroutines are from their ends.
MainSteps ==
  [start |-> 9, stores |-> 8, services |-> 7, listen |-> 6, run |-> 5, stop |-> 4, drain |-> 3,
   close |-> 2, closeChannel |-> 1, wait |-> 0]
SignalSteps ==
  [none |-> 6, start |-> 5, waiting |-> 4, stop |-> 3, drain |-> 2, close |-> 1, ended |-> 0]
ServeSteps == [none |-> 4, start |-> 3, serving |-> 2, stopping |-> 1, ended |-> 0]

MainRank == MainSteps[at["main"]]
SignalRank == SignalSteps[at["signal"]]
ServeRank == ServeSteps[at["serve"]]

\* What failures, outages and signals can still do to the process.
OutageRank == 2 * (MaxFaults - faults) + One(~dbUp)

\* An upper bound on the steps that are left until the process has ended.
Total(m, g, v, t, o, n, r) == m + g + v + t + o + n + r
Work ==
  Total(MainRank, SignalRank, ServeRank, 3 - tries, OutageRank, MaxSignals - signals, One(Runs))

\* A total is lower when one part is and no other is higher.
Lowers(m, g, v, t, o, n, r, m2, g2, v2, t2, o2, n2, r2) ==
  /\ m2 = m \/ m2 < m
  /\ g2 = g \/ g2 < g
  /\ v2 = v \/ v2 < v
  /\ t2 = t \/ t2 < t
  /\ o2 = o \/ o2 < o
  /\ n2 = n \/ n2 < n
  /\ r2 = r \/ r2 < r
  /\ m2 < m \/ g2 < g \/ v2 < v \/ t2 < t \/ o2 < o \/ n2 < n \/ r2 < r

LEMMA Lighter ==
  ASSUME NEW m \in Nat, NEW g \in Nat, NEW v \in Nat, NEW t \in Nat, NEW o \in Nat,
         NEW n \in Nat, NEW r \in Nat,
         NEW m2 \in Nat, NEW g2 \in Nat, NEW v2 \in Nat, NEW t2 \in Nat, NEW o2 \in Nat,
         NEW n2 \in Nat, NEW r2 \in Nat,
         Lowers(m, g, v, t, o, n, r, m2, g2, v2, t2, o2, n2, r2)
  PROVE  /\ Total(m, g, v, t, o, n, r) \in Nat /\ Total(m2, g2, v2, t2, o2, n2, r2) \in Nat
         /\ Total(m2, g2, v2, t2, o2, n2, r2) < Total(m, g, v, t, o, n, r)
BY DEF Lowers, Total

\* The counts, place by place.
LEMMA StepCounts ==
  /\ MainSteps["start"] = 9 /\ MainSteps["stores"] = 8 /\ MainSteps["services"] = 7
  /\ MainSteps["listen"] = 6 /\ MainSteps["run"] = 5 /\ MainSteps["stop"] = 4
  /\ MainSteps["drain"] = 3 /\ MainSteps["close"] = 2 /\ MainSteps["closeChannel"] = 1
  /\ MainSteps["wait"] = 0
  /\ SignalSteps["none"] = 6 /\ SignalSteps["start"] = 5 /\ SignalSteps["waiting"] = 4
  /\ SignalSteps["stop"] = 3 /\ SignalSteps["drain"] = 2 /\ SignalSteps["close"] = 1
  /\ SignalSteps["ended"] = 0
  /\ ServeSteps["none"] = 4 /\ ServeSteps["start"] = 3 /\ ServeSteps["serving"] = 2
  /\ ServeSteps["stopping"] = 1 /\ ServeSteps["ended"] = 0
BY DEF MainSteps, SignalSteps, ServeSteps

\* The bound is a number and every step of a process lowers it.
LEMMA WorkStep == Inv /\ Next /\ ~Restart => Work \in Nat /\ Work' \in Nat /\ Work' < Work
<1> SUFFICES ASSUME Inv, Next, ~Restart  PROVE Work \in Nat /\ Work' \in Nat /\ Work' < Work
  OBVIOUS
<1> DEFINE Numbers ==
      /\ MainRank \in Nat /\ SignalRank \in Nat /\ ServeRank \in Nat /\ 3 - tries \in Nat
      /\ OutageRank \in Nat /\ MaxSignals - signals \in Nat /\ One(Runs) \in Nat
<1>1. at \in Places /\ tries \in 0 .. 3 /\ faults \in 0 .. MaxFaults /\ signals \in 0 .. MaxSignals
  BY DEF Inv, TypeInv
<1>2. at' \in Places /\ tries' \in 0 .. 3 /\ faults' \in 0 .. MaxFaults
      /\ signals' \in 0 .. MaxSignals
  BY StepInv DEF Inv, TypeInv
<1>a. /\ \A f \in 0 .. MaxFaults : \A b : 2 * (MaxFaults - f) + One(b) \in Nat
      /\ \A n \in 0 .. MaxSignals : MaxSignals - n \in Nat
      /\ \A n \in 0 .. 3 : 3 - n \in Nat
  BY FaultsAssumption DEF One
<1>3. Numbers
  <2>1. MainRank \in Nat /\ SignalRank \in Nat /\ ServeRank \in Nat
    BY <1>1, StepCounts DEF MainRank, SignalRank, ServeRank, Places
  <2> QED  BY <1>1, <1>a, <2>1 DEF OutageRank, One
<1>4. Numbers'
  <2>1. MainRank' \in Nat /\ SignalRank' \in Nat /\ ServeRank' \in Nat
    BY <1>2, StepCounts DEF MainRank, SignalRank, ServeRank, Places
  <2>2. OutageRank' \in Nat  BY <1>2, <1>a DEF OutageRank
  <2>3. 3 - tries' \in Nat /\ MaxSignals - signals' \in Nat  BY <1>2, <1>a
  <2>4. One(Runs)' \in Nat  BY DEF One
  <2> QED  BY <2>1, <2>2, <2>3, <2>4
<1> DEFINE
      Goal == Lowers(MainRank, SignalRank, ServeRank, 3 - tries, OutageRank,
                     MaxSignals - signals, One(Runs),
                     MainRank', SignalRank', ServeRank', 3 - tries', OutageRank',
                     MaxSignals - signals', One(Runs)')
      Quiet == UNCHANGED <<tries, faults, dbUp, signals>>
<1> USE DEF setup, grpc, signal, group, world
<1>5. Quiet => 3 - tries' = 3 - tries /\ OutageRank' = OutageRank
               /\ MaxSignals - signals' = MaxSignals - signals
  BY DEF OutageRank, One
<1>6. exit' = exit => One(Runs)' = One(Runs)  BY DEF One, Runs
<1>b. at' = at => MainRank' = MainRank /\ SignalRank' = SignalRank /\ ServeRank' = ServeRank
  BY DEF MainRank, SignalRank, ServeRank
<1>7. ASSUME Quiet, UNCHANGED exit, NEW p, at' = [at EXCEPT !["main"] = p],
             MainSteps[p] < MainSteps[at["main"]]
      PROVE  Goal
  <2>1. MainRank' < MainRank /\ SignalRank' = SignalRank /\ ServeRank' = ServeRank
    BY <1>1, <1>7 DEF MainRank, SignalRank, ServeRank, Places
  <2> QED  BY <1>3, <1>4, <1>5, <1>6, <1>7, <2>1 DEF Lowers
<1>8. ASSUME Quiet, UNCHANGED exit, NEW p, at' = [at EXCEPT !["signal"] = p],
             SignalSteps[p] < SignalSteps[at["signal"]]
      PROVE  Goal
  <2>1. SignalRank' < SignalRank /\ MainRank' = MainRank /\ ServeRank' = ServeRank
    BY <1>1, <1>8 DEF MainRank, SignalRank, ServeRank, Places
  <2> QED  BY <1>3, <1>4, <1>5, <1>6, <1>8, <2>1 DEF Lowers
<1>9. ASSUME Quiet, UNCHANGED exit, NEW p, at' = [at EXCEPT !["serve"] = p],
             ServeSteps[p] < ServeSteps[at["serve"]]
      PROVE  Goal
  <2>1. ServeRank' < ServeRank /\ MainRank' = MainRank /\ SignalRank' = SignalRank
    BY <1>1, <1>9 DEF MainRank, SignalRank, ServeRank, Places
  <2> QED  BY <1>3, <1>4, <1>5, <1>6, <1>9, <2>1 DEF Lowers
<1>10. ASSUME Quiet, UNCHANGED at, exit = "none", exit' # "none"
       PROVE  Goal
  <2>1. ServeRank' = ServeRank /\ MainRank' = MainRank /\ SignalRank' = SignalRank
    BY <1>10 DEF MainRank, SignalRank, ServeRank
  <2>2. One(Runs)' < One(Runs)  BY <1>10 DEF One, Runs
  <2> QED  BY <1>3, <1>4, <1>5, <1>10, <2>1, <2>2 DEF Lowers
<1>11. Goal
  <2> HIDE DEF Goal, Quiet
  <2> USE StepCounts DEF Go, Exit, Runs
  <2>1. CASE LoadConfig \/ LoadServices
    <3>1. Quiet  BY <2>1 DEF Quiet, LoadConfig, LoadServices
    <3> QED  BY <1>7, <1>10, <2>1, <3>1 DEF LoadConfig, LoadServices
  <2>2. CASE \E g \in {"main", "signal"} : Shutdown(g)
    <3>1. Quiet /\ UNCHANGED exit  BY <2>2 DEF Quiet, Shutdown, Stop, Drain, CloseDB
    <3>2. CASE Shutdown("main")  BY <1>7, <3>1, <3>2 DEF Shutdown, Stop, Drain, CloseDB
    <3>3. CASE Shutdown("signal")  BY <1>8, <3>1, <3>3 DEF Shutdown, Stop, Drain, CloseDB
    <3> QED  BY <2>2, <3>2, <3>3
  <2>3. CASE FirstEnds \/ CloseChannel
    <3>1. Quiet /\ UNCHANGED exit  BY <2>3 DEF Quiet, FirstEnds, CloseChannel
    <3> QED  BY <1>7, <2>3, <3>1 DEF FirstEnds, CloseChannel
  <2>4. CASE LastEnds
    <3>1. Quiet /\ UNCHANGED at /\ exit = "none" /\ exit' # "none"
      BY <2>4 DEF Quiet, LastEnds
    <3> QED  BY <1>10, <3>1
  <2>5. CASE Notify \/ WakeUp
    <3>1. Quiet /\ UNCHANGED exit  BY <2>5 DEF Quiet, Notify, WakeUp
    <3> QED  BY <1>8, <2>5, <3>1 DEF Notify, WakeUp
  <2>6. CASE Serve
    <3>1. Quiet  BY <2>6 DEF Quiet, Serve
    <3>2. \/ UNCHANGED at /\ exit = "none" /\ exit' # "none"
          \/ /\ at["serve"] = "start" /\ UNCHANGED exit
             /\ \E p \in {"serving", "ended"} : at' = [at EXCEPT !["serve"] = p]
      BY <2>6 DEF Serve, EndServe
    <3> QED  BY <1>9, <1>10, <3>1, <3>2
  <2>7. CASE ServeStops \/ ServeReturns
    <3>1. Quiet /\ UNCHANGED exit  BY <2>7 DEF Quiet, ServeStops, ServeReturns
    <3> QED  BY <1>9, <2>7, <3>1 DEF ServeStops, ServeReturns, EndServe
  <2>8. CASE HandlerPanics
    <3>1. OutageRank' < OutageRank
      BY <1>1, <1>2, <2>8, FaultsAssumption DEF HandlerPanics, Fault, OutageRank, One
    <3>2. UNCHANGED <<at, tries, signals>> /\ exit = "none" /\ exit' # "none"
      BY <2>8 DEF HandlerPanics
    <3>3. One(Runs)' < One(Runs)  BY <3>2 DEF One
    <3> QED  BY <1>b, <3>1, <3>2, <3>3 DEF Goal, Lowers
  <2>9. CASE AcceptFails
    <3>1. OutageRank' < OutageRank
      BY <1>1, <1>2, <2>9, FaultsAssumption DEF AcceptFails, Fault, OutageRank, One
    <3>2. UNCHANGED <<tries, signals, exit>> /\ at["serve"] = "serving"
          /\ at' = [at EXCEPT !["serve"] = "ended"]
      BY <2>9 DEF AcceptFails, EndServe
    <3>3. ServeRank' < ServeRank /\ MainRank' = MainRank /\ SignalRank' = SignalRank
      BY <1>1, <3>2 DEF MainRank, SignalRank, ServeRank, Places
    <3> QED  BY <1>6, <3>1, <3>2, <3>3 DEF Goal, Lowers
  <2>10. CASE Listen
    <3>1. OutageRank' = OutageRank \/ OutageRank' < OutageRank
      BY <1>1, <1>2, <2>10, FaultsAssumption DEF Listen, Fault, OutageRank, One
    <3>2. /\ at["main"] = "listen" /\ at["signal"] = "none" /\ at["serve"] = "none"
          /\ at' = [main |-> "run", signal |-> "start", serve |-> "start"]
          /\ UNCHANGED <<tries, signals, exit>>
      BY <2>10 DEF Listen, Inv, Stages, Started
    <3>3. MainRank' < MainRank /\ SignalRank' < SignalRank /\ ServeRank' < ServeRank
      BY <3>2 DEF MainRank, SignalRank, ServeRank
    <3> QED  BY <1>6, <3>1, <3>2, <3>3 DEF Goal, Lowers
  <2>11. CASE LoadStores
    <3>1. UNCHANGED <<faults, dbUp, signals>> /\ tries' = tries + 1  BY <2>11 DEF LoadStores
    <3>2. 3 - tries' < 3 - tries  BY <1>1, <1>2, <3>1
    <3>3. OutageRank' = OutageRank /\ MaxSignals - signals' = MaxSignals - signals
      BY <3>1 DEF OutageRank, One
    <3>4. \/ at' = at
          \/ at["main"] = "stores" /\ at' = [at EXCEPT !["main"] = "services"]
      BY <2>11 DEF LoadStores
    <3>5. /\ MainRank' = MainRank \/ MainRank' < MainRank
          /\ SignalRank' = SignalRank /\ ServeRank' = ServeRank
      BY <1>1, <3>4 DEF MainRank, SignalRank, ServeRank, Places
    <3>6. One(Runs)' = One(Runs) \/ One(Runs)' < One(Runs)  BY <2>11 DEF LoadStores, One
    <3> QED  BY <3>2, <3>3, <3>5, <3>6 DEF Goal, Lowers
  <2>12. CASE Signal \/ DatabaseDown \/ DatabaseUp
    <3>1. UNCHANGED <<at, tries>>  BY <2>12 DEF Signal, DatabaseDown, DatabaseUp
    <3>2. One(Runs)' = One(Runs) \/ One(Runs)' < One(Runs)
      BY <2>12 DEF Signal, DatabaseDown, DatabaseUp, One
    <3>3. CASE Signal
      <4>1. MaxSignals - signals' < MaxSignals - signals
        BY <1>1, <1>2, <3>3, FaultsAssumption DEF Signal
      <4>2. OutageRank' = OutageRank  BY <3>3 DEF Signal, OutageRank, One
      <4> QED  BY <1>b, <3>1, <3>2, <4>1, <4>2 DEF Goal, Lowers
    <3>4. CASE DatabaseDown \/ DatabaseUp
      <4>1. \/ faults' = faults + 1 /\ One(~dbUp') <= One(~dbUp) + 1
            \/ faults' = faults /\ One(~dbUp') = 0 /\ One(~dbUp) = 1
        BY <3>4 DEF DatabaseDown, DatabaseUp, Fault, One
      <4>a. One(~dbUp) \in Nat /\ One(~dbUp') \in Nat  BY DEF One
      <4>b. OutageRank' < OutageRank
        BY <1>1, <1>2, <4>1, <4>a, FaultsAssumption DEF OutageRank
      <4>2. UNCHANGED signals  BY <3>4 DEF DatabaseDown, DatabaseUp
      <4> QED  BY <1>b, <3>1, <3>2, <4>b, <4>2 DEF Goal, Lowers
    <3> QED  BY <2>12, <3>3, <3>4
  <2> QED
    BY <2>1, <2>2, <2>3, <2>4, <2>5, <2>6, <2>7, <2>8, <2>9, <2>10, <2>11, <2>12
    DEF Next, Main, Signaled, Serving
<1> QED  BY <1>3, <1>4, <1>11, Lighter DEF Work

\* Between two restarts the process takes finitely many steps, however main, the
\* goroutines, the failures and the signals interleave: every other step lowers Work.
\* With RestsInService, each start ends or brings the service up.
THEOREM EveryStepCounts ==
  Spec => [][Restart \/ (Work \in Nat /\ Work' \in Nat /\ Work' < Work)]_vars
BY WorkStep, Invariance, PTL DEF Spec

=============================================================================
