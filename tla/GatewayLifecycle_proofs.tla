---------------------- MODULE GatewayLifecycle_proofs -----------------------
(***************************************************************************)
(* What the process "restgateway" keeps for every set of configurations    *)
(* and requests, and for any number of failures and signals.               *)
(***************************************************************************)
EXTENDS GatewayLifecycle, TLAPS

-----------------------------------------------------------------------------
(* The inductive invariant, in four parts.                                 *)

TypeInv ==
  /\ config \in Configs /\ faults \in 0 .. MaxFaults /\ signals \in 0 .. MaxSignals
  /\ main \in {"start", "dial", "listen", "context", "wait"} /\ tries \in 0 .. 3
  /\ lis \in {"none", "open", "closed"}
  /\ watcher \in {"none", "waiting", "ended"} /\ pending \in BOOLEAN /\ cancelled \in BOOLEAN
  /\ serve \in {"none", "start", "serving", "ended"} /\ shutting \in BOOLEAN /\ failed \in BOOLEAN
  /\ run \in {"none", "select", "shutdown", "wait", "ended"}
  /\ result \in {"none", "nil", "error"}
  /\ handler \in [Requests -> {"none", "active", "hung", "answered", "cut"}]
  /\ exit \in {"none", "success", "fatal", "killed"}

\* How far the parts of the process have come, relative to each other.
Stages ==
  /\ main = "start" => tries = 0
  /\ tries = 3 => ~Runs
  /\ (main = "wait") = (run # "none") /\ (main = "wait") = (serve # "none")
  /\ cancelled => main = "wait"
  /\ watcher # "none" => main = "wait"
  /\ run = "shutdown" => shutting
  /\ run = "ended" => serve = "ended"

\* A server that shuts down accepts nothing, whether it has begun to serve or not.
Closed ==
  /\ serve = "serving" /\ shutting => lis = "closed"
  /\ serve = "ended" => lis = "closed"

\* Run's result is nil only after a Shutdown that has waited for the handlers.
Waited ==
  result = "nil" => shutting /\ \A r \in Requests : handler[r] \notin {"active", "hung"}

Inv == TypeInv /\ Stages /\ Closed /\ Waited

-----------------------------------------------------------------------------
(* The initial states, of the first process and of a restarted one. *)

\* What Init and Restart have in common.
Fresh ==
  /\ main = "start" /\ tries = 0 /\ lis = "none"
  /\ watcher = "none" /\ pending = FALSE /\ cancelled = FALSE
  /\ serve = "none" /\ shutting = FALSE /\ failed = FALSE
  /\ run = "none" /\ result = "none"
  /\ exit = "none"

World ==
  /\ handler \in [Requests -> {"none", "active", "hung", "answered", "cut"}]
  /\ config \in Configs /\ faults \in 0 .. MaxFaults /\ signals \in 0 .. MaxSignals

\* A process that has not started satisfies the invariant.
LEMMA FreshInv == Fresh /\ World => Inv
<1> SUFFICES ASSUME Fresh, World PROVE Inv
  OBVIOUS
<1>1. tries \in 0 .. 3 /\ tries # 3
  BY DEF Fresh
<1>2. TypeInv
  BY <1>1, Zenon DEF Fresh, World, TypeInv
<1>3. Stages /\ Closed /\ Waited
  BY <1>1 DEF Fresh, Stages, Closed, Waited
<1> QED
  BY <1>2, <1>3 DEF Inv

LEMMA InitInv == Init => Inv
<1> SUFFICES ASSUME Init PROVE Inv
  OBVIOUS
<1>1. Fresh
  BY DEF Init, Fresh
<1>2. World
  BY BoundsAssumption DEF Init, World
<1> QED
  BY <1>1, <1>2, FreshInv

-----------------------------------------------------------------------------
(* Every step keeps the invariant. *)

LEMMA StepInv == Inv /\ [Next]_vars => Inv'
<1> SUFFICES ASSUME Inv, [Next]_vars PROVE Inv'
  OBVIOUS
<1>a. TypeInv /\ Stages /\ Closed /\ Waited
  BY DEF Inv
<1> USE BoundsAssumption DEF vars, setup, context, server, runs, world, Runs, Stays
<1>1. CASE LoadConfig
  <2>1. TypeInv'
    BY <1>a, <1>1 DEF TypeInv, LoadConfig, Exit
  <2>2. Stages' /\ Closed'
    BY <1>a, <1>1 DEF TypeInv, Stages, Closed, LoadConfig, Exit
  <2>3. Waited'
    BY <1>a, <1>1 DEF TypeInv, Stages, Waited, LoadConfig, Exit
  <2> QED
    BY <2>1, <2>2, <2>3 DEF Inv
<1>2. CASE Dial
  <2>1. TypeInv'
    BY <1>a, <1>2 DEF TypeInv, Dial
  <2>2. Stages' /\ Closed'
    BY <1>a, <1>2 DEF TypeInv, Stages, Closed, Dial
  <2>3. Waited'
    BY <1>a, <1>2 DEF TypeInv, Stages, Waited, Dial
  <2> QED
    BY <2>1, <2>2, <2>3 DEF Inv
<1>3. CASE New
  <2>1. TypeInv'
    BY <1>a, <1>3 DEF TypeInv, New, Exit, Fault
  <2>2. Stages' /\ Closed'
    BY <1>a, <1>3 DEF TypeInv, Stages, Closed, New, Exit, Fault
  <2>3. Waited'
    BY <1>a, <1>3 DEF TypeInv, Stages, Waited, New, Exit, Fault
  <2> QED
    BY <2>1, <2>2, <2>3 DEF Inv
<1>4. CASE Start
  <2>1. TypeInv'
    BY <1>a, <1>4 DEF TypeInv, Start
  <2>2. Stages' /\ Closed'
    BY <1>a, <1>4 DEF TypeInv, Stages, Closed, Start
  <2>3. Waited'
    BY <1>a, <1>4 DEF TypeInv, Stages, Waited, Start
  <2> QED
    BY <2>1, <2>2, <2>3 DEF Inv
<1>5. CASE MainReturns
  <2>1. TypeInv'
    BY <1>a, <1>5 DEF TypeInv, MainReturns, Exit
  <2>2. Stages' /\ Closed'
    BY <1>a, <1>5 DEF TypeInv, Stages, Closed, MainReturns, Exit
  <2>3. Waited'
    BY <1>a, <1>5 DEF TypeInv, Stages, Waited, MainReturns, Exit
  <2> QED
    BY <2>1, <2>2, <2>3 DEF Inv
<1>6. CASE DialFails
  <2>1. TypeInv'
    BY <1>a, <1>6 DEF TypeInv, Stages, DialFails, Exit, Fault
  <2>2. Stages' /\ Closed'
    BY <1>a, <1>6 DEF TypeInv, Stages, Closed, DialFails, Exit, Fault
  <2>3. Waited'
    BY <1>a, <1>6 DEF TypeInv, Stages, Waited, DialFails, Exit, Fault
  <2> QED
    BY <2>1, <2>2, <2>3 DEF Inv
<1>7. CASE Cancel
  <2>1. TypeInv'
    <3>1. watcher' = "ended" /\ pending' \in BOOLEAN /\ cancelled' \in BOOLEAN
      BY <1>7 DEF Cancel
    <3>2. UNCHANGED <<config, faults, signals, main, tries, lis, serve, shutting, failed,
                      run, result, handler, exit>>
      BY <1>7 DEF Cancel, Stays
    <3> QED
      BY <1>a, <3>1, <3>2 DEF TypeInv
  <2>2. Stages' /\ Closed'
    BY <1>a, <1>7 DEF TypeInv, Stages, Closed, Cancel
  <2>3. Waited'
    BY <1>a, <1>7 DEF TypeInv, Stages, Waited, Cancel
  <2> QED
    BY <2>1, <2>2, <2>3 DEF Inv
<1>8. CASE Signal
  <2>1. TypeInv'
    <3>1. signals' \in 0 .. MaxSignals
      BY <1>a, <1>8 DEF TypeInv, Signal
    <3>2. pending' \in BOOLEAN
      BY <1>a, <1>8, Zenon DEF TypeInv, Signal
    <3>3. /\ exit' \in {"none", "success", "fatal", "killed"}
          /\ handler' \in [Requests -> {"none", "active", "hung", "answered", "cut"}]
      BY <1>a, <1>8 DEF TypeInv, Signal, Exit
    <3>4. UNCHANGED <<config, faults, main, tries, lis, watcher, cancelled, serve, shutting,
                      failed, run, result>>
      BY <1>8 DEF Signal
    <3> QED
      BY <1>a, <3>1, <3>2, <3>3, <3>4 DEF TypeInv
  <2>2. Stages' /\ Closed'
    BY <1>a, <1>8 DEF TypeInv, Stages, Closed, Signal, Exit
  <2>3. Waited'
    BY <1>a, <1>8 DEF TypeInv, Stages, Waited, Signal, Exit
  <2> QED
    BY <2>1, <2>2, <2>3 DEF Inv
<1>9. CASE SelectError
  <2>1. TypeInv'
    <3>1. failed' \in BOOLEAN /\ run' = "wait" /\ result' = "error"
      BY <1>9 DEF SelectError
    <3>2. UNCHANGED <<config, faults, signals, main, tries, lis, watcher, pending, cancelled,
                      serve, shutting, handler, exit>>
      BY <1>9 DEF SelectError, Stays
    <3> QED
      BY <1>a, <3>1, <3>2 DEF TypeInv
  <2>2. Stages' /\ Closed'
    BY <1>a, <1>9 DEF TypeInv, Stages, Closed, SelectError
  <2>3. Waited'
    BY <1>a, <1>9 DEF TypeInv, Stages, Waited, SelectError
  <2> QED
    BY <2>1, <2>2, <2>3 DEF Inv
<1>10. CASE SelectDone
  <2>1. TypeInv'
    BY <1>a, <1>10 DEF TypeInv, SelectDone
  <2>2. Stages' /\ Closed'
    BY <1>a, <1>10 DEF TypeInv, Stages, Closed, SelectDone
  <2>3. Waited'
    BY <1>a, <1>10 DEF TypeInv, Stages, Waited, SelectDone
  <2> QED
    BY <2>1, <2>2, <2>3 DEF Inv
<1>11. CASE ShutdownReturns
  <2>1. TypeInv'
    BY <1>a, <1>11 DEF TypeInv, ShutdownReturns
  <2>2. Stages' /\ Closed'
    BY <1>a, <1>11 DEF TypeInv, Stages, Closed, ShutdownReturns
  <2>3. Waited'
    BY <1>a, <1>11 DEF TypeInv, Stages, Waited, ShutdownReturns
  <2> QED
    BY <2>1, <2>2, <2>3 DEF Inv
<1>12. CASE RunReturns
  <2>1. TypeInv'
    BY <1>a, <1>12 DEF TypeInv, RunReturns
  <2>2. Stages' /\ Closed'
    BY <1>a, <1>12 DEF TypeInv, Stages, Closed, RunReturns
  <2>3. Waited'
    BY <1>a, <1>12 DEF TypeInv, Stages, Waited, RunReturns
  <2> QED
    BY <2>1, <2>2, <2>3 DEF Inv
<1>13. CASE Serve
  <2>1. TypeInv'
    <3>1. /\ serve' \in {"serving", "ended"} /\ lis' \in {lis, "closed"}
          /\ failed' \in {failed, TRUE}
      BY <1>13 DEF Serve
    <3>2. failed' \in BOOLEAN
      BY <1>a, <3>1 DEF TypeInv
    <3>3. UNCHANGED <<config, faults, signals, main, tries, watcher, pending, cancelled,
                      shutting, run, result, handler, exit>>
      BY <1>13 DEF Serve, Stays
    <3> QED
      BY <1>a, <3>1, <3>2, <3>3 DEF TypeInv
  <2>2. Stages' /\ Closed'
    BY <1>a, <1>13 DEF TypeInv, Stages, Closed, Serve
  <2>3. Waited'
    BY <1>a, <1>13 DEF TypeInv, Stages, Waited, Serve
  <2> QED
    BY <2>1, <2>2, <2>3 DEF Inv
<1>14. CASE AcceptFails
  <2>1. TypeInv'
    BY <1>a, <1>14 DEF TypeInv, AcceptFails, Fault
  <2>2. Stages' /\ Closed'
    BY <1>a, <1>14 DEF TypeInv, Stages, Closed, AcceptFails, Fault
  <2>3. Waited'
    BY <1>a, <1>14 DEF TypeInv, Stages, Waited, AcceptFails, Fault
  <2> QED
    BY <2>1, <2>2, <2>3 DEF Inv
<1>15. CASE ServeReturns
  <2>1. TypeInv'
    BY <1>a, <1>15 DEF TypeInv, ServeReturns
  <2>2. Stages' /\ Closed'
    BY <1>a, <1>15 DEF TypeInv, Stages, Closed, ServeReturns
  <2>3. Waited'
    BY <1>a, <1>15 DEF TypeInv, Stages, Waited, ServeReturns
  <2> QED
    BY <2>1, <2>2, <2>3 DEF Inv
<1>16. ASSUME NEW r \in Requests, Accept(r) PROVE Inv'
  <2>1. TypeInv'
    BY <1>a, <1>16 DEF TypeInv, Accept
  <2>2. Stages' /\ Closed'
    BY <1>a, <1>16 DEF Stages, Closed, Accept
  <2>3. Waited'
    BY <1>a, <1>16 DEF TypeInv, Closed, Waited, Accept
  <2> QED
    BY <2>1, <2>2, <2>3 DEF Inv
<1>17. ASSUME NEW r \in Requests, Answer(r) PROVE Inv'
  <2>1. TypeInv'
    BY <1>a, <1>17 DEF TypeInv, Answer
  <2>2. Stages' /\ Closed'
    BY <1>a, <1>17 DEF Stages, Closed, Answer
  <2>3. Waited'
    BY <1>a, <1>17 DEF TypeInv, Closed, Waited, Answer
  <2> QED
    BY <2>1, <2>2, <2>3 DEF Inv
<1>18. ASSUME NEW r \in Requests, Hang(r) PROVE Inv'
  <2>1. TypeInv'
    BY <1>a, <1>18 DEF TypeInv, Hang, Fault
  <2>2. Stages' /\ Closed'
    BY <1>a, <1>18 DEF Stages, Closed, Hang, Fault
  <2>3. Waited'
    BY <1>a, <1>18 DEF TypeInv, Closed, Waited, Hang, Fault
  <2> QED
    BY <2>1, <2>2, <2>3 DEF Inv
<1>19. CASE Restart
  <2>1. Fresh' /\ World'
    BY <1>a, <1>19 DEF Restart, Fresh, World, TypeInv
  <2> QED
    BY <2>1, FreshInv, PTL
<1>20. CASE UNCHANGED vars
  BY <1>a, <1>20 DEF Inv, TypeInv, Stages, Closed, Waited
<1> QED
  BY <1>1, <1>2, <1>3, <1>4, <1>5, <1>6, <1>7, <1>8, <1>9, <1>10, <1>11, <1>12, <1>13,
     <1>14, <1>15, <1>16, <1>17, <1>18, <1>19, <1>20
  DEF Next, Main, Run

LEMMA Invariance == Spec => []Inv
<1> QED
  BY InitInv, StepInv, PTL DEF Spec

-----------------------------------------------------------------------------
(* The results. *)

\* Every value has its type, and the stages of main, of Run and of Serve go together.
THEOREM TypeCorrect == Spec => []TypeOK
<1>1. Inv => TypeOK
  <2> SUFFICES ASSUME Inv PROVE TypeOK
    OBVIOUS
  <2>1. {pending, cancelled} \subseteq BOOLEAN /\ {shutting, failed} \subseteq BOOLEAN
    BY Zenon DEF Inv, TypeInv
  <2> QED
    BY <2>1, Zenon DEF Inv, TypeInv, Stages, TypeOK
<1> QED
  BY <1>1, Invariance, PTL

\* For any number of requests, failures and signals: a gateway that ends well after a
\* signal has answered every request it had accepted and listens no more.
THEOREM SignalCostsNoResponse == Spec => GracefulExit
<1> DEFINE Graceful ==
      exit # exit' /\ exit' = "success" /\ cancelled =>
        /\ \A r \in Requests : handler[r] \notin {"active", "hung"}
        /\ lis = "closed" /\ serve = "ended"
<1>1. Inv /\ [Next]_vars => [Graceful]_vars
  <2> SUFFICES ASSUME Inv, Next, exit # exit', exit' = "success", cancelled
               PROVE  /\ \A r \in Requests : handler[r] \notin {"active", "hung"}
                      /\ lis = "closed" /\ serve = "ended"
    OBVIOUS
  <2>1. CASE MainReturns
    BY <2>1 DEF MainReturns, Exit, Inv, TypeInv, Stages, Closed, Waited
  <2>2. CASE DialFails
    BY <2>2 DEF DialFails, Exit, Stays, Inv, Stages
  <2>3. CASE LoadConfig \/ New \/ Signal
    BY <2>3 DEF LoadConfig, New, Signal, Exit, Stays
  <2>4. CASE Restart
    BY <2>4 DEF Restart
  <2>5. CASE Dial \/ Start \/ Cancel \/ Run \/ Serve \/ AcceptFails \/ ServeReturns
    BY <2>5 DEF Dial, Start, Cancel, Run, SelectError, SelectDone, ShutdownReturns, RunReturns,
       Serve, AcceptFails, ServeReturns, Stays
  <2>6. CASE \E r \in Requests : Accept(r) \/ Answer(r) \/ Hang(r)
    BY <2>6 DEF Accept, Answer, Hang
  <2> QED
    BY <2>1, <2>2, <2>3, <2>4, <2>5, <2>6 DEF Next, Main
<1> QED
  BY <1>1, Invariance, PTL DEF Spec, GracefulExit

-----------------------------------------------------------------------------
(* Where the process comes to rest. *)

\* The listener is open until Shutdown or the end of Serve, which Run learns of,
\* and Run waits only for a Serve that is ending.
Flow ==
  /\ main = "context" \/ serve = "start" \/ Serving => lis = "open"
  /\ shutting => run \in {"shutdown", "wait", "ended"}
  /\ serve = "ended" /\ run = "select" => failed
  /\ failed => serve = "ended"
  /\ run = "wait" => shutting \/ serve = "ended"

\* Every step keeps what Run, Serve and Shutdown rely on.
LEMMA FlowStep == Inv /\ Flow /\ [Next]_vars => Flow'
<1> SUFFICES ASSUME Inv, Flow, [Next]_vars  PROVE Flow'
  OBVIOUS
<1>1. TypeInv /\ Stages  BY DEF Inv
<1> USE <1>1 DEF Flow, Serving, Stays, vars, setup, context, server, runs, world
<1>2. CASE LoadConfig \/ Dial \/ New  BY <1>2 DEF LoadConfig, Dial, New, Exit, TypeInv, Stages
<1>3. CASE Start  BY <1>3 DEF Start, TypeInv, Stages
<1>4. CASE MainReturns \/ DialFails \/ Cancel \/ Signal
  <2>1. UNCHANGED <<main, lis, serve, shutting, failed, run>>
    BY <1>4 DEF MainReturns, DialFails, Cancel, Signal, Fault
  <2> QED  BY <2>1
<1>5. CASE Serve \/ AcceptFails \/ ServeReturns
  <2>1. main = "wait" /\ UNCHANGED <<main, shutting, run>>
    BY <1>5 DEF Serve, AcceptFails, ServeReturns, Fault, TypeInv, Stages
  <2>2. CASE Serve  BY <2>1, <2>2 DEF Serve
  <2>3. CASE AcceptFails \/ ServeReturns  BY <2>1, <2>3 DEF AcceptFails, ServeReturns
  <2> QED  BY <1>5, <2>2, <2>3
<1>6. CASE Run
  <2>1. main = "wait" /\ UNCHANGED <<main, serve>>
    BY <1>6 DEF Run, SelectError, SelectDone, ShutdownReturns, RunReturns, TypeInv, Stages
  <2>2. CASE SelectError
    <3>1. run = "select" /\ run' = "wait" /\ failed /\ ~failed' /\ UNCHANGED <<lis, shutting>>
      BY <2>2 DEF SelectError
    <3> QED  BY <2>1, <3>1
  <2>3. CASE SelectDone
    <3>1. run' = "shutdown" /\ shutting' = TRUE /\ (serve = "start" => lis' = lis)
          /\ failed' = failed /\ run = "select"
      BY <2>3 DEF SelectDone
    <3> QED  BY <2>1, <3>1
  <2>4. CASE ShutdownReturns \/ RunReturns
    BY <2>1, <2>4 DEF ShutdownReturns, RunReturns, TypeInv, Stages
  <2> QED  BY <1>6, <2>2, <2>3, <2>4 DEF Run
<1>7. CASE \E r \in Requests : Accept(r) \/ Answer(r) \/ Hang(r)
  BY <1>7 DEF Accept, Answer, Hang, Fault
<1>8. CASE Restart  BY <1>8 DEF Restart
<1>9. CASE UNCHANGED vars  BY <1>9
<1> QED
  BY <1>2, <1>3, <1>4, <1>5, <1>6, <1>7, <1>8, <1>9 DEF Next, Main

\* For any number of requests, failures and signals: the goroutines of the gateway
\* wait for one another in no order of their steps, unless a handler hangs.
THEOREM RestsInServiceOrHung == Spec => []RestsServingOrHung
<1>1. Init => Flow  BY DEF Init, Flow, Serving
<1>2. Inv /\ Flow => RestsServingOrHung
  <2> SUFFICES ASSUME Inv, Flow, Runs, ~MainReady, ~RunReady, ~ServeReady, ~HandlerReady
               PROVE  \/ run = "select" /\ Serving /\ lis = "open" /\ ~cancelled
                      \/ run = "shutdown" /\ \E r \in Requests : handler[r] = "hung"
    BY DEF RestsServingOrHung
  <2>1. main = "wait"  BY DEF Inv, TypeInv, MainReady
  <2>2. run \in {"select", "shutdown", "wait"} /\ serve \in {"start", "serving", "ended"}
    BY <2>1 DEF Inv, TypeInv, Stages, MainReady
  <2>3. CASE run = "select"
    BY <2>2, <2>3 DEF Flow, RunReady, ServeReady, Serving
  <2>4. CASE run = "shutdown"
    BY <2>4 DEF RunReady, HandlerReady
  <2>5. CASE run = "wait"
    BY <2>2, <2>5 DEF Flow, RunReady, ServeReady
  <2> QED  BY <2>2, <2>3, <2>4, <2>5
<1> QED  BY <1>1, <1>2, FlowStep, Invariance, PTL DEF Spec

-----------------------------------------------------------------------------
(* Every step counts. *)

\* How far main and the goroutines are from their ends.
MainSteps == [start |-> 4, dial |-> 3, listen |-> 2, context |-> 1, wait |-> 0]
WatcherSteps == [none |-> 2, waiting |-> 1, ended |-> 0]
ServeSteps == [none |-> 3, start |-> 2, serving |-> 1, ended |-> 0]
RunSteps == [none |-> 4, select |-> 3, shutdown |-> 2, wait |-> 1, ended |-> 0]

Places == MainSteps[main] + WatcherSteps[watcher] + ServeSteps[serve] + RunSteps[run]

\* What failures and signals can still do to the process, and that it runs.
Chances == (MaxFaults - faults) + (MaxSignals - signals)
Life == IF Runs THEN 1 ELSE 0

\* An upper bound on the steps that are left until the process has ended, those of
\* the requests apart.
Work == Places + Chances + Life

\* The counts, place by place.
LEMMA StepCounts ==
  /\ MainSteps["start"] = 4 /\ MainSteps["dial"] = 3 /\ MainSteps["listen"] = 2
  /\ MainSteps["context"] = 1 /\ MainSteps["wait"] = 0
  /\ WatcherSteps["none"] = 2 /\ WatcherSteps["waiting"] = 1 /\ WatcherSteps["ended"] = 0
  /\ ServeSteps["none"] = 3 /\ ServeSteps["start"] = 2 /\ ServeSteps["serving"] = 1
  /\ ServeSteps["ended"] = 0
  /\ RunSteps["none"] = 4 /\ RunSteps["select"] = 3 /\ RunSteps["shutdown"] = 2
  /\ RunSteps["wait"] = 1 /\ RunSteps["ended"] = 0
BY DEF MainSteps, WatcherSteps, ServeSteps, RunSteps

\* Of numbers that do not grow, one that shrinks lowers the sum.
LEMMA LowerPlaces ==
  ASSUME NEW a \in Nat, NEW b \in Nat, NEW c \in Nat, NEW d \in Nat,
         NEW a2 \in Nat, NEW b2 \in Nat, NEW c2 \in Nat, NEW d2 \in Nat,
         a2 = a \/ a2 < a, b2 = b \/ b2 < b, c2 = c \/ c2 < c, d2 = d \/ d2 < d,
         a2 < a \/ b2 < b \/ c2 < c \/ d2 < d
  PROVE  a2 + b2 + c2 + d2 < a + b + c + d
OBVIOUS

\* The same of the three parts of the bound.
LEMMA LowerSum ==
  ASSUME NEW p \in Nat, NEW c \in Nat, NEW l \in Nat,
         NEW p2 \in Nat, NEW c2 \in Nat, NEW l2 \in Nat,
         p2 = p \/ p2 < p, c2 = c \/ c2 < c, l2 = l \/ l2 < l,
         p2 < p \/ c2 < c \/ l2 < l
  PROVE  p2 + c2 + l2 < p + c + l
OBVIOUS

\* The bound is a number, a request does not raise it and every other step lowers it.
LEMMA WorkStep ==
  Inv /\ Next /\ ~Restart =>
    /\ Work \in Nat /\ Work' \in Nat
    /\ Work' < Work \/ (Work' = Work /\ \E r \in Requests : Accept(r) \/ Answer(r))
<1> SUFFICES ASSUME Inv, Next, ~Restart
             PROVE  /\ Work \in Nat /\ Work' \in Nat
                    /\ Work' < Work \/ (Work' = Work /\ \E r \in Requests : Accept(r) \/ Answer(r))
  OBVIOUS
<1>1. TypeInv /\ TypeInv'  BY StepInv DEF Inv
<1>2. /\ \A f \in 0 .. MaxFaults, n \in 0 .. MaxSignals :
           (MaxFaults - f) + (MaxSignals - n) \in Nat
      /\ \A f, g \in 0 .. MaxFaults, n, m \in 0 .. MaxSignals :
           f <= g /\ n <= m /\ (f < g \/ n < m)
             => (MaxFaults - g) + (MaxSignals - m) < (MaxFaults - f) + (MaxSignals - n)
  BY BoundsAssumption
<1>3. Places \in Nat /\ Life \in Nat /\ Chances \in Nat
  BY <1>1, <1>2, StepCounts DEF TypeInv, Places, Life, Chances
<1>4. Places' \in Nat /\ Life' \in Nat /\ Chances' \in Nat
  <2>1. MainSteps[main'] \in Nat /\ WatcherSteps[watcher'] \in Nat
        /\ ServeSteps[serve'] \in Nat /\ RunSteps[run'] \in Nat
    BY <1>1, StepCounts DEF TypeInv
  <2> QED  BY <1>1, <1>2, <2>1 DEF TypeInv, Places, Life, Chances
<1>5. /\ main' = main \/ MainSteps[main'] < MainSteps[main]
      /\ watcher' = watcher \/ WatcherSteps[watcher'] < WatcherSteps[watcher]
      /\ serve' = serve \/ ServeSteps[serve'] < ServeSteps[serve]
      /\ run' = run \/ RunSteps[run'] < RunSteps[run]
  <2> USE StepCounts
  <2>1. CASE Main
    BY <1>1, <2>1
    DEF Main, LoadConfig, Dial, New, Start, MainReturns, TypeInv, Inv, Stages, setup, context,
        server, runs
  <2>2. CASE DialFails \/ Cancel \/ Signal
    BY <2>2 DEF DialFails, Cancel, Signal, setup, context, server, runs
  <2>3. CASE Run
    BY <2>3 DEF Run, SelectError, SelectDone, ShutdownReturns, RunReturns, setup, context, server
  <2>4. CASE Serve \/ AcceptFails \/ ServeReturns
    BY <2>4 DEF Serve, AcceptFails, ServeReturns, setup, context, runs
  <2>5. CASE \E r \in Requests : Accept(r) \/ Answer(r) \/ Hang(r)
    BY <2>5 DEF Accept, Answer, Hang, setup, context, server, runs
  <2> QED  BY <2>1, <2>2, <2>3, <2>4, <2>5 DEF Next
<1>6. UNCHANGED <<main, watcher, serve, run>> => Places' = Places
  BY DEF Places
<1>7. ~ UNCHANGED <<main, watcher, serve, run>> => Places' < Places
  <2> DEFINE m == MainSteps[main]  w == WatcherSteps[watcher]
             v == ServeSteps[serve]  r == RunSteps[run]
  <2>1. m \in Nat /\ w \in Nat /\ v \in Nat /\ r \in Nat
        /\ m' \in Nat /\ w' \in Nat /\ v' \in Nat /\ r' \in Nat
    BY <1>1, StepCounts DEF TypeInv
  <2>2. (m' = m \/ m' < m) /\ (w' = w \/ w' < w) /\ (v' = v \/ v' < v) /\ (r' = r \/ r' < r)
    BY <1>5
  <2>3. ~ UNCHANGED <<main, watcher, serve, run>> => m' < m \/ w' < w \/ v' < v \/ r' < r
    BY <1>5
  <2>4. Places = m + w + v + r /\ Places' = m' + w' + v' + r'
    BY DEF Places
  <2> HIDE DEF m, w, v, r
  <2> QED  BY <2>1, <2>2, <2>3, <2>4, LowerPlaces
<1>8. \/ UNCHANGED <<faults, signals>>
      \/ faults' = faults + 1 /\ signals' = signals
      \/ faults' = faults /\ signals' = signals + 1
  BY DEF Next, Main, LoadConfig, Dial, New, Start, MainReturns, DialFails, Cancel, Signal, Run,
     SelectError, SelectDone, ShutdownReturns, RunReturns, Serve, AcceptFails, ServeReturns,
     Accept, Answer, Hang, Fault, world
<1>9. UNCHANGED <<faults, signals>> => Chances' = Chances
  BY DEF Chances
<1>10. ~ UNCHANGED <<faults, signals>> => Chances' < Chances
  <2>1. /\ faults \in 0 .. MaxFaults /\ signals \in 0 .. MaxSignals
        /\ faults' \in 0 .. MaxFaults /\ signals' \in 0 .. MaxSignals
    BY <1>1 DEF TypeInv
  <2>2. CASE faults' = faults + 1 /\ signals' = signals
    BY <2>1, <2>2, BoundsAssumption DEF Chances
  <2>3. CASE faults' = faults /\ signals' = signals + 1
    BY <2>1, <2>3, BoundsAssumption DEF Chances
  <2> QED  BY <1>8, <2>2, <2>3
<1>11. Life' = Life \/ Life' < Life
  <2>1. Runs
    BY DEF Next, Main, LoadConfig, Dial, New, Start, MainReturns, DialFails, Cancel, Signal, Run,
       SelectError, SelectDone, ShutdownReturns, RunReturns, Serve, AcceptFails, ServeReturns,
       Accept, Answer, Hang
  <2> QED  BY <2>1 DEF Life
<1>12. exit' # exit => Life' < Life
  <2>1. exit' # exit => Runs /\ ~Runs'
    BY DEF Next, Main, LoadConfig, Dial, New, Start, MainReturns, DialFails, Cancel, Signal, Run,
       SelectError, SelectDone, ShutdownReturns, RunReturns, Serve, AcceptFails, ServeReturns,
       Accept, Answer, Hang, Runs, Stays
  <2> QED  BY <2>1 DEF Life
<1>13. \/ \E r \in Requests : Accept(r) \/ Answer(r)
       \/ ~ UNCHANGED <<main, watcher, serve, run>>
       \/ ~ UNCHANGED <<faults, signals>>
       \/ exit' # exit
  <2>1. CASE Main
    BY <2>1 DEF Main, LoadConfig, Dial, New, Start, MainReturns, Exit, Runs, Stays, Fault
  <2>2. CASE DialFails \/ Signal \/ AcceptFails \/ \E r \in Requests : Hang(r)
    <3>1. faults' = faults + 1 \/ signals' = signals + 1
      BY <2>2 DEF DialFails, Signal, AcceptFails, Hang, Fault
    <3>2. faults \in Int /\ signals \in Int
      BY <1>1 DEF TypeInv
    <3> QED  BY <3>1, <3>2
  <2>3. CASE Cancel \/ Run
    BY <2>3 DEF Cancel, Run, SelectError, SelectDone, ShutdownReturns, RunReturns
  <2>4. CASE Serve \/ ServeReturns
    BY <2>4 DEF Serve, ServeReturns
  <2> QED  BY <2>1, <2>2, <2>3, <2>4 DEF Next
<1>14. Work \in Nat /\ Work' \in Nat
  <2>1. \A p, c, l \in Nat : p + c + l \in Nat
    OBVIOUS
  <2>2. Work = Places + Chances + Life /\ Work' = Places' + Chances' + Life'
    BY DEF Work
  <2> HIDE DEF Places, Chances, Life, Work
  <2> QED  BY <1>3, <1>4, <2>1, <2>2
<1>15. CASE /\ UNCHANGED <<main, watcher, serve, run>> /\ UNCHANGED <<faults, signals>>
            /\ exit' = exit
  <2>1. Work' = Work
    BY <1>6, <1>9, <1>15 DEF Work, Life, Runs
  <2> QED  BY <1>14, <1>13, <1>15, <2>1
<1>16. CASE ~ (/\ UNCHANGED <<main, watcher, serve, run>> /\ UNCHANGED <<faults, signals>>
               /\ exit' = exit)
  <2>1. Places' < Places \/ Chances' < Chances \/ Life' < Life
    BY <1>7, <1>10, <1>12, <1>16
  <2>2. Places' = Places \/ Places' < Places
    BY <1>6, <1>7
  <2>3. Chances' = Chances \/ Chances' < Chances
    BY <1>9, <1>10
  <2>4. Work = Places + Chances + Life /\ Work' = Places' + Chances' + Life'
    BY DEF Work
  <2> HIDE DEF Places, Chances, Life
  <2>5. Work' < Work
    BY <1>3, <1>4, <1>11, <2>1, <2>2, <2>3, <2>4, LowerSum
  <2> QED  BY <1>14, <2>5
<1> QED
  BY <1>15, <1>16

\* For any number of requests: until it is restarted every step of the process, the
\* coming and going of requests apart, brings its end nearer, so that main, Run, Serve,
\* the goroutine of signaledCtx, failures and signals cannot keep it busy for ever.
THEOREM EveryStepCounts ==
  Spec => [][Restart \/ (/\ Work \in Nat /\ Work' \in Nat
                         /\ \/ Work' < Work
                            \/ Work' = Work /\ \E r \in Requests : Accept(r) \/ Answer(r))]_vars
<1>1. Inv /\ [Next]_vars =>
        [Restart \/ (/\ Work \in Nat /\ Work' \in Nat
                     /\ \/ Work' < Work
                        \/ Work' = Work /\ \E r \in Requests : Accept(r) \/ Answer(r))]_vars
  BY WorkStep
<1> QED
  BY <1>1, Invariance, PTL DEF Spec
=============================================================================
