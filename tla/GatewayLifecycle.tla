-------------------------- MODULE GatewayLifecycle --------------------------
(***************************************************************************)
(* The process "restgateway": main, the goroutine behind signaledCtx, the  *)
(* one of runSrvr in Server.Run, the one in http.Server.Serve, and the     *)
(* handlers of the requests it has accepted.  A signal cancels the context,*)
(* Run then shuts the HTTP server down and waits for the handlers.         *)
(***************************************************************************)
EXTENDS Config, Integers

CONSTANTS
  Requests,   \* the requests of an execution
  MaxFaults,  \* bound: failures of Dial, Listen and Accept
  MaxSignals  \* bound: signals

ASSUME BoundsAssumption == MaxFaults \in Nat /\ MaxSignals \in Nat

VARIABLES
  config,     \* the file
  main,       \* "start", "dial", "listen", "context", "wait"
  tries,      \* of grpc.Dial
  lis,        \* the listener: "none", "open", "closed"
  watcher,    \* the goroutine of signaledCtx: "none", "waiting", "ended"
  pending,    \* its channel holds a signal
  cancelled,  \* the context is
  serve,      \* Serve: "none", "start", "serving", "ended"
  shutting,   \* http.Server.Shutdown has begun
  failed,     \* Serve's error is in the channel of Run
  run,        \* Run: "none", "select", "shutdown", "wait", "ended"
  result,     \* what Run returns: "none", "nil", "error"
  handler,    \* request -> "none", "active", "hung", "answered", "cut"
  exit,       \* how the process has ended, "none" while it runs
  faults, signals

setup   == <<main, tries, lis>>
context == <<watcher, pending, cancelled>>
server  == <<serve, shutting, failed>>
runs    == <<run, result>>
world   == <<config, faults, signals>>
vars == <<setup, context, server, runs, handler, exit, world>>

Init ==
  /\ main = "start" /\ tries = 0 /\ lis = "none"
  /\ watcher = "none" /\ pending = FALSE /\ cancelled = FALSE
  /\ serve = "none" /\ shutting = FALSE /\ failed = FALSE
  /\ run = "none" /\ result = "none"
  /\ handler = [r \in Requests |-> "none"]
  /\ exit = "none"
  /\ config \in Configs /\ faults = 0 /\ signals = 0

Runs == exit = "none"

\* The handlers of the process end with it.
Exit(code) ==
  /\ exit' = code
  /\ handler' = [r \in Requests |-> IF handler[r] \in {"active", "hung"} THEN "cut"
                                    ELSE handler[r]]

Stays == UNCHANGED <<exit, handler>>

Fault == faults < MaxFaults /\ faults' = faults + 1 /\ UNCHANGED <<config, signals>>

-----------------------------------------------------------------------------
(* main. *)

LoadConfig ==
  /\ Runs /\ main = "start"
  /\ IF Loads(config) /\ HasService(config, "ports") /\ HasService(config, "restgateway")
     THEN main' = "dial" /\ Stays
     ELSE Exit("fatal") /\ UNCHANGED main
  /\ UNCHANGED <<tries, lis, context, server, runs, world>>

Dial ==
  /\ Runs /\ main = "dial"
  /\ main' = "listen"
  /\ UNCHANGED <<tries, lis, context, server, runs, handler, exit, world>>

\* A mutant: the third failure is tried again.
DialForever ==
  /\ Runs /\ main = "dial"
  /\ Fault
  /\ tries' = tries + 1
  /\ UNCHANGED <<main, lis, context, server, runs>> /\ Stays

\* The third failure returns err, which holds no error.
DialFails ==
  /\ Runs /\ main = "dial"
  /\ Fault
  /\ tries' = tries + 1
  /\ IF tries = 2 THEN Exit("success") ELSE Stays
  /\ UNCHANGED <<main, lis, context, server, runs>>

New ==
  /\ Runs /\ main = "listen"
  /\ \/ lis' = "open" /\ main' = "context" /\ Stays /\ UNCHANGED world
     \/ Fault /\ Exit("fatal") /\ UNCHANGED <<main, lis>>
  /\ UNCHANGED <<tries, context, server, runs>>

\* signaledCtx, and runSrvr's and Run's goroutines.
Start ==
  /\ Runs /\ main = "context"
  /\ watcher' = "waiting"
  /\ main' = "wait" /\ run' = "select" /\ serve' = "start"
  /\ UNCHANGED <<tries, lis, pending, cancelled, shutting, failed, result, world>>
  /\ Stays

MainReturns ==
  /\ Runs /\ main = "wait" /\ run = "ended"
  /\ Exit(IF result = "nil" THEN "success" ELSE "fatal")
  /\ UNCHANGED <<setup, context, server, runs, world>>

-----------------------------------------------------------------------------
(* The goroutine of signaledCtx ends after the first signal; the channel takes *)
(* one more, and nobody reads it.                                              *)

Cancel ==
  /\ Runs /\ watcher = "waiting" /\ pending
  /\ watcher' = "ended" /\ pending' = FALSE /\ cancelled' = TRUE
  /\ UNCHANGED <<setup, server, runs, world>> /\ Stays

Signal ==
  /\ Runs
  /\ signals < MaxSignals /\ signals' = signals + 1
  /\ IF watcher = "none" THEN Exit("killed") /\ UNCHANGED pending
     ELSE pending' = TRUE /\ Stays
  /\ UNCHANGED <<setup, watcher, cancelled, server, runs, config, faults>>

-----------------------------------------------------------------------------
(* http.Server. *)

Serve ==
  /\ Runs /\ serve = "start"
  /\ \/ ~shutting /\ serve' = "serving" /\ UNCHANGED <<lis, failed>>
     \/ shutting /\ serve' = "ended" /\ lis' = "closed" /\ failed' = TRUE
  /\ UNCHANGED <<main, tries, context, shutting, runs, world>> /\ Stays

AcceptFails ==
  /\ Runs /\ serve = "serving" /\ ~shutting
  /\ Fault
  /\ serve' = "ended" /\ lis' = "closed" /\ failed' = TRUE
  /\ UNCHANGED <<main, tries, context, shutting, runs>> /\ Stays

\* A mutant: the channel of Run is not buffered.
ServeReturnsUnbuffered ==
  /\ Runs /\ serve = "serving" /\ shutting /\ run = "select"
  /\ serve' = "ended" /\ failed' = TRUE
  /\ UNCHANGED <<setup, context, shutting, runs, world>> /\ Stays

\* The error goes into the channel, which has room for it, whoever reads it.
ServeReturns ==
  /\ Runs /\ serve = "serving" /\ shutting
  /\ serve' = "ended" /\ failed' = TRUE
  /\ UNCHANGED <<setup, context, shutting, runs, world>> /\ Stays

Accept(r) ==
  /\ Runs /\ serve = "serving" /\ lis = "open" /\ handler[r] = "none"
  /\ handler' = [handler EXCEPT ![r] = "active"]
  /\ UNCHANGED <<setup, context, server, runs, exit, world>>

Answer(r) ==
  /\ Runs /\ handler[r] = "active"
  /\ handler' = [handler EXCEPT ![r] = "answered"]
  /\ UNCHANGED <<setup, context, server, runs, exit, world>>

\* An upload whose first Read fails waits for ever (module Upload, ReaderLearnsEnd).
Hang(r) ==
  /\ Runs /\ handler[r] = "active"
  /\ Fault
  /\ handler' = [handler EXCEPT ![r] = "hung"]
  /\ UNCHANGED <<setup, context, server, runs, exit>>

-----------------------------------------------------------------------------
(* Server.Run. *)

\* A mutant: the failure of Serve is printed.
SelectErrorPrinted ==
  /\ Runs /\ run = "select" /\ failed
  /\ failed' = FALSE
  /\ UNCHANGED <<setup, context, serve, shutting, runs, world>> /\ Stays

SelectError ==
  /\ Runs /\ run = "select" /\ failed
  /\ failed' = FALSE
  /\ run' = "wait" /\ result' = "error"
  /\ UNCHANGED <<setup, context, serve, shutting, world>> /\ Stays

SelectDone ==
  /\ Runs /\ run = "select" /\ cancelled
  /\ run' = "shutdown" /\ shutting' = TRUE
  /\ lis' = IF serve = "serving" THEN "closed" ELSE lis
  /\ UNCHANGED <<main, tries, context, serve, failed, result, world>> /\ Stays

\* A mutant: Close in place of Shutdown, which does not wait for the handlers.
ShutdownAtOnce ==
  /\ Runs /\ run = "shutdown"
  /\ run' = "wait" /\ result' = "nil"
  /\ UNCHANGED <<setup, context, server, world>> /\ Stays

\* Shutdown returns when no connection has a request any more; it has no deadline.
ShutdownReturns ==
  /\ Runs /\ run = "shutdown"
  /\ \A r \in Requests : handler[r] \notin {"active", "hung"}
  /\ run' = "wait" /\ result' = "nil"
  /\ UNCHANGED <<setup, context, server, world>> /\ Stays

\* wg.Wait: the goroutine in Serve has ended.
RunReturns ==
  /\ Runs /\ run = "wait" /\ serve = "ended"
  /\ run' = "ended"
  /\ UNCHANGED <<setup, context, server, result, world>> /\ Stays

-----------------------------------------------------------------------------
\* The container is restarted (restart: always).
Restart ==
  /\ ~Runs
  /\ main' = "start" /\ tries' = 0 /\ lis' = "none"
  /\ watcher' = "none" /\ pending' = FALSE /\ cancelled' = FALSE
  /\ serve' = "none" /\ shutting' = FALSE /\ failed' = FALSE
  /\ run' = "none" /\ result' = "none"
  /\ exit' = "none"
  /\ UNCHANGED <<handler, world>>

Main == LoadConfig \/ Dial \/ New \/ Start \/ MainReturns
Run == SelectError \/ SelectDone \/ ShutdownReturns \/ RunReturns

Next ==
  \/ Main \/ DialFails \/ Cancel \/ Signal \/ Run \/ Restart
  \/ Serve \/ AcceptFails \/ ServeReturns
  \/ \E r \in Requests : Accept(r) \/ Answer(r) \/ Hang(r)

Spec == Init /\ [][Next]_vars

\* Every goroutine is scheduled, every handler that does not hang answers, and
\* the container is restarted.
Fairness ==
  /\ WF_vars(Main) /\ WF_vars(Cancel) /\ WF_vars(Run)
  /\ WF_vars(Serve) /\ WF_vars(ServeReturns) /\ WF_vars(Restart)
  /\ \A r \in Requests : WF_vars(Answer(r))
FairSpec == Spec /\ Fairness
-----------------------------------------------------------------------------
(* Properties. *)

\* The stages of main, of Run and of Serve go together.
TypeOK ==
  /\ config \in Configs /\ faults \in 0 .. MaxFaults /\ signals \in 0 .. MaxSignals
  /\ main \in {"start", "dial", "listen", "context", "wait"} /\ tries \in 0 .. 3
  /\ tries = 3 => ~Runs
  /\ lis \in {"none", "open", "closed"}
  /\ watcher \in {"none", "waiting", "ended"} /\ {pending, cancelled} \subseteq BOOLEAN
  /\ serve \in {"none", "start", "serving", "ended"} /\ {shutting, failed} \subseteq BOOLEAN
  /\ run \in {"none", "select", "shutdown", "wait", "ended"}
  /\ result \in {"none", "nil", "error"}
  /\ handler \in [Requests -> {"none", "active", "hung", "answered", "cut"}]
  /\ exit \in {"none", "success", "fatal", "killed"}
  /\ (main = "wait") = (run # "none") /\ (main = "wait") = (serve # "none")

\* A signal costs no client its response: when the process ends well, everything
\* that was accepted has been answered, and nothing listens any more.
GracefulExit ==
  [][exit # exit' /\ exit' = "success" /\ cancelled =>
       /\ \A r \in Requests : handler[r] \notin {"active", "hung"}
       /\ lis = "closed" /\ serve = "ended"]_vars

\* The gateway stops when it is told to unless a handler hangs: the goroutines in
\* Run, Serve and Shutdown do not wait for one another in a circle, whichever of
\* a signal and a failure of Serve comes first.
StopsUnlessHung == cancelled ~> (~Runs \/ \E r \in Requests : handler[r] = "hung")

Serving == serve = "serving" /\ ~shutting

\* With a configuration that is right the gateway serves for good once failures and
\* signals are over, or is held in Shutdown by a handler that hangs.
ServesInTheEnd ==
  Loads(config) /\ HasService(config, "ports") /\ HasService(config, "restgateway") =>
    <>[](Runs /\ (Serving \/ \E r \in Requests : handler[r] = "hung"))

\* Who can take its next step.
MainReady ==
  main \in {"start", "dial", "listen", "context"} \/ (main = "wait" /\ run = "ended")
RunReady ==
  \/ run = "select" /\ (failed \/ cancelled)
  \/ run = "shutdown" /\ \A r \in Requests : handler[r] \notin {"active", "hung"}
  \/ run = "wait" /\ serve = "ended"
ServeReady == serve = "start" \/ (serve = "serving" /\ shutting)
WatcherReady == watcher = "waiting" /\ pending
HandlerReady == \E r \in Requests : handler[r] = "active"

\* The gateway comes to rest only in service, with Serve accepting and Run in its
\* select, or in a Shutdown that a handler holds up: main, Run, Serve and the
\* goroutine of signaledCtx never wait for one another, whichever of a signal and
\* the end of Serve Run learns of first.
RestsServingOrHung ==
  Runs =>
    \/ MainReady \/ RunReady \/ ServeReady \/ WatcherReady \/ HandlerReady
    \/ run = "select" /\ Serving /\ lis = "open" /\ ~cancelled
    \/ run = "shutdown" /\ \E r \in Requests : handler[r] = "hung"

(* Claims the repository makes that the code does not keep. *)

\* "Run blocks and lasts either as long as the context or until an error is
\* encountered": the context ends, and Run does.
RunEndsWithContext == cancelled ~> (run = "ended" \/ ~Runs)

\* "giving grpc client time to catch up": a gateway that never had a connection
\* does not end as one that has done its work.
DialErrorReported == exit = "success" => main # "dial"
=============================================================================
