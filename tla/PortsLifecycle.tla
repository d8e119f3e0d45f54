--------------------------- MODULE PortsLifecycle ---------------------------
(***************************************************************************)
(* The process "ports" from its start to its end, over restarts: main, and *)
(* the two goroutines of the run group, one that waits for a signal and    *)
(* one that serves gRPC.  run.Group starts both, waits for the first to    *)
(* end, calls both interrupt functions and waits for the other one.        *)
(***************************************************************************)
EXTENDS Config, Integers

CONSTANTS
  MaxFaults,  \* bound: failures and outages of an execution
  MaxSignals  \* bound: signals of an execution

ASSUME FaultsAssumption == MaxFaults \in Nat /\ MaxSignals \in Nat

VARIABLES
  config,     \* the file
  at,         \* where main and the goroutines are
  tries,      \* of LoadStores
  db,         \* the handle: "none", "open", "closed"
  registered, \* the services the gRPC server knows
  lis,        \* the listener: "none", "nil", "open", "closed"
  stopped,    \* GRPCServer.Stop has been called: the server takes no listener
  drained,    \* Stop has seen Serve give up its listener
  notified,   \* signals go to the channel sigterm
  pending,    \* sigterm holds a signal
  closed,     \* sigterm is closed
  errs,       \* the results of goroutines that the group has not received
  result,     \* the first of them
  exit,       \* how the process has ended, "none" while it runs
  dbUp,       \* PostgreSQL answers
  faults,     \* failures and outages so far
  signals     \* signals so far

grpc   == <<lis, stopped, drained>>
signal == <<notified, pending, closed>>
group  == <<errs, result>>
setup  == <<tries, db, registered>>
world  == <<config, dbUp, faults, signals>>
vars == <<at, setup, grpc, signal, group, exit, world>>

NotStarted == [main |-> "start", signal |-> "none", serve |-> "none"]

Init ==
  /\ at = NotStarted
  /\ tries = 0 /\ db = "none" /\ registered = {}
  /\ lis = "none" /\ stopped = FALSE /\ drained = FALSE
  /\ notified = FALSE /\ pending = FALSE /\ closed = FALSE
  /\ errs = <<>> /\ result = "none"
  /\ exit = "none"
  /\ config \in Configs /\ dbUp \in BOOLEAN /\ faults = 0 /\ signals = 0

Runs == exit = "none"

Go(g, place) == at' = [at EXCEPT ![g] = place]

Exit(code) == exit' = code /\ UNCHANGED at

Fault == faults < MaxFaults /\ faults' = faults + 1

-----------------------------------------------------------------------------
(* main, up to the run group. *)

LoadConfig ==
  /\ Runs /\ at["main"] = "start"
  /\ IF Loads(config) THEN Go("main", "stores") /\ UNCHANGED exit ELSE Exit("initError")
  /\ UNCHANGED <<setup, grpc, signal, group, world>>

\* A mutant: the loop does not count.
LoadStoresForever ==
  /\ Runs /\ at["main"] = "stores"
  /\ tries' = tries + 1
  /\ IF Opens(config, dbUp) THEN Go("main", "services") /\ db' = "open"
     ELSE UNCHANGED <<at, db>>
  /\ UNCHANGED <<registered, grpc, signal, group, exit, world>>

\* A mutant: the error of the third try is not returned.
LoadStoresGivesUp ==
  /\ Runs /\ at["main"] = "stores"
  /\ tries' = tries + 1
  /\ IF Opens(config, dbUp) THEN Go("main", "services") /\ db' = "open"
     ELSE IF tries = 2 THEN Go("main", "services") /\ UNCHANGED db
     ELSE UNCHANGED <<at, db>>
  /\ UNCHANGED <<registered, grpc, signal, group, exit, world>>

\* One of the three tries to open the database.
LoadStores ==
  /\ Runs /\ at["main"] = "stores"
  /\ tries' = tries + 1
  /\ \/ Opens(config, dbUp) /\ Go("main", "services") /\ db' = "open" /\ UNCHANGED exit
     \/ ~Opens(config, dbUp) /\ tries < 2 /\ UNCHANGED <<at, db, exit>>
     \/ ~Opens(config, dbUp) /\ tries = 2 /\ Exit("initError") /\ UNCHANGED db
  /\ UNCHANGED <<registered, grpc, signal, group, world>>

LoadServices ==
  /\ Runs /\ at["main"] = "services"
  /\ IF HasService(config, "ports") /\ Registrable(config.portsServices)
     THEN /\ registered' = {config.portsServices[i] : i \in DOMAIN config.portsServices}
          /\ Go("main", "listen") /\ UNCHANGED exit
     ELSE Exit("initError") /\ UNCHANGED registered
  /\ UNCHANGED <<tries, db, grpc, signal, group, world>>

\* Run: a failure to listen is printed, and Serve gets the nil listener.
Listen ==
  /\ Runs /\ at["main"] = "listen"
  /\ \/ lis' = "open" /\ UNCHANGED faults
     \/ lis' = "nil" /\ Fault
  /\ at' = [main |-> "run", signal |-> "start", serve |-> "start"]
  /\ UNCHANGED <<setup, stopped, drained, signal, group, exit, config, dbUp, signals>>

-----------------------------------------------------------------------------
(* Shutdown, which main and the signal goroutine both run. *)

\* A mutant: the connections are closed before the server is stopped.
StopLate(g) ==
  /\ Runs /\ at[g] = "stop"
  /\ db' = "closed"
  /\ Go(g, "drain")
  /\ UNCHANGED <<tries, registered, grpc, signal, group, exit, world>>

\* Stop takes the listeners away from the server and closes them,
Stop(g) ==
  /\ Runs /\ at[g] = "stop"
  /\ stopped' = TRUE
  /\ lis' = IF at["serve"] = "serving" THEN "closed" ELSE lis
  /\ Go(g, "drain")
  /\ UNCHANGED <<setup, drained, signal, group, exit, world>>

\* and waits until Serve has noticed.
Drain(g) ==
  /\ Runs /\ at[g] = "drain" /\ at["serve"] # "serving"
  /\ drained' = TRUE
  /\ Go(g, "close")
  /\ UNCHANGED <<setup, lis, stopped, signal, group, exit, world>>

CloseDB(g) ==
  /\ Runs /\ at[g] = "close"
  /\ db' = "closed"
  /\ IF g = "signal" THEN Go(g, "ended") /\ errs' = Append(errs, "nil")
     ELSE Go(g, "closeChannel") /\ UNCHANGED errs
  /\ UNCHANGED <<tries, registered, grpc, signal, result, exit, world>>

Shutdown(g) == Stop(g) \/ Drain(g) \/ CloseDB(g)

-----------------------------------------------------------------------------
(* The goroutine that waits for a signal. *)

Notify ==
  /\ Runs /\ at["signal"] = "start"
  /\ notified' = TRUE
  /\ Go("signal", "waiting")
  /\ UNCHANGED <<setup, grpc, pending, closed, group, exit, world>>

\* A mutant: only a signal wakes the goroutine.
WakeUpOnSignal ==
  /\ Runs /\ at["signal"] = "waiting"
  /\ pending
  /\ pending' = FALSE
  /\ Go("signal", "stop")
  /\ UNCHANGED <<setup, grpc, notified, closed, group, exit, world>>

WakeUp ==
  /\ Runs /\ at["signal"] = "waiting"
  /\ pending \/ closed
  /\ pending' = FALSE
  /\ Go("signal", "stop")
  /\ UNCHANGED <<setup, grpc, notified, closed, group, exit, world>>

-----------------------------------------------------------------------------
(* The goroutine that serves. *)

EndServe(r) == Go("serve", "ended") /\ errs' = Append(errs, r) /\ UNCHANGED result

\* Serve of a server that runs, of one that is stopped, with a nil listener.
Serve ==
  /\ Runs /\ at["serve"] = "start"
  /\ \/ /\ lis = "open" /\ ~stopped
        /\ Go("serve", "serving")
        /\ UNCHANGED <<lis, group, exit>>
     \/ lis = "open" /\ stopped /\ lis' = "closed" /\ EndServe("error") /\ UNCHANGED exit
     \/ lis = "nil" /\ Exit("panic") /\ UNCHANGED <<lis, group>>
  /\ UNCHANGED <<setup, stopped, drained, signal, world>>

AcceptFails ==
  /\ Runs /\ at["serve"] = "serving" /\ ~stopped
  /\ Fault
  /\ lis' = "closed"
  /\ EndServe("error")
  /\ UNCHANGED <<setup, stopped, drained, signal, exit, config, dbUp, signals>>

\* A handler panics (module PortsService, FetchPanics), and takes all with it, also
\* when an error has ended Serve and nobody has closed the connections yet.
HandlerPanics ==
  /\ Runs /\ registered # {}
  /\ at["serve"] \in {"serving", "stopping"} \/ (at["serve"] = "ended" /\ ~stopped)
  /\ Fault
  /\ Exit("panic")
  /\ UNCHANGED <<setup, grpc, signal, group, config, dbUp, signals>>

ServeStops ==
  /\ Runs /\ at["serve"] = "serving" /\ stopped
  /\ Go("serve", "stopping")
  /\ UNCHANGED <<setup, grpc, signal, group, exit, world>>

ServeReturns ==
  /\ Runs /\ at["serve"] = "stopping" /\ drained
  /\ EndServe("nil")
  /\ UNCHANGED <<setup, grpc, signal, exit, world>>

-----------------------------------------------------------------------------
(* main in the run group. *)

\* The first goroutine to end decides the result; the interrupt function takes
\* the signals off the channel, shuts down, and closes the channel.
FirstEnds ==
  /\ Runs /\ at["main"] = "run" /\ errs # <<>>
  /\ result' = Head(errs) /\ errs' = Tail(errs)
  /\ notified' = FALSE
  /\ Go("main", "stop")
  /\ UNCHANGED <<setup, grpc, pending, closed, exit, world>>

\* A mutant: the channel stays open.
CloseChannelForgotten ==
  /\ Runs /\ at["main"] = "closeChannel"
  /\ Go("main", "wait")
  /\ UNCHANGED <<setup, grpc, signal, group, exit, world>>

CloseChannel ==
  /\ Runs /\ at["main"] = "closeChannel"
  /\ closed' = TRUE
  /\ Go("main", "wait")
  /\ UNCHANGED <<setup, grpc, notified, pending, group, exit, world>>

\* A mutant: the group returns with the first result.
LastEndsUnawaited ==
  /\ Runs /\ at["main"] = "wait"
  /\ Exit(IF result = "nil" THEN "success" ELSE "runtimeError")
  /\ UNCHANGED <<setup, grpc, signal, group, world>>

LastEnds ==
  /\ Runs /\ at["main"] = "wait" /\ errs # <<>>
  /\ errs' = Tail(errs)
  /\ Exit(IF result = "nil" THEN "success" ELSE "runtimeError")
  /\ UNCHANGED <<setup, grpc, signal, result, world>>

-----------------------------------------------------------------------------
(* The world around. *)

\* A signal goes to the channel, if it has room; where nobody has asked for it, it
\* ends the process; a send on the closed channel panics.
Signal ==
  /\ Runs
  /\ signals < MaxSignals /\ signals' = signals + 1
  /\ IF notified /\ ~closed THEN pending' = TRUE /\ UNCHANGED <<at, exit>>
     ELSE Exit(IF notified THEN "panic" ELSE "killed") /\ UNCHANGED pending
  /\ UNCHANGED <<setup, grpc, notified, closed, group, config, dbUp, faults>>

DatabaseDown == dbUp /\ dbUp' = FALSE /\ Fault
                /\ UNCHANGED <<at, setup, grpc, signal, group, exit, config, signals>>

DatabaseUp == ~dbUp /\ dbUp' = TRUE
              /\ UNCHANGED <<at, setup, grpc, signal, group, exit, config, faults, signals>>

\* The container is restarted (restart: always).
Restart ==
  /\ ~Runs
  /\ at' = NotStarted
  /\ tries' = 0 /\ db' = "none" /\ registered' = {}
  /\ lis' = "none" /\ stopped' = FALSE /\ drained' = FALSE
  /\ notified' = FALSE /\ pending' = FALSE /\ closed' = FALSE
  /\ errs' = <<>> /\ result' = "none"
  /\ exit' = "none"
  /\ UNCHANGED world

-----------------------------------------------------------------------------
Main == LoadConfig \/ LoadStores \/ LoadServices \/ Listen \/ Shutdown("main")
        \/ FirstEnds \/ CloseChannel \/ LastEnds
Signaled == Notify \/ WakeUp \/ Shutdown("signal")
Serving == Serve \/ ServeStops \/ ServeReturns

Next == Main \/ Signaled \/ Serving \/ AcceptFails \/ HandlerPanics \/ Signal
        \/ DatabaseDown \/ DatabaseUp \/ Restart

Spec == Init /\ [][Next]_vars

\* Main and the goroutines are scheduled, and both containers are restarted.
Fairness ==
  /\ WF_vars(Main) /\ WF_vars(Signaled) /\ WF_vars(Serving)
  /\ WF_vars(Restart) /\ WF_vars(DatabaseUp)
FairSpec == Spec /\ Fairness
-----------------------------------------------------------------------------
(* Properties. *)

\* A result is in the channel or received for each goroutine that has ended.
TypeOK ==
  /\ config \in Configs /\ dbUp \in BOOLEAN /\ faults \in 0 .. MaxFaults
  /\ signals \in 0 .. MaxSignals
  /\ at \in [main : {"start", "stores", "services", "listen", "run", "stop", "drain",
                     "close", "closeChannel", "wait"},
             signal : {"none", "start", "waiting", "stop", "drain", "close", "ended"},
             serve : {"none", "start", "serving", "stopping", "ended"}]
  /\ tries \in 0 .. 3 /\ db \in {"none", "open", "closed"} /\ registered \subseteq Known
  /\ lis \in {"none", "nil", "open", "closed"}
  /\ {stopped, drained, notified, pending, closed} \subseteq BOOLEAN
  /\ errs \in Seq({"nil", "error"}) /\ Len(errs) <= 2
  /\ result \in {"none", "nil", "error"}
  /\ exit \in {"none", "initError", "runtimeError", "success", "panic", "killed"}

\* The gRPC server accepts calls only with the database handle open and every
\* service of the configuration registered: neither a start that had to wait for
\* the database nor a Shutdown, in whichever goroutine, takes that away from it.
ServesReady ==
  Runs /\ at["serve"] = "serving" /\ ~stopped =>
    /\ db = "open"
    /\ registered = {config.portsServices[i] : i \in DOMAIN config.portsServices}
    /\ registered \subseteq Known

\* "all good" is said when everything has been let go: the server stopped, its
\* listener and the database handle closed, both goroutines ended.
SuccessIsClean ==
  exit = "success" =>
    /\ stopped /\ lis = "closed" /\ db = "closed"
    /\ at["signal"] = "ended" /\ at["serve"] = "ended"

\* Once the server is stopped the process ends: Shutdown in two goroutines, Serve
\* and the group do not wait for one another in a circle.
StopCompletes == stopped ~> ~Runs

\* With a configuration that is right, the service is up for good once failures,
\* signals and outages are over, however many tries of LoadStores they have cost.
Right(f) ==
  Loads(f) /\ HasDSN(f) /\ HasService(f, "ports") /\ Registrable(f.portsServices)

ComesUp == Right(config) => <>[](Runs /\ at["serve"] = "serving" /\ ~stopped)

\* Who can take its next step.
MainReady ==
  \/ at["main"] \in {"start", "stores", "services", "listen", "stop", "close", "closeChannel"}
  \/ at["main"] = "drain" /\ at["serve"] # "serving"
  \/ at["main"] \in {"run", "wait"} /\ errs # <<>>
SignaledReady ==
  \/ at["signal"] \in {"start", "stop", "close"}
  \/ at["signal"] = "waiting" /\ (pending \/ closed)
  \/ at["signal"] = "drain" /\ at["serve"] # "serving"
ServingReady ==
  \/ at["serve"] = "start" /\ lis \in {"open", "nil"}
  \/ at["serve"] = "serving" /\ stopped
  \/ at["serve"] = "stopping" /\ drained

\* main and the two goroutines come to rest only together, and only in service:
\* the group with no result, no signal come, and Serve with a server nobody has
\* stopped.  In Shutdown, run twice and in any order, each always finds another
\* that can go on.
RestsOnlyInService ==
  Runs =>
    \/ MainReady \/ SignaledReady \/ ServingReady
    \/ /\ at["main"] = "run" /\ at["signal"] = "waiting" /\ at["serve"] = "serving"
       /\ ~stopped /\ errs = <<>>

(* Claims the repository makes that the code does not keep. *)

\* "failed to spin up service listeners. err: %v": a listener that cannot be had is
\* an error that run returns, not the end of the process by a panic.
ListenErrorReturned == lis = "nil" => exit # "panic"

\* "Setup signal handler for termination": a process to which nothing has happened
\* but signals does not end with an error.
SignalEndsInSuccess == signals > 0 /\ faults = 0 => exit # "runtimeError"

\* The same comment: a signal that has been asked for reaches the goroutine that asked
\* for it, and does not end the process by a panic.
SignalNeverPanics == [][Signal => exit' # "panic"]_vars
=============================================================================
