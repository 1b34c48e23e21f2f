------------------------------- MODULE Server -------------------------------
(***************************************************************************)
(* The life of a process: serve() of cmd/identra/main.go with the startup  *)
(* of internal/app, the gRPC server it runs, and its shutdown; or the      *)
(* offline command runBootstrap; on the database of module Database.       *)
(*                                                                         *)
(* serve() has three goroutines after its startup: main, the one that      *)
(* calls grpcServer.Serve, and from the signal on the one that calls       *)
(* GracefulStop.  Handlers run beside them.  A handler is a management     *)
(* call: it runs its transaction, records an audit event and answers.      *)
(* grpc.Server is external: what serve() relies on is that GracefulStop    *)
(* closes the listener and waits for the handlers, that Stop closes the    *)
(* connections and waits for none, and that Serve returns when either has  *)
(* finished, or when accepting a connection fails.                         *)
(***************************************************************************)
EXTENDS Database

CONSTANTS Calls,             \* requests of clients
          NoProc,            \* a call that no process has accepted
          BootstrapEnabled   \* processes with bootstrap.service_account.enabled

ASSUME ServerAssumption == NoProc \notin Procs /\ BootstrapEnabled \subseteq Procs

VARIABLES
  command,    \* command[p]: the command p was started with
  stage,      \* stage[p]: where main is in serve() or runBootstrap()
  signalled,  \* signalled[p]: the context of SignalContext is done
  health,     \* health[p]: what the health service answers
  grpc,       \* grpc[p]: the goroutine that calls Serve
  stopper,    \* stopper[p]: the goroutine that calls GracefulStop
  quit,       \* quit[p]: Stop or GracefulStop has closed the listener
  done,       \* done[p]: Stop or GracefulStop has finished
  forced,     \* forced[p]: the ten seconds passed and Stop was called
  at,         \* at[c]: the process that accepted c
  call        \* call[c]: where c's handler is, or how it ended

lifeVars == <<command, stage, signalled, health>>
grpcVars == <<grpc, stopper, quit, done, forced>>
callVars == <<at, call>>
vars == <<dbVars, lifeVars, grpcVars, callVars>>

Commands == {"serve", "bootstrap"}
Startup == {"init", "config", "open", "bootstrap", "keys", "assemble", "listen"}
Serving == {"select", "draining", "await", "close", "return"}
Running == Startup \cup Serving
Stages == Running \cup {"off", "exited"}
Handling == {"begin", "record", "answer"}

Init ==
  /\ DbInit
  /\ command = [p \in Procs |-> "serve"]
  /\ stage = [p \in Procs |-> "off"]
  /\ signalled = [p \in Procs |-> FALSE]
  /\ health = [p \in Procs |-> "NOT_SERVING"]
  /\ grpc = [p \in Procs |-> "none"]
  /\ stopper = [p \in Procs |-> "none"]
  /\ quit = [p \in Procs |-> FALSE]
  /\ done = [p \in Procs |-> FALSE]
  /\ forced = [p \in Procs |-> FALSE]
  /\ at = [c \in Calls |-> NoProc]
  /\ call = [c \in Calls |-> "new"]

Goto(p, s) == stage' = [stage EXCEPT ![p] = s]
Handlers(p) == {c \in Calls : at[c] = p /\ call[c] \in Handling}

\* The process ends: its goroutines are gone, and with them the handlers.
EndProcess(p, s) ==
  /\ Goto(p, s)
  /\ signalled' = [signalled EXCEPT ![p] = FALSE]
  /\ health' = [health EXCEPT ![p] = "NOT_SERVING"]
  /\ grpc' = [grpc EXCEPT ![p] = "none"]
  /\ stopper' = [stopper EXCEPT ![p] = "none"]
  /\ quit' = [quit EXCEPT ![p] = FALSE]
  /\ done' = [done EXCEPT ![p] = FALSE]
  /\ forced' = [forced EXCEPT ![p] = FALSE]
  /\ call' = [c \in Calls |-> IF c \in Handlers(p) THEN "lost" ELSE call[c]]
  /\ UNCHANGED <<command, at>>

-----------------------------------------------------------------------------
(* Startup.                                                                *)

\* A supervisor or an operator starts the process, for the first time or again.
Run(p, cmd) ==
  /\ stage[p] \in {"off", "exited"}
  /\ Goto(p, "init")
  /\ command' = [command EXCEPT ![p] = cmd]
  /\ UNCHANGED <<signalled, health, grpcVars, callVars, dbVars>>

\* InitE reads the configuration file; serve() installs the signal handler.
InitE(p) ==
  /\ stage[p] = "init"
  /\ Goto(p, "config")
  /\ UNCHANGED <<command, signalled, health, grpcVars, callVars, dbVars>>

\* LoadGRPC or LoadPersistence, and Validate accepts the configuration.
Validate(p) ==
  /\ stage[p] = "config"
  /\ Goto(p, "open")
  /\ UNCHANGED <<command, signalled, health, grpcVars, callVars, dbVars>>

\* buildStores, or runBootstrap itself: sqlite.Open, step by step.
BuildStores(p) ==
  /\ stage[p] = "open"
  /\ OpenStep(p)
  /\ IF conn'[p] = "ready" THEN Goto(p, "bootstrap") ELSE UNCHANGED stage
  /\ UNCHANGED <<command, signalled, health, grpcVars, callVars>>

\* bootstrapServiceAccount (module ServiceAccounts); its queries use the
\* signal's context, so that it fails after a signal.
BootstrapServiceAccount(p) ==
  /\ stage[p] = "bootstrap"
  /\ command[p] = "serve"
  /\ p \in BootstrapEnabled => ~signalled[p]
  /\ Goto(p, "keys")
  /\ UNCHANGED <<command, signalled, health, grpcVars, callVars, dbVars>>

\* The bootstrap of the command line; its result is printed before the deferred
\* Close.
RunBootstrap(p) ==
  /\ stage[p] = "bootstrap"
  /\ command[p] = "bootstrap"
  /\ Goto(p, "close")
  /\ UNCHANGED <<command, signalled, health, grpcVars, callVars, dbVars>>

\* buildTokenKeys (module SigningKeys).
BuildTokenKeys(p) ==
  /\ stage[p] = "keys"
  /\ Goto(p, "assemble")
  /\ UNCHANGED <<command, signalled, health, grpcVars, callVars, dbVars>>

\* buildRedisDependencies, identra.NewService and the registrations connect
\* to nothing and cannot fail with a valid configuration; the health service
\* says SERVING before the port is open.
Assemble(p) ==
  /\ stage[p] = "assemble"
  /\ Goto(p, "listen")
  /\ health' = [health EXCEPT ![p] = "SERVING"]
  /\ UNCHANGED <<command, signalled, grpcVars, callVars, dbVars>>

\* net.Listen, and the goroutine that will call Serve.
Listen(p) ==
  /\ stage[p] = "listen"
  /\ Goto(p, "select")
  /\ grpc' = [grpc EXCEPT ![p] = "spawned"]
  /\ UNCHANGED <<command, signalled, health, stopper, quit, done, forced, callVars, dbVars>>

\* The build refuses the file, or the bootstrap finds its context cancelled.
StartupRefused(p) ==
  /\ \/ stage[p] = "open" /\ RefuseVersion(p)
     \/ /\ stage[p] = "bootstrap" /\ command[p] = "serve"
        /\ p \in BootstrapEnabled /\ signalled[p]
        /\ CloseDB(p)
  /\ EndProcess(p, "exited")

\* An error of InitE, Validate, sqlite.Open, the bootstrap, buildTokenKeys or
\* net.Listen: what was opened before it is closed.
StartupFails(p) ==
  /\ \/ stage[p] \in {"init", "config"} /\ UNCHANGED dbVars
     \/ stage[p] = "open" /\ FailOpen(p)
     \/ stage[p] \in {"bootstrap", "keys", "listen"} /\ CloseDB(p)
  /\ EndProcess(p, "exited")

-----------------------------------------------------------------------------
(* The gRPC server and the handlers (external: grpc.Server).               *)

\* The Serve goroutine gets to run; after GracefulStop, Serve returns at once.
ServeBegins(p) ==
  /\ grpc[p] = "spawned"
  /\ grpc' = [grpc EXCEPT ![p] = IF quit[p] THEN "returned" ELSE "accepting"]
  /\ UNCHANGED <<lifeVars, stopper, quit, done, forced, callVars, dbVars>>

\* The listener fails for good.
AcceptFails(p) ==
  /\ grpc[p] = "accepting"
  /\ grpc' = [grpc EXCEPT ![p] = "returned"]
  /\ UNCHANGED <<lifeVars, stopper, quit, done, forced, callVars, dbVars>>

\* A call arrives and its handler starts.
AcceptCall(c, p) ==
  /\ call[c] = "new"
  /\ grpc[p] = "accepting"
  /\ at' = [at EXCEPT ![c] = p]
  /\ call' = [call EXCEPT ![c] = "begin"]
  /\ UNCHANGED <<lifeVars, grpcVars, dbVars>>

\* The database answers a handler while it is open and the call's context is
\* not cancelled, which Stop does by closing the connection.
DatabaseAnswers(c) == conn[at[c]] = "ready" /\ ~forced[at[c]]

\* The handler's transaction.
Operate(c) ==
  /\ call[c] = "begin"
  /\ call' = [call EXCEPT ![c] = IF DatabaseAnswers(c) THEN "record"
                                 ELSE IF forced[at[c]] THEN "lost" ELSE "error"]
  /\ UNCHANGED <<at, lifeVars, grpcVars, dbVars>>

\* recordManagementAudit: a failure is only logged.
RecordAudit(c) ==
  /\ call[c] = "record"
  /\ call' = [call EXCEPT ![c] = "answer"]
  /\ UNCHANGED <<at, lifeVars, grpcVars, dbVars>>

\* The handler returns; the answer gets out unless the connection is closed.
Answer(c) ==
  /\ call[c] = "answer"
  /\ call' = [call EXCEPT ![c] = IF forced[at[c]] THEN "lost" ELSE "ok"]
  /\ UNCHANGED <<at, lifeVars, grpcVars, dbVars>>

\* GracefulStop closes the listener, which makes Serve leave its loop ...
GracefulStopBegins(p) ==
  /\ stopper[p] = "spawned"
  /\ stopper' = [stopper EXCEPT ![p] = "waiting"]
  /\ quit' = [quit EXCEPT ![p] = TRUE]
  /\ grpc' = [grpc EXCEPT ![p] = IF @ = "accepting" THEN "unwinding" ELSE @]
  /\ UNCHANGED <<lifeVars, done, forced, callVars, dbVars>>

\* ... and waits for the handlers.
GracefulStopEnds(p) ==
  /\ stopper[p] = "waiting"
  /\ Handlers(p) = {}
  /\ stopper' = [stopper EXCEPT ![p] = "finished"]
  /\ done' = [done EXCEPT ![p] = TRUE]
  /\ UNCHANGED <<lifeVars, grpc, quit, forced, callVars, dbVars>>

\* Serve returns nil once Stop or GracefulStop has finished.
ServeReturns(p) ==
  /\ grpc[p] = "unwinding"
  /\ done[p]
  /\ grpc' = [grpc EXCEPT ![p] = "returned"]
  /\ UNCHANGED <<lifeVars, stopper, quit, done, forced, callVars, dbVars>>

-----------------------------------------------------------------------------
(* Signals and shutdown.                                                   *)

\* SIGINT or SIGTERM.  Before SignalContext, and in runBootstrap, it kills.
Signal(p) ==
  /\ command[p] = "serve"
  /\ stage[p] \in Running \ {"init"}
  /\ ~signalled[p]
  /\ signalled' = [signalled EXCEPT ![p] = TRUE]
  /\ UNCHANGED <<command, stage, health, grpcVars, callVars, dbVars>>

\* The process is killed, at any moment.
Kill(p) ==
  /\ stage[p] \in Running
  /\ EndProcess(p, "off")
  /\ CloseDB(p)

\* main's select: Serve has returned by itself ...
SelectServeErr(p) ==
  /\ stage[p] = "select"
  /\ grpc[p] = "returned"
  /\ Goto(p, "close")
  /\ UNCHANGED <<command, signalled, health, grpcVars, callVars, dbVars>>

\* ... or the signal has come: health first, then GracefulStop beside main.
SelectDone(p) ==
  /\ stage[p] = "select"
  /\ signalled[p]
  /\ Goto(p, "draining")
  /\ health' = [health EXCEPT ![p] = "NOT_SERVING"]
  /\ stopper' = [stopper EXCEPT ![p] = "spawned"]
  /\ UNCHANGED <<command, signalled, grpc, quit, done, forced, callVars, dbVars>>

\* Mutant: main does not wait for GracefulStop and Serve.
AwaitStopped_NotWaiting(p) ==
  /\ stage[p] = "draining"
  /\ stopper[p] # "none"
  /\ Goto(p, "close")
  /\ UNCHANGED <<command, signalled, health, grpcVars, callVars, dbVars>>

\* GracefulStop has finished.
AwaitStopped(p) ==
  /\ stage[p] = "draining"
  /\ stopper[p] = "finished"
  /\ Goto(p, "await")
  /\ UNCHANGED <<command, signalled, health, grpcVars, callVars, dbVars>>

\* Mutant: the timer does not force the handlers out.
StopTimer_WaitsForHandlers(p) ==
  /\ stage[p] = "draining"
  /\ Handlers(p) = {}
  /\ Goto(p, "await")
  /\ UNCHANGED <<command, signalled, health, grpcVars, callVars, dbVars>>

\* Ten seconds have passed: Stop closes every connection.
StopTimer(p) ==
  /\ stage[p] = "draining"
  /\ Goto(p, "await")
  /\ quit' = [quit EXCEPT ![p] = TRUE]
  /\ done' = [done EXCEPT ![p] = TRUE]
  /\ forced' = [forced EXCEPT ![p] = TRUE]
  /\ grpc' = [grpc EXCEPT ![p] = IF @ = "accepting" THEN "unwinding" ELSE @]
  /\ UNCHANGED <<command, signalled, health, stopper, callVars, dbVars>>

\* <-serveErr
AwaitServe(p) ==
  /\ stage[p] = "await"
  /\ grpc[p] = "returned"
  /\ Goto(p, "close")
  /\ UNCHANGED <<command, signalled, health, grpcVars, callVars, dbVars>>

\* The deferred Service.Close closes the database ...
Close(p) ==
  /\ stage[p] = "close"
  /\ Goto(p, "return")
  /\ CloseDB(p)
  /\ UNCHANGED <<command, signalled, health, grpcVars, callVars>>

\* ... and main returns.
Exit(p) ==
  /\ stage[p] = "return"
  /\ EndProcess(p, "exited")
  /\ UNCHANGED dbVars

-----------------------------------------------------------------------------
\* main and the goroutines serve() starts, without the handlers.
ProcessStep(p) ==
  \/ InitE(p) \/ Validate(p) \/ BuildStores(p) \/ BootstrapServiceAccount(p)
  \/ RunBootstrap(p) \/ BuildTokenKeys(p) \/ Assemble(p) \/ Listen(p) \/ StartupRefused(p)
  \/ SelectServeErr(p) \/ SelectDone(p) \/ AwaitStopped(p) \/ StopTimer(p)
  \/ AwaitServe(p) \/ Close(p) \/ Exit(p)

GrpcStep(p) ==
  ServeBegins(p) \/ GracefulStopBegins(p) \/ GracefulStopEnds(p) \/ ServeReturns(p)

HandlerStep(c) == Operate(c) \/ RecordAudit(c) \/ Answer(c)

Next ==
  \/ \E p \in Procs :
       \/ \E cmd \in Commands : Run(p, cmd)
       \/ ProcessStep(p) \/ StartupFails(p) \/ Signal(p) \/ Kill(p)
       \/ GrpcStep(p) \/ AcceptFails(p)
  \/ \E c \in Calls : HandlerStep(c) \/ \E p \in Procs : AcceptCall(c, p)

\* The Go scheduler runs main and the goroutines of gRPC, and time passes, so
\* each of their steps that stays possible is taken.  Nothing is assumed of
\* handlers, which wait for the network, of clients, signals or failures.
Fairness == \A p \in Procs : WF_vars(ProcessStep(p)) /\ WF_vars(GrpcStep(p))

Spec == Init /\ [][Next]_vars /\ Fairness

-----------------------------------------------------------------------------
(* Properties.                                                             *)

\* Every variable has its type.
TypeOK ==
  /\ DbTypeOK
  /\ command \in [Procs -> Commands]
  /\ stage \in [Procs -> Stages]
  /\ signalled \in [Procs -> BOOLEAN]
  /\ health \in [Procs -> {"SERVING", "NOT_SERVING"}]
  /\ grpc \in [Procs -> {"none", "spawned", "accepting", "unwinding", "returned"}]
  /\ stopper \in [Procs -> {"none", "spawned", "waiting", "finished"}]
  /\ quit \in [Procs -> BOOLEAN]
  /\ done \in [Procs -> BOOLEAN]
  /\ forced \in [Procs -> BOOLEAN]
  /\ at \in [Calls -> Procs \cup {NoProc}]
  /\ call \in [Calls -> Handling \cup {"new", "ok", "error", "lost"}]

\* An orderly shutdown drains: as long as Stop was not called and the listener
\* did not fail, the database stays open under every handler.
DrainedBeforeClose ==
  \A c \in Calls : call[c] \in Handling /\ conn[at[c]] # "ready"
                     => forced[at[c]] \/ ~quit[at[c]]

\* Every return of serve() and of runBootstrap() has closed the database, whichever step failed.
ClosedOnExit == \A p \in Procs : stage[p] \in {"off", "exited"} => conn[p] = "none"

\* The health service reports NOT_SERVING before a client can find the port
\* closed by a shutdown.
HealthBeforeStop == \A p \in Procs : quit[p] => health[p] = "NOT_SERVING"

\* A server accepts calls only with all its build's tables in the file and an
\* open database, whatever other processes do to the file.
ServesCompleteSchema ==
  \A p \in Procs : grpc[p] = "accepting" =>
    conn[p] = "ready" /\ 1..CurrentSchemaVersion[p] \subseteq tables

\* An orderly shutdown answers every call it accepted: a handler is cut off,
\* or fails for want of a database, only after the ten seconds, after the
\* listener failed, or when the process is killed.
AnsweredOnShutdown ==
  [][\A c \in Calls : call[c] \in Handling /\ call'[c] \in {"lost", "error"}
       => forced[at[c]] \/ ~quit[at[c]] \/ stage'[at[c]] = "off"]_vars

\* A signal ends the process, also when handlers never return.
SignalLeadsToExit ==
  \A p \in Procs : signalled[p] ~> stage[p] \in {"off", "exited"}

\* A process that was started serves, has done its work or gives up; no step of
\* the startup, and no other process migrating the file, keeps it in between.
StartupEnds ==
  \A p \in Procs : stage[p] \in Startup ~> stage[p] \in {"select", "off", "exited"}

-----------------------------------------------------------------------------
(* The inductive invariant behind the safety properties.                   *)

\* A process has the database open exactly between the end of Open and Close.
ConnMatchesStage ==
  \A p \in Procs :
    /\ stage[p] \in {"off", "exited", "init", "config", "return"} => conn[p] = "none"
    /\ stage[p] = "open" => conn[p] # "ready"
    /\ stage[p] \in (Running \ {"init", "config", "open", "return"}) => conn[p] = "ready"

\* An open database has all the tables of its process's build.
ReadyIsComplete ==
  \A p \in Procs : conn[p] = "ready" => 1..CurrentSchemaVersion[p] \subseteq tables

\* How main, Serve and GracefulStop wait for each other.
ShutdownOrder ==
  \A p \in Procs :
    /\ stage[p] \notin Serving => grpc[p] = "none"
    /\ stage[p] \notin Serving \/ stage[p] = "select" => stopper[p] = "none"
    /\ stage[p] = "draining" => stopper[p] # "none"
    /\ stage[p] = "await" => done[p]
    /\ stage[p] \in {"close", "return"} =>
         /\ grpc[p] \in {"none", "returned"}
         /\ stopper[p] # "none" => done[p]
    /\ stopper[p] # "none" => health[p] = "NOT_SERVING"
    /\ stopper[p] = "none" => ~quit[p]
    /\ stopper[p] = "waiting" => quit[p]
    /\ stopper[p] = "finished" => done[p]
    /\ forced[p] => done[p]
    /\ done[p] => quit[p]
    /\ quit[p] => grpc[p] # "accepting"

\* A handler runs in a process that serves, and past the end of a shutdown
\* only if Stop did not wait for it.
HandlersAreServed ==
  \A c \in Calls : call[c] \in Handling =>
    /\ at[c] \in Procs
    /\ stage[at[c]] \in Serving
    /\ done[at[c]] => forced[at[c]]

\* The parts together: preserved by every step of every process and handler.
ServerInv ==
  /\ TypeOK /\ SchemaCoversVersion /\ MigratedSoFar /\ ConnMatchesStage
  /\ ReadyIsComplete /\ ShutdownOrder /\ HandlersAreServed
=============================================================================
