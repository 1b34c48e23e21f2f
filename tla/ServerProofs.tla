---------------------------- MODULE ServerProofs ----------------------------
(***************************************************************************)
(* For any number of processes of any builds on one database file, and any *)
(* number of calls: the version of the file claims no more than its tables,*)
(* servers have the tables they need, and a shutdown closes the database   *)
(* under a handler only when the ten seconds are over.                     *)
(***************************************************************************)
EXTENDS Server, TLAPS

USE BuildAssumption, ServerAssumption

\* The database's part of the invariant.
DbInv == DbTypeOK /\ SchemaCoversVersion /\ MigratedSoFar /\ ReadyIsComplete

-----------------------------------------------------------------------------
(* The database.                                                           *)

\* A file that is new, or as a build left it, satisfies the invariant.
LEMMA DbInitInv == DbInit => DbInv
<1>1. SUFFICES ASSUME DbInit PROVE DbInv
  OBVIOUS
<1>2. userVersion \in Nat
  BY <1>1 DEF DbInit
<1>. QED
  BY <1>1, <1>2
  DEF DbInit, DbInv, DbTypeOK, ConnStates, SchemaCoversVersion, MigratedSoFar, ReadyIsComplete

\* Closing the database, in whatever state the process is.
LEMMA CloseDBInv ==
  ASSUME DbInv, NEW p \in Procs, CloseDB(p)
  PROVE  DbInv'
BY DEF CloseDB, SetConn, DbInv, DbTypeOK, ConnStates, SchemaCoversVersion, MigratedSoFar,
       ReadyIsComplete

\* A migration adds its tables to those before it, whichever process has run
\* the same one already or has got further.
LEMMA ApplyMigrationInv ==
  ASSUME DbInv, NEW p \in Procs, ApplyMigration(p)
  PROVE  DbInv'
<1>1. /\ next[p] \in Nat /\ next[p] > 0
      /\ 1..(next[p] - 1) \subseteq tables
      /\ tables' = tables \cup {next[p]}
      /\ userVersion' = next[p]
  BY DEF ApplyMigration, DbInv, DbTypeOK, MigratedSoFar
<1>2. 1..next[p] \subseteq tables'
  <2>1. ASSUME NEW n \in 1..next[p], n # next[p] PROVE n \in 1..(next[p] - 1)
    BY <1>1, <2>1
  <2>. QED
    BY <1>1, <2>1
<1>3. DbTypeOK'
  <2>1. next[p] + 1 \in Nat
    BY <1>1
  <2>2. next' \in [Procs -> Nat] /\ conn' \in [Procs -> ConnStates]
    BY <2>1 DEF ApplyMigration, DbInv, DbTypeOK
  <2>. QED
    BY <1>1, <2>2 DEF DbInv, DbTypeOK
<1>4. SchemaCoversVersion'
  BY <1>1, <1>2 DEF SchemaCoversVersion
<1>5. MigratedSoFar'
  <2>1. SUFFICES ASSUME NEW q \in Procs, conn'[q] = "migrating"
                 PROVE  next'[q] > 0 /\ 1..(next'[q] - 1) \subseteq tables'
    BY DEF MigratedSoFar
  <2>2. CASE q = p
    <3>1. next'[p] = next[p] + 1
      BY DEF ApplyMigration, DbInv, DbTypeOK
    <3>. QED
      BY <1>1, <1>2, <2>2, <3>1
  <2>3. CASE q # p
    <3>1. next'[q] = next[q] /\ conn[q] = "migrating"
      BY <2>1, <2>3 DEF ApplyMigration, DbInv, DbTypeOK
    <3>. QED
      BY <1>1, <3>1 DEF DbInv, MigratedSoFar
  <2>. QED
    BY <2>2, <2>3
<1>6. ReadyIsComplete'
  BY <1>1 DEF ApplyMigration, DbInv, ReadyIsComplete
<1>. QED
  BY <1>3, <1>4, <1>5, <1>6 DEF DbInv

\* Every step of Open.
LEMMA OpenStepInv ==
  ASSUME DbInv, NEW p \in Procs, OpenStep(p)
  PROVE  DbInv'
<1>1. CASE OpenFile(p)
  BY <1>1 DEF OpenFile, SetConn, DbInv, DbTypeOK, ConnStates, SchemaCoversVersion,
              MigratedSoFar, ReadyIsComplete
<1>2. CASE ReadVersion(p)
  <2>1. /\ userVersion \in Nat
        /\ next' = [next EXCEPT ![p] = userVersion + 1]
        /\ conn' = [conn EXCEPT ![p] = "migrating"]
        /\ tables' = tables /\ userVersion' = userVersion
    BY <1>2 DEF ReadVersion, SetConn, DbInv, DbTypeOK
  <2>2. DbTypeOK'
    BY <2>1 DEF DbInv, DbTypeOK, ConnStates
  <2>3. SchemaCoversVersion' /\ ReadyIsComplete'
    BY <2>1 DEF DbInv, DbTypeOK, SchemaCoversVersion, ReadyIsComplete
  <2>4. MigratedSoFar'
    <3>1. SUFFICES ASSUME NEW q \in Procs, conn'[q] = "migrating"
                   PROVE  next'[q] > 0 /\ 1..(next'[q] - 1) \subseteq tables'
      BY DEF MigratedSoFar
    <3>2. CASE q = p
      <4>1. next'[q] = userVersion + 1 /\ (userVersion + 1) - 1 = userVersion
        BY <2>1, <3>2 DEF DbInv, DbTypeOK
      <4>. QED
        BY <2>1, <4>1 DEF DbInv, SchemaCoversVersion
    <3>3. CASE q # p
      <4>1. next'[q] = next[q] /\ conn[q] = "migrating"
        BY <2>1, <3>1, <3>3 DEF DbInv, DbTypeOK
      <4>. QED
        BY <2>1, <4>1 DEF DbInv, MigratedSoFar
    <3>. QED
      BY <3>2, <3>3
  <2>. QED
    BY <2>2, <2>3, <2>4 DEF DbInv
<1>3. CASE ApplyMigration(p)
  BY <1>3, ApplyMigrationInv
<1>4. CASE FinishMigrations(p)
  <2>1. 1..CurrentSchemaVersion[p] \subseteq tables
    <3>1. /\ next[p] \in Nat /\ CurrentSchemaVersion[p] \in Nat
          /\ next[p] > CurrentSchemaVersion[p]
          /\ 1..(next[p] - 1) \subseteq tables
      BY <1>4 DEF FinishMigrations, DbInv, DbTypeOK, MigratedSoFar
    <3>. QED
      BY <3>1
  <2>. QED
    BY <1>4, <2>1
    DEF FinishMigrations, SetConn, DbInv, DbTypeOK, ConnStates, SchemaCoversVersion,
        MigratedSoFar, ReadyIsComplete
<1>. QED
  BY <1>1, <1>2, <1>3, <1>4 DEF OpenStep

\* Steps that leave the file alone.
LEMMA DbUnchanged == DbInv /\ UNCHANGED dbVars => DbInv'
BY DEF DbInv, dbVars, DbTypeOK, SchemaCoversVersion, MigratedSoFar, ReadyIsComplete

-----------------------------------------------------------------------------
(* The processes.                                                          *)

\* The end of a process, with the database closed or closed by it.
LEMMA EndProcessInv ==
  ASSUME ServerInv, NEW p \in Procs, NEW s \in {"off", "exited"}, EndProcess(p, s),
         DbInv', conn' = [conn EXCEPT ![p] = "none"]
  PROVE  ServerInv'
<1>1. TypeOK'
  BY DEF ServerInv, EndProcess, Goto, TypeOK, DbInv, Stages
<1>2. ConnMatchesStage'
  BY DEF ServerInv, EndProcess, Goto, TypeOK, DbTypeOK, ConnMatchesStage, Running, Startup, Serving
<1>3. ShutdownOrder'
  BY DEF ServerInv, EndProcess, Goto, TypeOK, ShutdownOrder, Serving
<1>4. HandlersAreServed'
  BY DEF ServerInv, EndProcess, Goto, TypeOK, HandlersAreServed, Handlers, Handling
<1>. QED
  BY <1>1, <1>2, <1>3, <1>4 DEF ServerInv, DbInv

\* The startup and main's part of the shutdown.
LEMMA ProcessStepInv ==
  ASSUME ServerInv, NEW p \in Procs, ProcessStep(p)
  PROVE  ServerInv'
<1>. DbInv
  BY DEF ServerInv, DbInv, TypeOK
<1>. USE DEF ServerInv
<1>1. CASE InitE(p) \/ Validate(p) \/ BootstrapServiceAccount(p) \/ RunBootstrap(p)
           \/ BuildTokenKeys(p) \/ Assemble(p)
  <2>. USE DEF InitE, Validate, BootstrapServiceAccount, RunBootstrap, BuildTokenKeys, Assemble,
               Goto, grpcVars, callVars, dbVars, Stages, Running, Startup, Serving
  <2>1. DbInv'
    BY <1>1, DbUnchanged
  <2>2. TypeOK'
    BY <1>1, <2>1 DEF TypeOK, DbInv
  <2>3. ConnMatchesStage'
    BY <1>1 DEF TypeOK, ConnMatchesStage
  <2>4. ShutdownOrder'
    BY <1>1 DEF TypeOK, ShutdownOrder
  <2>5. HandlersAreServed'
    BY <1>1 DEF TypeOK, HandlersAreServed
  <2>. QED
    BY <2>1, <2>2, <2>3, <2>4, <2>5 DEF DbInv
<1>2. CASE BuildStores(p)
  <2>. USE DEF BuildStores, Goto, grpcVars, callVars, Stages, Running, Startup, Serving
  <2>1. DbInv'
    BY <1>2, OpenStepInv
  <2>2. TypeOK'
    BY <1>2, <2>1 DEF TypeOK, DbInv
  <2>3. \A q \in Procs : q # p => conn'[q] = conn[q]
    BY <1>2 DEF OpenStep, OpenFile, ReadVersion, ApplyMigration, FinishMigrations, SetConn,
                TypeOK, DbTypeOK
  <2>4. ConnMatchesStage'
    BY <1>2, <2>1, <2>3 DEF TypeOK, ConnMatchesStage
  <2>5. ShutdownOrder'
    BY <1>2 DEF TypeOK, ShutdownOrder
  <2>6. HandlersAreServed'
    BY <1>2 DEF TypeOK, HandlersAreServed
  <2>. QED
    BY <2>1, <2>2, <2>4, <2>5, <2>6 DEF DbInv
<1>3. CASE StartupRefused(p)
  <2>1. CloseDB(p) /\ EndProcess(p, "exited")
    BY <1>3 DEF StartupRefused, RefuseVersion
  <2>2. DbInv' /\ conn' = [conn EXCEPT ![p] = "none"]
    BY <2>1, CloseDBInv DEF CloseDB, SetConn
  <2>. QED
    BY <2>1, <2>2, EndProcessInv
<1>4. CASE Listen(p) \/ SelectServeErr(p) \/ SelectDone(p) \/ AwaitStopped(p)
           \/ StopTimer(p) \/ AwaitServe(p)
  <2>. USE DEF Listen, SelectServeErr, SelectDone, AwaitStopped, StopTimer, AwaitServe,
               Goto, grpcVars, callVars, dbVars, Stages, Running, Startup, Serving
  <2>1. DbInv'
    BY <1>4, DbUnchanged
  <2>2. TypeOK'
    <3>1. CASE StopTimer(p)
      <4>1. quit' \in [Procs -> BOOLEAN] /\ done' \in [Procs -> BOOLEAN]
            /\ forced' \in [Procs -> BOOLEAN]
        BY <3>1, Zenon DEF TypeOK
      <4>. QED
        BY <3>1, <2>1, <4>1 DEF TypeOK, DbInv
    <3>2. CASE ~StopTimer(p)
      BY <1>4, <2>1, <3>2 DEF TypeOK, DbInv
    <3>. QED
      BY <3>1, <3>2
  <2>3. ConnMatchesStage'
    BY <1>4 DEF TypeOK, ConnMatchesStage
  <2>4. ShutdownOrder'
    BY <1>4 DEF TypeOK, ShutdownOrder
  <2>5. HandlersAreServed'
    BY <1>4 DEF TypeOK, HandlersAreServed
  <2>. QED
    BY <2>1, <2>2, <2>3, <2>4, <2>5 DEF DbInv
<1>5. CASE Close(p)
  <2>. USE DEF Close, Goto, grpcVars, callVars, Stages, Running, Startup, Serving
  <2>1. DbInv' /\ conn' = [conn EXCEPT ![p] = "none"]
    BY <1>5, CloseDBInv DEF CloseDB, SetConn
  <2>2. TypeOK'
    BY <1>5, <2>1 DEF TypeOK, DbInv
  <2>3. ConnMatchesStage'
    BY <1>5, <2>1 DEF TypeOK, DbTypeOK, ConnMatchesStage
  <2>4. ShutdownOrder'
    BY <1>5 DEF TypeOK, ShutdownOrder
  <2>5. HandlersAreServed'
    BY <1>5 DEF TypeOK, HandlersAreServed
  <2>. QED
    BY <2>1, <2>2, <2>3, <2>4, <2>5 DEF DbInv
<1>6. CASE Exit(p)
  <2>1. DbInv'
    BY <1>6, DbUnchanged DEF Exit
  <2>2. conn' = [conn EXCEPT ![p] = "none"]
    BY <1>6 DEF Exit, dbVars, ConnMatchesStage, TypeOK, DbTypeOK
  <2>. QED
    BY <1>6, <2>1, <2>2, EndProcessInv DEF Exit
<1>. QED
  BY <1>1, <1>2, <1>3, <1>4, <1>5, <1>6 DEF ProcessStep

\* Failures of the startup, signals, kills and restarts.
LEMMA OutsideStepInv ==
  ASSUME ServerInv, NEW p \in Procs,
         (\E cmd \in Commands : Run(p, cmd)) \/ StartupFails(p) \/ Signal(p) \/ Kill(p)
  PROVE  ServerInv'
<1>. DbInv
  BY DEF ServerInv, DbInv, TypeOK
<1>. USE DEF ServerInv
<1>1. CASE (\E cmd \in Commands : Run(p, cmd)) \/ Signal(p)
  <2>. USE DEF Run, Signal, Goto, grpcVars, callVars, dbVars, Stages, Running, Startup, Serving
  <2>1. DbInv'
    BY <1>1, DbUnchanged
  <2>2. TypeOK'
    <3>1. CASE Signal(p)
      <4>1. signalled' \in [Procs -> BOOLEAN]
        BY <3>1, Zenon DEF TypeOK
      <4>. QED
        BY <3>1, <2>1, <4>1 DEF TypeOK, DbInv
    <3>2. CASE \E cmd \in Commands : Run(p, cmd)
      BY <2>1, <3>2 DEF TypeOK, DbInv
    <3>. QED
      BY <1>1, <3>1, <3>2
  <2>3. ConnMatchesStage'
    BY <1>1 DEF TypeOK, ConnMatchesStage
  <2>4. ShutdownOrder'
    BY <1>1 DEF TypeOK, ShutdownOrder
  <2>5. HandlersAreServed'
    BY <1>1 DEF TypeOK, HandlersAreServed
  <2>. QED
    BY <2>1, <2>2, <2>3, <2>4, <2>5 DEF DbInv
<1>2. CASE StartupFails(p)
  <2>1. DbInv'
    BY <1>2, DbUnchanged, CloseDBInv DEF StartupFails, FailOpen
  <2>2. conn' = [conn EXCEPT ![p] = "none"]
    BY <1>2 DEF StartupFails, FailOpen, CloseDB, SetConn, dbVars, ConnMatchesStage, TypeOK, DbTypeOK
  <2>. QED
    BY <1>2, <2>1, <2>2, EndProcessInv DEF StartupFails
<1>3. CASE Kill(p)
  <2>1. DbInv' /\ conn' = [conn EXCEPT ![p] = "none"]
    BY <1>3, CloseDBInv DEF Kill, CloseDB, SetConn
  <2>. QED
    BY <1>3, <2>1, EndProcessInv DEF Kill
<1>. QED
  BY <1>1, <1>2, <1>3

\* The goroutines of gRPC.
LEMMA GrpcStepInv ==
  ASSUME ServerInv, NEW p \in Procs, GrpcStep(p) \/ AcceptFails(p)
  PROVE  ServerInv'
<1>. DbInv
  BY DEF ServerInv, DbInv, TypeOK
<1>. USE DEF ServerInv, GrpcStep, AcceptFails, ServeBegins, GracefulStopBegins, GracefulStopEnds,
             ServeReturns, lifeVars, callVars, dbVars
<1>1. DbInv'
  BY DbUnchanged
<1>2. TypeOK'
  <2>1. quit' \in [Procs -> BOOLEAN] /\ done' \in [Procs -> BOOLEAN]
    BY Zenon DEF TypeOK
  <2>. QED
    BY <1>1, <2>1 DEF TypeOK, DbInv
<1>3. ConnMatchesStage'
  BY DEF TypeOK, ConnMatchesStage
<1>4. ShutdownOrder'
  <2>. USE DEF TypeOK, ShutdownOrder, Serving
  <2>1. CASE ServeBegins(p) \/ AcceptFails(p)
    <3>1. /\ grpc[p] \in {"spawned", "accepting"}
          /\ grpc'[p] \in {"accepting", "returned"}
          /\ quit[p] => grpc'[p] # "accepting"
          /\ \A q \in Procs : q # p => grpc'[q] = grpc[q]
      BY <2>1
    <3>2. UNCHANGED <<stage, health, stopper, quit, done, forced>>
      BY <2>1
    <3>. QED
      BY <3>1, <3>2
  <2>2. CASE GracefulStopBegins(p)
    BY <2>2
  <2>3. CASE GracefulStopEnds(p)
    BY <2>3
  <2>4. CASE ServeReturns(p)
    BY <2>4
  <2>. QED
    BY <2>1, <2>2, <2>3, <2>4
<1>5. HandlersAreServed'
  BY DEF TypeOK, HandlersAreServed, Handlers
<1>. QED
  BY <1>1, <1>2, <1>3, <1>4, <1>5 DEF DbInv

\* Calls.
LEMMA CallStepInv ==
  ASSUME ServerInv, NEW c \in Calls,
         HandlerStep(c) \/ \E p \in Procs : AcceptCall(c, p)
  PROVE  ServerInv'
<1>. DbInv
  BY DEF ServerInv, DbInv, TypeOK
<1>. USE DEF ServerInv, HandlerStep, Operate, RecordAudit, Answer, AcceptCall, lifeVars, grpcVars,
             dbVars, Handling
<1>1. DbInv'
  BY DbUnchanged
<1>2. TypeOK'
  BY <1>1 DEF TypeOK, DbInv
<1>3. ConnMatchesStage' /\ ShutdownOrder'
  BY DEF ConnMatchesStage, ShutdownOrder
<1>4. HandlersAreServed'
  BY DEF TypeOK, HandlersAreServed, ShutdownOrder
<1>. QED
  BY <1>1, <1>2, <1>3, <1>4 DEF DbInv

-----------------------------------------------------------------------------
(* The theorems.                                                           *)

\* Every file and every process begins in the invariant.
LEMMA InitInv == Init => ServerInv
<1>1. SUFFICES ASSUME Init PROVE ServerInv
  OBVIOUS
<1>2. DbInv
  BY <1>1, DbInitInv DEF Init
<1>3. TypeOK
  BY <1>1, <1>2 DEF Init, TypeOK, DbInv, Commands, Stages
<1>. QED
  BY <1>1, <1>2, <1>3
  DEF Init, DbInit, DbInv, ServerInv, ConnMatchesStage, ShutdownOrder, HandlersAreServed,
      Running, Startup, Serving, Handling

\* No step of any process, handler, client or failure leaves it.
LEMMA NextInv == ServerInv /\ [Next]_vars => ServerInv'
<1>1. SUFFICES ASSUME ServerInv, [Next]_vars PROVE ServerInv'
  OBVIOUS
<1>2. CASE UNCHANGED vars
  BY <1>1, <1>2
  DEF vars, dbVars, lifeVars, grpcVars, callVars, ServerInv, TypeOK, DbTypeOK,
      SchemaCoversVersion, MigratedSoFar, ConnMatchesStage, ReadyIsComplete, ShutdownOrder,
      HandlersAreServed
<1>3. CASE Next
  BY <1>1, <1>3, ProcessStepInv, OutsideStepInv, GrpcStepInv, CallStepInv DEF Next
<1>. QED
  BY <1>1, <1>2, <1>3

\* The inductive invariant of main.go's processes and of database.go's
\* migrations holds, for any number of processes of any builds.
THEOREM ServerInvariant == Spec => []ServerInv
BY InitInv, NextInv, PTL DEF Spec

\* user_version never claims a migration whose tables are missing, whatever
\* processes migrate the file at the same time, fail or die.
THEOREM VersionIsCovered == Spec => []SchemaCoversVersion
<1>1. ServerInv => SchemaCoversVersion
  BY DEF ServerInv
<1>. QED
  BY <1>1, ServerInvariant, PTL

\* A server that accepts calls has an open database with the tables its build
\* needs.
THEOREM ServesComplete == Spec => []ServesCompleteSchema
<1>1. ServerInv => ServesCompleteSchema
  BY DEF ServerInv, ServesCompleteSchema, ReadyIsComplete, ConnMatchesStage, ShutdownOrder,
         TypeOK, Stages, Running, Startup, Serving
<1>. QED
  BY <1>1, ServerInvariant, PTL

\* A handler finds the database closed only after the ten seconds or after the
\* listener failed.
THEOREM Drained == Spec => []DrainedBeforeClose
<1>1. ServerInv => DrainedBeforeClose
  BY DEF ServerInv, DrainedBeforeClose, HandlersAreServed, ConnMatchesStage, ShutdownOrder,
         Running, Startup, Serving
<1>. QED
  BY <1>1, ServerInvariant, PTL

\* Every way out of serve() and runBootstrap() has closed the database.
THEOREM ClosedAtExit == Spec => []ClosedOnExit
<1>1. ServerInv => ClosedOnExit
  BY DEF ServerInv, ClosedOnExit, ConnMatchesStage
<1>. QED
  BY <1>1, ServerInvariant, PTL

\* NOT_SERVING is published before the port closes.
THEOREM HealthFirst == Spec => []HealthBeforeStop
<1>1. ServerInv => HealthBeforeStop
  BY DEF ServerInv, HealthBeforeStop, ShutdownOrder
<1>. QED
  BY <1>1, ServerInvariant, PTL

\* In an orderly shutdown no accepted call is cut off or fails for want of a
\* database.
THEOREM CallsAreAnswered == Spec => AnsweredOnShutdown
<1>. DEFINE Kept(c) == call[c] \in Handling /\ call'[c] \in {"lost", "error"}
                       => forced[at[c]] \/ ~quit[at[c]] \/ stage'[at[c]] = "off"
<1>1. ServerInv /\ [Next]_vars => \A c \in Calls : Kept(c)
  <2>1. SUFFICES ASSUME ServerInv, [Next]_vars, NEW c \in Calls,
                        call[c] \in Handling, call'[c] \in {"lost", "error"},
                        ~forced[at[c]], quit[at[c]]
                 PROVE  stage'[at[c]] = "off"
    OBVIOUS
  <2>2. /\ at[c] \in Procs /\ stage[at[c]] \in Serving /\ ~done[at[c]]
        /\ conn[at[c]] = "ready" /\ stage[at[c]] \notin {"close", "return"}
    BY <2>1 DEF ServerInv, HandlersAreServed, ConnMatchesStage, ShutdownOrder, Running, Startup,
                Serving
  <2>3. ASSUME NEW p \in Procs, NEW s, EndProcess(p, s) PROVE p = at[c] /\ stage'[p] = s
    BY <2>1, <2>3 DEF EndProcess, Goto, Handlers, Handling, ServerInv, TypeOK
  <2>4. ASSUME NEW p \in Procs, ProcessStep(p) \/ StartupFails(p)
        PROVE  FALSE
    <3>1. CASE StartupRefused(p) \/ StartupFails(p) \/ Exit(p)
      <4>1. EndProcess(p, "exited") /\ stage[p] \notin Serving \ {"return"}
        BY <3>1 DEF StartupRefused, StartupFails, Exit, Serving
      <4>. QED
        BY <2>2, <2>3, <4>1
    <3>2. CASE call' = call
      BY <2>1, <3>2 DEF Handling
    <3>. QED
      BY <2>4, <3>1, <3>2
      DEF ProcessStep, InitE, Validate, BuildStores, BootstrapServiceAccount, RunBootstrap,
          BuildTokenKeys, Assemble, Listen, SelectServeErr, SelectDone, AwaitStopped, StopTimer,
          AwaitServe, Close, callVars
  <2>5. ASSUME NEW p \in Procs, Kill(p) PROVE stage'[at[c]] = "off"
    BY <2>3, <2>5 DEF Kill
  <2>6. ASSUME NEW p \in Procs,
               (\E cmd \in Commands : Run(p, cmd)) \/ Signal(p) \/ GrpcStep(p) \/ AcceptFails(p)
        PROVE  FALSE
    BY <2>1, <2>6
    DEF Run, Signal, GrpcStep, AcceptFails, ServeBegins, GracefulStopBegins, GracefulStopEnds,
        ServeReturns, callVars, Handling
  <2>7. ASSUME NEW d \in Calls, HandlerStep(d) \/ \E p \in Procs : AcceptCall(d, p)
        PROVE  FALSE
    BY <2>1, <2>2, <2>7
    DEF HandlerStep, Operate, RecordAudit, Answer, AcceptCall, DatabaseAnswers, Handling,
        ServerInv, TypeOK
  <2>8. CASE UNCHANGED vars
    BY <2>1, <2>8 DEF vars, callVars, Handling
  <2>. QED
    BY <2>1, <2>4, <2>5, <2>6, <2>7, <2>8 DEF Next
<1>2. ServerInv /\ [Next]_vars => [\A c \in Calls : Kept(c)]_vars
  BY <1>1
<1>. QED
  BY <1>2, ServerInvariant, PTL DEF Spec, AnsweredOnShutdown
=============================================================================
