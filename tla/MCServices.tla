----------------------------- MODULE MCServices -----------------------------
(***************************************************************************)
(* Instances of the components that do the server's work: transactions and *)
(* queue workers of the Postgres runtime, a run behind gRPC, the life of   *)
(* the in-memory server, the cache and the JavaScript processes.  They     *)
(* share no state, so one behaviour runs one of them, the one in focus,    *)
(* and the others stay in one of their initial states; fairness is asked   *)
(* of the one in focus.                                                    *)
(***************************************************************************)
EXTENDS PgStore, PgQueue, GrpcRun, ServerLife, SwrCache, JsSidecar

VARIABLE focus    \* the component that runs

ServiceComponents == {"PgStore", "PgQueue", "GrpcRun", "ServerLife", "SwrCache", "JsSidecar"}

On(c) == focus = c

\* Requests that meet in the database.
MCMixes ==
  {{"Runs.put", "Runs.cancel"},
   {"Runs.put", "Runs.delete", "State.post"},
   {"Runs.cancel", "Threads.put", "Threads.delete"},
   {"Runs.put", "Assistants.delete", "Assistants.put"},
   {"Assistants.delete", "Assistants.patch", "Assistants.set_latest"}}

\* Runs behind gRPC: what the graph streams, what the client asks for, whether events
\* are published in a task of their own, and the version of the stream.
Job(plan, modes, async, v2) == [plan |-> plan, modes |-> modes, async |-> async, v2 |-> v2]
Pausing == <<"values", "pause">>
Talking == <<"messages", "debug">>
MCJobs ==
  {Job(Pausing, {"values"}, TRUE, FALSE), Job(Pausing, {"messages-tuple", "updates"}, FALSE, TRUE),
   Job(Pausing, {"events"}, TRUE, TRUE), Job(Pausing, {"messages-tuple"}, FALSE, FALSE),
   Job(Talking, {"messages-tuple", "updates"}, TRUE, FALSE), Job(Talking, {"values"}, FALSE, TRUE),
   Job(Talking, {"debug"}, TRUE, TRUE)}

\* Where a component has several initial states, it stays in this one.
PgStoreStands == mix = {"Runs.put", "Runs.cancel"}
PgQueueStands == joiners = [j \in Joiners |-> [at |-> "out", run |-> CHOOSE r \in PgRuns : TRUE]]
GrpcRunStands == job = Job(Pausing, {"values"}, TRUE, FALSE)

Init ==
  /\ focus \in ServiceComponents
  /\ IF On("PgStore") THEN TRUE ELSE PgStoreStands
  /\ IF On("PgQueue") THEN TRUE ELSE PgQueueStands
  /\ IF On("GrpcRun") THEN TRUE ELSE GrpcRunStands
  /\ PgStoreInit /\ PgQueueInit /\ GrpcRunInit /\ ServerInit /\ SwrInit /\ SidecarInit

\* Every component but one stands still.
Others(c) ==
  /\ UNCHANGED focus
  /\ IF c = "PgStore" THEN TRUE ELSE UNCHANGED pgVars
  /\ IF c = "PgQueue" THEN TRUE ELSE UNCHANGED pgQueueVars
  /\ IF c = "GrpcRun" THEN TRUE ELSE UNCHANGED grVars
  /\ IF c = "ServerLife" THEN TRUE ELSE UNCHANGED slVars
  /\ IF c = "SwrCache" THEN TRUE ELSE UNCHANGED swrVars
  /\ IF c = "JsSidecar" THEN TRUE ELSE UNCHANGED sidecarVars

Next ==
  \/ On("PgStore") /\ PgStoreNext /\ Others("PgStore")
  \/ On("PgQueue") /\ PgQueueNext /\ Others("PgQueue")
  \/ On("GrpcRun") /\ GrpcRunNext /\ Others("GrpcRun")
  \/ On("ServerLife") /\ ServerNext /\ Others("ServerLife")
  \/ On("SwrCache") /\ SwrNext /\ Others("SwrCache")
  \/ On("JsSidecar") /\ SidecarNext /\ Others("JsSidecar")

serviceVars == <<focus, pgVars, pgQueueVars, grVars, slVars, swrVars, sidecarVars>>

\* The fairness of each module's own specification, for the component in focus.
Fairness ==
  /\ \A s \in Sessions : /\ SF_pgVars(On("PgStore") /\ Statement(s))
                         /\ WF_pgVars(On("PgStore") /\ BreakDeadlock(s))
  /\ \A w \in Workers : /\ WF_pgQueueVars(On("PgQueue") /\ Consume(w))
                        /\ WF_pgQueueVars(On("PgQueue") /\ SweepStaleWorkers(w))
  /\ \A j \in Joiners : WF_pgQueueVars(On("PgQueue") /\ Serve(j))
  /\ \A w \in Processes : WF_grVars(On("GrpcRun") /\ ProcStep(w))
  /\ WF_grVars(On("GrpcRun") /\ Sweep)
  /\ WF_sidecarVars(On("JsSidecar") /\ Wait)
  /\ \A t \in Tasks : /\ WF_sidecarVars(On("JsSidecar") /\ HandleException(t))
                      /\ WF_sidecarVars(On("JsSidecar") /\ TaskCancelled(t))
  /\ \A c \in Calls : WF_sidecarVars(On("JsSidecar") /\ BreakCall(c))

Spec == Init /\ [][Next]_serviceVars /\ Fairness

(***************************************************************************)
(* Properties                                                              *)
(***************************************************************************)
\* The state of the component in focus has its type (see each module).
ServicesTypeOK ==
  /\ On("PgStore") => PgStoreTypeOK
  /\ On("PgQueue") => PgQueueTypeOK
  /\ On("GrpcRun") => GrpcRunTypeOK
  /\ On("ServerLife") => ServerTypeOK
  /\ On("SwrCache") => SwrTypeOK
  /\ On("JsSidecar") => SidecarTypeOK

\* Concurrent transactions leave what one after the other would: one run in flight
\* where "reject" was asked for, and an assistant that is its version.
TransactionsAgree == On("PgStore") => RejectKeepsOneInflight /\ PgVersionsConsistent

\* No entry of the stream is executed twice, and no worker executes more than it may.
EntriesExecutedOnce == On("PgQueue") => ExecutedAtMostOnce /\ TasksWithinConcurrency

\* A run behind gRPC is a success only when its graph was complete, and its client
\* was told of its pause.
SuccessIsWhole == On("GrpcRun") => SuccessIsComplete /\ PauseIsTold

\* A restart loses no run and repeats no success that was written; a value written to
\* the cache outlives a load that began before it.
WrittenStays ==
  /\ On("ServerLife") => StrandedOnlyIfCut /\ WrittenOutcomeStays
  /\ On("SwrCache") => WriteOutlivesOlderLoad

\* Whatever breaks, work comes to an end: a run behind gRPC is settled, transactions
\* commit or roll back, connections come back to their pool, and nobody waits for a
\* JavaScript process that died.
WorkEnds ==
  /\ On("GrpcRun") ~> core.st \in Final
  /\ PgRequestsEnd /\ ConnectionsComeBack
  /\ On("JsSidecar") ~> host # "starting"
  /\ DeadSidecarEndsServer /\ CallLearnsOfCrash
=============================================================================
