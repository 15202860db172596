------------------------------ MODULE JsSidecar ------------------------------
(***************************************************************************)
(* The JavaScript graphs of a server: the node processes it starts and     *)
(* watches, the checkpointer server they call back, the wait for them at   *)
(* start-up, their end at shutdown, and the calls that runs make to them.  *)
(* Each of them is a task of the server, whose end ends the server.        *)
(***************************************************************************)
EXTENDS Naturals

CONSTANTS
  Sidecars,    \* the node processes: the graphs, and the custom HTTP app if any
  Graphs,       \* that of the graphs
  ReadyPolls,   \* max_attempts: polls before the wait at start-up gives up
  Calls,        \* calls of runs to a remote graph
  MaxHangs      \* bound: times a process stops answering

VARIABLES
  host,         \* the server: "starting", "serving", "stopping" or "exited"
  task,         \* the task of each process, and of the checkpointer server
  process,      \* each process: "none", "booting", "up" or "hung"
  attempt,      \* attempts of run_js_process and run_js_http_process
  poll,         \* attempt and graph_ready of wait_until_js_ready
  checkpointer, \* the checkpointer server listens
  call,         \* the calls
  hangs         \* how often a process hung

sidecarVars == <<host, task, process, attempt, poll, checkpointer, call, hangs>>

Tasks == Sidecars \cup {"remote-socket-poller"}
Done == {"failed", "cancelled"}

SidecarInit ==
  /\ host = "starting"
  /\ task = [t \in Tasks |-> "running"]
  /\ process = [p \in Sidecars |-> "none"]
  /\ attempt = [p \in Sidecars |-> 0]
  /\ poll = [attempt |-> 0, ready |-> FALSE]
  /\ checkpointer = FALSE
  /\ call = [c \in Calls |-> "none"]
  /\ hangs = 0

Alive == host # "exited"

(***************************************************************************)
(* The processes and their tasks                                           *)
(***************************************************************************)
StartProcess(p) ==
  /\ Alive /\ task[p] = "running" /\ process[p] = "none"
  /\ process' = [process EXCEPT ![p] = "booting"]
  /\ UNCHANGED <<host, task, attempt, poll, checkpointer, call, hangs>>

ProcessUp(p) ==
  /\ Alive /\ process[p] = "booting"
  /\ process' = [process EXCEPT ![p] = "up"]
  /\ UNCHANGED <<host, task, attempt, poll, checkpointer, call, hangs>>

\* Its event loop is blocked: no answers, no heartbeats.
Hang(p) ==
  /\ Alive /\ process[p] = "up" /\ hangs < MaxHangs
  /\ process' = [process EXCEPT ![p] = "hung"]
  /\ hangs' = hangs + 1
  /\ UNCHANGED <<host, task, attempt, poll, checkpointer, call>>

\* The fourth exit is the last: the attempts count over the life of the server.
AfterExit(p) ==
  IF attempt[p] >= 3 THEN [st |-> "failed", attempt |-> attempt[p]]
  ELSE [st |-> "running", attempt |-> attempt[p] + 1]

\* The process exits, whatever its code; the calls it was answering break.
ProcessExits(p) ==
  /\ Alive /\ process[p] # "none" /\ task[p] = "running"
  /\ process' = [process EXCEPT ![p] = "none"]
  /\ task' = [task EXCEPT ![p] = AfterExit(p).st]
  /\ attempt' = [attempt EXCEPT ![p] = AfterExit(p).attempt]
  /\ UNCHANGED <<host, poll, checkpointer, call, hangs>>

\* run_remote_checkpointer: it listens, or it ends (its port is taken).
CheckpointerListens ==
  /\ Alive /\ task["remote-socket-poller"] = "running" /\ ~checkpointer
  /\ \/ /\ checkpointer' = TRUE /\ UNCHANGED task
     \/ /\ task' = [task EXCEPT !["remote-socket-poller"] = "failed"]
        /\ UNCHANGED checkpointer
  /\ UNCHANGED <<host, process, attempt, poll, call, hangs>>

\* _handle_exception, the done callback of every task.
HandleException(t) ==
  /\ Alive /\ task[t] \in Done
  /\ host' = "exited" /\ process' = [p \in Sidecars |-> "none"]
  /\ UNCHANGED <<task, attempt, poll, checkpointer, call, hangs>>

(***************************************************************************)
(* Start-up and shutdown                                                   *)
(***************************************************************************)
\* A process that once answered is not asked again.
GraphReady == poll.ready \/ process[Graphs] = "up"

\* wait_until_js_ready: a task that is over, ...
WaitFails ==
  /\ host = "starting" /\ \E t \in Tasks : task[t] \in Done
  /\ host' = "exited" /\ process' = [p \in Sidecars |-> "none"]
  /\ UNCHANGED <<task, attempt, poll, checkpointer, call, hangs>>

\* ... both answer, ...
WaitEnds ==
  /\ host = "starting" /\ \A t \in Tasks : task[t] \notin Done
  /\ GraphReady /\ checkpointer
  /\ host' = "serving" /\ poll' = [poll EXCEPT !.ready = TRUE]
  /\ UNCHANGED <<task, process, attempt, checkpointer, call, hangs>>

\* Mutant of GivesUp: the wait is for ever.
NeverGivesUp == FALSE

\* ... or the wait is over: the comparison is made before the attempt is counted.
GivesUp == poll.attempt > ReadyPolls

WaitAgain ==
  /\ host = "starting" /\ \A t \in Tasks : task[t] \notin Done
  /\ ~(GraphReady /\ checkpointer)
  /\ IF GivesUp
     THEN host' = "exited" /\ process' = [p \in Sidecars |-> "none"] /\ UNCHANGED poll
     ELSE /\ poll' = [attempt |-> IF poll.attempt > ReadyPolls THEN poll.attempt ELSE poll.attempt + 1,
                      ready |-> GraphReady]
          /\ UNCHANGED <<host, process>>
  /\ UNCHANGED <<task, attempt, checkpointer, call, hangs>>

\* stop_remote_graphs, when the server shuts down: every task is cancelled.
StopRemoteGraphs ==
  /\ host = "serving"
  /\ host' = "stopping"
  /\ UNCHANGED <<task, process, attempt, poll, checkpointer, call, hangs>>

\* The cancelled task terminates its process and waits for it.
TaskCancelled(t) ==
  /\ host = "stopping" /\ task[t] = "running"
  /\ task' = [task EXCEPT ![t] = "cancelled"]
  /\ process' = [p \in Sidecars |-> IF p = t THEN "none" ELSE process[p]]
  /\ checkpointer' = (checkpointer /\ t # "remote-socket-poller")
  /\ UNCHANGED <<host, attempt, poll, call, hangs>>

\* js_healthcheck: both answer.
Healthy == process[Graphs] = "up" /\ checkpointer

(***************************************************************************)
(* Calls of runs: _client_stream and _client_invoke                        *)
(***************************************************************************)
\* A run calls the graph: it is connected, or refused at once.
BeginCall(c) ==
  /\ host = "serving" /\ call[c] = "none"
  /\ call' = [call EXCEPT ![c] = IF process[Graphs] \in {"up", "hung"} THEN "open" ELSE "failed"]
  /\ UNCHANGED <<host, task, process, attempt, poll, checkpointer, hangs>>

\* The graph needs its checkpoints to come to an end.
AnswerCall(c) ==
  /\ Alive /\ call[c] = "open" /\ Healthy
  /\ call' = [call EXCEPT ![c] = "answered"]
  /\ UNCHANGED <<host, task, process, attempt, poll, checkpointer, hangs>>

\* The connection was closed, or nothing comes for three heartbeats.
Silent == {"none", "booting", "hung"}

BreakCall(c) ==
  /\ Alive /\ call[c] = "open" /\ process[Graphs] \in Silent
  /\ call' = [call EXCEPT ![c] = "failed"]
  /\ UNCHANGED <<host, task, process, attempt, poll, checkpointer, hangs>>

Wait == WaitFails \/ WaitEnds \/ WaitAgain

SidecarNext ==
  \/ \E p \in Sidecars : StartProcess(p) \/ ProcessUp(p) \/ Hang(p) \/ ProcessExits(p)
  \/ \E t \in Tasks : HandleException(t) \/ TaskCancelled(t)
  \/ CheckpointerListens \/ Wait \/ StopRemoteGraphs
  \/ \E c \in Calls : BeginCall(c) \/ AnswerCall(c) \/ BreakCall(c)

\* The event loop goes on, and the time-outs elapse; node processes need not.
SidecarSpec ==
  /\ SidecarInit /\ [][SidecarNext]_sidecarVars
  /\ WF_sidecarVars(Wait)
  /\ \A t \in Tasks : WF_sidecarVars(HandleException(t)) /\ WF_sidecarVars(TaskCancelled(t))
  /\ \A c \in Calls : WF_sidecarVars(BreakCall(c))

(***************************************************************************)
(* Properties                                                              *)
(***************************************************************************)
\* The type of the state of the remote graphs.
SidecarTypeOK ==
  /\ host \in {"starting", "serving", "stopping", "exited"}
  /\ task \in [Tasks -> {"running"} \cup Done]
  /\ process \in [Sidecars -> {"none", "booting", "up", "hung"}]
  /\ attempt \in [Sidecars -> 0..3]
  /\ call \in [Calls -> {"none", "open", "answered", "failed"}]

\* A server does not go on without the processes of its graphs: the end of a task
\* that keeps one ends the server, whenever it comes.
DeadSidecarEndsServer == (\E t \in Tasks : task[t] \in Done) ~> (host = "exited")

\* A run does not wait for ever for a process that crashed or hangs.
CallLearnsOfCrash ==
  \A c \in Calls : (call[c] = "open") ~> (call[c] # "open" \/ process[Graphs] = "up" \/ host = "exited")
=============================================================================
