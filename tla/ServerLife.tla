------------------------------ MODULE ServerLife ------------------------------
(***************************************************************************)
(* The in-memory server over its starts, stops and crashes: the pickled    *)
(* copy of the store, the scheduling loop and what becomes of the runs     *)
(* that were being executed.  The life of a run within one server is       *)
(* RunLifecycle; here a worker only starts, executes and settles.          *)
(***************************************************************************)
EXTENDS Naturals, FiniteSets

CONSTANTS
  ServerRuns,
  MaxStarts      \* bound: how often the server is started

ASSUME ServerAssumption == MaxStarts \in Nat

VARIABLES
  server,        \* "up", "stopping" (lifespan is being left), "down"
  loop,          \* the task of queue(): "on", "failed", "cancelled"
  mem, disk,     \* status of the runs in GLOBAL_STORE and in its file
  worker,        \* the worker task of a run
  starts,
  cut            \* history: runs whose worker was cut off before it could queue them again

slVars == <<server, loop, mem, disk, worker, starts, cut>>

Statuses == {"none", "pending", "running", "success"}

\* The types of the store, its file and the tasks.
ServerTypeOK ==
  /\ server \in {"up", "stopping", "down"} /\ loop \in {"on", "failed", "cancelled"}
  /\ mem \in [ServerRuns -> Statuses] /\ disk \in [ServerRuns -> Statuses]
  /\ worker \in [ServerRuns -> {"none", "starting", "executing", "settling"}]
  /\ starts \in 0..MaxStarts
  /\ cut \subseteq ServerRuns

AllNone == [r \in ServerRuns |-> "none"]

ServerInit ==
  /\ server = "down" /\ loop = "cancelled" /\ starts = 0
  /\ mem = AllNone /\ disk = AllNone /\ worker = AllNone
  /\ cut = {}

\* start_pool loads the file as it is; lifespan creates the queue's task.
StartServer ==
  /\ server = "down" /\ starts < MaxStarts
  /\ server' = "up" /\ loop' = "on" /\ starts' = starts + 1
  /\ mem' = disk
  /\ UNCHANGED <<disk, worker, cut>>

SubmitRun(r) ==
  /\ server = "up" /\ mem[r] = "none"
  /\ mem' = [mem EXCEPT ![r] = "pending"]
  /\ UNCHANGED <<server, loop, disk, worker, starts, cut>>

\* A pass of the loop takes a run and creates its worker.
TakeRun(r) ==
  /\ server = "up" /\ loop = "on" /\ mem[r] = "pending" /\ worker[r] = "none"
  /\ mem' = [mem EXCEPT ![r] = "running"]
  /\ worker' = [worker EXCEPT ![r] = "starting"]
  /\ UNCHANGED <<server, loop, disk, starts, cut>>

WorkerOn(r) ==
  /\ \/ worker[r] = "starting" /\ worker' = [worker EXCEPT ![r] = "executing"] /\ UNCHANGED mem
     \/ worker[r] = "executing" /\ worker' = [worker EXCEPT ![r] = "settling"] /\ UNCHANGED mem
     \/ /\ worker[r] = "settling" /\ worker' = [worker EXCEPT ![r] = "none"]
        /\ mem' = [mem EXCEPT ![r] = "success"]
  /\ UNCHANGED <<server, loop, disk, starts, cut>>

\* The handler of a failed pass calls exit.aclose(), which does not exist: queue() ends.
PassFails ==
  /\ server = "up" /\ loop = "on"
  /\ loop' = "failed"
  /\ UNCHANGED <<server, mem, disk, worker, starts, cut>>

\* queue_with_signal turns the end of the queue into a SIGINT.
SignalShutdown ==
  /\ server = "up" /\ loop = "failed"
  /\ server' = "stopping"
  /\ UNCHANGED <<loop, mem, disk, worker, starts, cut>>

\* The operator stops the server: the task group cancels the queue's task.
StopServer ==
  /\ server = "up" /\ loop = "on"
  /\ server' = "stopping" /\ loop' = "cancelled"
  /\ UNCHANGED <<mem, disk, worker, starts, cut>>

\* Mutant of CancelWorker: a cancelled execution counts as finished.
CancelWorkerQuietly(r) ==
  /\ loop # "on" /\ server # "down" /\ worker[r] # "none"
  /\ worker' = [worker EXCEPT ![r] = "none"]
  /\ UNCHANGED <<server, loop, mem, disk, starts, cut>>

\* The queue's finally clause cancels the workers.  An executing one takes the
\* cancellation for a retriable exception and queues its run again; one that has not
\* begun to execute or no longer does so just ends.
CancelWorker(r) ==
  /\ loop # "on" /\ server # "down"
  /\ worker' = [worker EXCEPT ![r] = "none"]
  /\ \/ /\ worker[r] = "executing"
        /\ mem' = [mem EXCEPT ![r] = "pending"] /\ UNCHANGED cut
     \/ /\ worker[r] \in {"starting", "settling"}
        /\ cut' = cut \cup {r} /\ UNCHANGED mem
  /\ UNCHANGED <<server, loop, disk, starts>>

\* The flush thread wakes up every ten seconds.
Flush ==
  /\ server = "up" /\ disk # mem
  /\ disk' = mem
  /\ UNCHANGED <<server, loop, mem, worker, starts, cut>>

Unfinished == {r \in ServerRuns : worker[r] # "none"}

\* stop_pool writes the file.  Workers that did not end within the grace period go with
\* the process.
CloseServer ==
  /\ server = "stopping"
  /\ server' = "down" /\ disk' = mem
  /\ cut' = cut \cup Unfinished
  /\ worker' = AllNone /\ mem' = AllNone
  /\ UNCHANGED <<loop, starts>>

\* The process dies: what runs on disk has lost its worker.
Crash ==
  /\ server # "down"
  /\ server' = "down" /\ loop' = "cancelled"
  /\ cut' = cut \cup {r \in ServerRuns : disk[r] = "running"}
  /\ worker' = AllNone /\ mem' = AllNone
  /\ UNCHANGED <<disk, starts>>

ServerNext ==
  \/ StartServer \/ PassFails \/ SignalShutdown \/ StopServer \/ Flush \/ CloseServer \/ Crash
  \/ \E r \in ServerRuns : SubmitRun(r) \/ TakeRun(r) \/ WorkerOn(r) \/ CancelWorker(r)

ServerSpec == ServerInit /\ [][ServerNext]_slVars

(***************************************************************************)
(* Properties                                                              *)
(***************************************************************************)
\* A run is "running" without a worker only if its worker was cut off in front of or
\* behind its execution, at the end of the grace period, or by a crash: an orderly stop
\* queues every executing run again, and the next start executes it.
StrandedOnlyIfCut ==
  \A r \in ServerRuns : server # "down" /\ mem[r] = "running" /\ worker[r] = "none" => r \in cut

\* A run whose success has reached the file is never executed again.
WrittenOutcomeStays ==
  \A r \in ServerRuns : disk[r] = "success" /\ server # "down" =>
    mem[r] = "success" /\ worker[r] = "none"

=============================================================================
