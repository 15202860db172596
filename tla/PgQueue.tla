------------------------------- MODULE PgQueue -------------------------------
(***************************************************************************)
(* How the Postgres runtime hands runs to workers, and how clients follow  *)
(* them: the Redis stream with its consumer group, the consumption loop of *)
(* each worker process with its semaphore and its tasks, the sweep for     *)
(* dead workers, and the streams that hold connections of the pool while   *)
(* they wait.  Redis, the pool and the workers' crashes are external.      *)
(***************************************************************************)
EXTENDS Naturals, FiniteSets, Sequences

CONSTANTS
  PgRuns,        \* runs that clients submit
  Tooled,        \* those for which a script calls enqueue_run itself
  Workers,       \* consumers of the group
  Concurrency,   \* N_JOBS_PER_WORKER
  MaxCrashes,    \* bound: worker processes that die
  Joiners,       \* clients that follow a run
  PoolSize       \* POSTGRES_POOL_MAX_SIZE

ASSUME PgQueueAssumption ==
  /\ IsFiniteSet(Tooled)
  /\ Workers \cap {"absent", "new"} = {}
  /\ Concurrency \in Nat /\ MaxCrashes \in Nat

VARIABLES
  rows,          \* runs of the table: absent, pending, interrupted
  entries,       \* of the stream lg:runs: the run, the consumer that owns it
  workers,       \* up, the entries read but not started, permits, tasks, active_tasks
  executed,      \* how often a task was started for an entry
  joiners,       \* what each client's stream does
  crashes

pgQueueVars == <<rows, entries, workers, executed, joiners, crashes>>

NewWorker == [up |-> TRUE, batch |-> <<>>, permits |-> Concurrency, tasks |-> {}, active |-> 0]
NoWorker == [NewWorker EXCEPT !.up = FALSE]

\* Entries name runs, workers what they read; clients move through their stations.
PgQueueTypeOK ==
  /\ rows \in [PgRuns -> {"absent", "pending", "interrupted"}]
  /\ entries \in [Tooled -> {"absent", "new"} \cup Workers]
  /\ \A w \in Workers : /\ workers[w].permits \in Nat
                        /\ workers[w].tasks \subseteq Tooled
                        /\ workers[w].active <= Cardinality(Tooled)
  /\ executed \in [Tooled -> Nat]
  /\ joiners \in [Joiners -> [at : {"out", "asking", "joined", "cancelling", "gone"}, run : PgRuns]]
  /\ crashes \in 0..MaxCrashes

PgQueueInit ==
  /\ rows = [r \in PgRuns |-> "absent"]
  /\ entries = [r \in Tooled |-> "absent"]
  /\ workers = [w \in Workers |-> NewWorker]
  /\ executed = [r \in Tooled |-> 0]
  /\ joiners \in [Joiners -> [at : {"out"}, run : PgRuns]]
  /\ crashes = 0

(***************************************************************************)
(* Requests and scripts                                                    *)
(***************************************************************************)
\* Runs.put, the whole of what the API does for a new run: the row is inserted.
PgSubmitRun(r) ==
  /\ rows[r] = "absent"
  /\ rows' = [rows EXCEPT ![r] = "pending"]
  /\ UNCHANGED <<entries, workers, executed, joiners, crashes>>

EnqueueRun(r) ==
  /\ rows[r] = "pending" /\ entries[r] = "absent"
  /\ entries' = [entries EXCEPT ![r] = "new"]
  /\ UNCHANGED <<rows, workers, executed, joiners, crashes>>

(***************************************************************************)
(* The consumption loop                                                    *)
(***************************************************************************)
NewEntries == {r \in Tooled : entries[r] = "new"}
Orders(S) == {q \in [1..Cardinality(S) -> S] : \A i, j \in DOMAIN q : q[i] = q[j] => i = j}

\* Mutant of ReadGroup: the consumer reads its own unacknowledged entries again.
ReadGroupAgain(w) ==
  /\ workers[w].up /\ workers[w].batch = <<>>
  /\ \E S \in SUBSET {r \in Tooled : entries[r] \in {"new", w}} \ {{}} :
       /\ entries' = [r \in Tooled |-> IF r \in S THEN w ELSE entries[r]]
       /\ \E q \in Orders(S) : workers' = [workers EXCEPT ![w].batch = q]
  /\ UNCHANGED <<rows, executed, joiners, crashes>>

\* xreadgroup of entries that were never delivered; active_tasks only grows, because
\* the coroutine on_run_done is a callback that is never awaited.
ReadGroup(w) ==
  /\ workers[w].up /\ workers[w].batch = <<>>
  /\ LET count == IF Concurrency > workers[w].active + 1 THEN Concurrency - workers[w].active ELSE 1 IN
       \E S \in SUBSET NewEntries \ {{}} :
         /\ Cardinality(S) <= count
         /\ entries' = [r \in Tooled |-> IF r \in S THEN w ELSE entries[r]]
         /\ \E q \in Orders(S) : workers' = [workers EXCEPT ![w].batch = q]
  /\ UNCHANGED <<rows, executed, joiners, crashes>>

StartTask(w) ==
  /\ workers[w].up /\ workers[w].batch # <<>> /\ workers[w].permits > 0
  /\ LET e == Head(workers[w].batch) IN
       /\ workers' = [workers EXCEPT ![w].batch = Tail(@), ![w].permits = @ - 1,
                                     ![w].tasks = @ \cup {e}, ![w].active = @ + 1]
       /\ executed' = [executed EXCEPT ![e] = @ + 1]
  /\ UNCHANGED <<rows, entries, joiners, crashes>>

\* _execute_run: Runs.get without a thread raises, whatever the run; the permit goes
\* back, the entry is neither acknowledged nor deleted.
EndTask(w, e) ==
  /\ workers[w].up /\ e \in workers[w].tasks
  /\ workers' = [workers EXCEPT ![w].permits = @ + 1, ![w].tasks = @ \ {e}]
  /\ UNCHANGED <<rows, entries, executed, joiners, crashes>>

\* xautoclaim gives the entries of a silent consumer to this one and the answer, which
\* names them, is dropped.
SweepStaleWorkers(w) ==
  /\ workers[w].up
  /\ \E o \in Workers : /\ ~workers[o].up /\ \E r \in Tooled : entries[r] = o
                        /\ entries' = [r \in Tooled |-> IF entries[r] = o THEN w ELSE entries[r]]
  /\ UNCHANGED <<rows, workers, executed, joiners, crashes>>

CrashWorker(w) ==
  /\ workers[w].up /\ crashes < MaxCrashes
  /\ workers' = [workers EXCEPT ![w] = NoWorker]
  /\ crashes' = crashes + 1
  /\ UNCHANGED <<rows, entries, executed, joiners>>

(***************************************************************************)
(* Streams: Runs.Stream.join and its connection                            *)
(***************************************************************************)
Holders == {j \in Joiners : joiners[j].at \in {"joined", "cancelling"}}
FreeConns == PoolSize - Cardinality(Holders)
Moves(j, at) == joiners' = [joiners EXCEPT ![j].at = at]

JoinStream(j) ==
  /\ joiners[j].at = "out" /\ Moves(j, "asking")
  /\ UNCHANGED <<rows, entries, workers, executed, crashes>>

\* A connection for as long as the stream lasts, or PoolTimeout.
GetConnection(j) ==
  /\ joiners[j].at = "asking"
  /\ \/ FreeConns > 0 /\ Moves(j, "joined")
     \/ FreeConns = 0 /\ Moves(j, "gone")
  /\ UNCHANGED <<rows, entries, workers, executed, crashes>>

\* Half a second without a message: the status of the run decides.
PollStatus(j) ==
  /\ joiners[j].at = "joined" /\ rows[joiners[j].run] # "pending"
  /\ Moves(j, "gone")
  /\ UNCHANGED <<rows, entries, workers, executed, crashes>>

\* The client leaves with cancel_on_disconnect, or without.
LeaveStream(j) ==
  /\ joiners[j].at = "joined"
  /\ \/ Moves(j, "cancelling") \/ Moves(j, "gone")
  /\ UNCHANGED <<rows, entries, workers, executed, crashes>>

\* Runs.cancel takes a second connection; PoolTimeout ends the attempt.
CancelOnDisconnect(j) ==
  /\ joiners[j].at = "cancelling"
  /\ \/ /\ FreeConns > 0
        /\ rows' = [rows EXCEPT ![joiners[j].run] = IF @ = "pending" THEN "interrupted" ELSE @]
     \/ FreeConns = 0 /\ UNCHANGED rows
  /\ Moves(j, "gone")
  /\ UNCHANGED <<entries, workers, executed, crashes>>

Consume(w) == ReadGroup(w) \/ StartTask(w) \/ \E e \in Tooled : EndTask(w, e)
Serve(j) == GetConnection(j) \/ PollStatus(j) \/ CancelOnDisconnect(j)

PgQueueNext ==
  \/ \E r \in PgRuns : PgSubmitRun(r)
  \/ \E r \in Tooled : EnqueueRun(r)
  \/ \E w \in Workers : Consume(w) \/ SweepStaleWorkers(w) \/ CrashWorker(w)
  \/ \E j \in Joiners : JoinStream(j) \/ Serve(j) \/ LeaveStream(j)

PgQueueSpec == PgQueueInit /\ [][PgQueueNext]_pgQueueVars

\* Loops that are up go on; streams are served.
PgQueueFairSpec ==
  /\ PgQueueSpec
  /\ \A w \in Workers : WF_pgQueueVars(Consume(w)) /\ WF_pgQueueVars(SweepStaleWorkers(w))
  /\ \A j \in Joiners : WF_pgQueueVars(Serve(j))

(***************************************************************************)
(* Properties                                                              *)
(***************************************************************************)
\* A worker never has more tasks than N_JOBS_PER_WORKER: it reads more entries than it
\* may start when active_tasks is wrong, and only the semaphore holds them back.
TasksWithinConcurrency == \A w \in Workers : Cardinality(workers[w].tasks) <= Concurrency

\* No entry of the stream is executed twice, although none is ever acknowledged, workers
\* die and the sweep hands their entries on.
ExecutedAtMostOnce == \A r \in Tooled : executed[r] <= 1

\* A client that leaves gives its connection back, even if every connection of the pool
\* belongs to a stream that waits for a second one to cancel its run.
ConnectionsComeBack == \A j \in Joiners : joiners[j].at = "cancelling" ~> joiners[j].at = "gone"

=============================================================================
