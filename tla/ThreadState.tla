---------------------------- MODULE ThreadState ----------------------------
(***************************************************************************)
(* The state of one thread: its checkpoints, and the copy of the latest    *)
(* one in the thread's record.  Runs write checkpoints, and so do requests *)
(* that update the state, one update or a bulk of them.  Every request is  *)
(* suspended where the code awaits the checkpointer, the graph's factory   *)
(* or the Core server.  Two runtimes: the in-memory one, and the one that  *)
(* keeps thread and runs behind gRPC and the checkpoints in a transaction. *)
(***************************************************************************)
EXTENDS Naturals, FiniteSets

CONSTANTS
  Updates,        \* requests that update the state
  StateRuns,      \* runs of the thread
  MaxCheckpoints  \* bound: checkpoints written

\* What is in a transaction is not committed.
ASSUME ThreadStateAssumption == "committed" \notin Updates /\ MaxCheckpoints \in Nat

VARIABLES
  runtime,        \* "inmem" or "grpc"
  thread,         \* the thread's record
  saved,          \* its checkpoints: [id, next, open]
  lastId,         \* the id of the newest checkpoint ever written
  trun,           \* the runs and their workers
  update,         \* the requests
  forked,         \* history: a checkpoint was written beside the newest one
  raced           \* history: a "run" was created during an update, two updates did
                  \* "overlap", a "bulk" update met a run, the worker of a cancelled
                  \* run was "late", the thread was dropped ("drop")

stVars == <<runtime, thread, saved, lastId, trun, update, forked, raced>>

\* A checkpoint is open while the transaction of an update holds it.
NoOne == "committed"
NoUpdate == [pc |-> "idle", kind |-> "none", base |-> 0, read |-> 0]
Done == [NoUpdate EXCEPT !.pc = "done"]

ThreadStateInit ==
  /\ runtime \in {"inmem", "grpc"}
  /\ thread \in [there : {TRUE}, status : {"idle"}, shown : {0}, graph : BOOLEAN]
  /\ saved = {} /\ lastId = 0 /\ forked = FALSE /\ raced = {}
  /\ trun = [r \in StateRuns |-> [st |-> "new", worker |-> FALSE, at |-> 0]]
  /\ update = [u \in Updates |-> NoUpdate]

Maximum(S) == CHOOSE n \in S : \A m \in S : m <= n

\* The newest checkpoint that u sees; 0 if there is none.
LatestCheckpoint(u) == Maximum({0} \cup {c.id : c \in {d \in saved : d.open \in {NoOne, u}}})

HasNext(id) == \E c \in saved : c.id = id /\ c.next

InflightRuns == {r \in StateRuns : trun[r].st \in {"pending", "running"}}
Updating == {u \in Updates : update[u].pc \notin {"idle", "done"}}

\* A checkpoint behind base, which leaves the graph at its end or not.
Write(u, base, open) ==
  /\ lastId < MaxCheckpoints /\ lastId' = lastId + 1
  /\ \E next \in BOOLEAN :
       saved' = saved \cup {[id |-> lastId + 1, next |-> next, open |-> open]}
  /\ forked' = (forked \/ base # LatestCheckpoint(u))

(***************************************************************************)
(* Runs, as far as they touch the state                                    *)
(***************************************************************************)
\* Runs.put: the thread is busy and knows its graph.
PutRun(r) ==
  /\ trun[r].st = "new" /\ thread.there
  /\ trun' = [trun EXCEPT ![r].st = "pending"]
  /\ thread' = [thread EXCEPT !.status = "busy", !.graph = TRUE]
  /\ raced' = raced \cup (IF Updating = {} THEN {} ELSE {"run"})
                    \cup (IF \E u \in Updating : update[u].kind = "bulk" THEN {"bulk"} ELSE {})
  /\ UNCHANGED <<runtime, saved, lastId, update, forked>>

\* Runs.next: one running run per thread.
TakeRun(r) ==
  /\ trun[r].st = "pending" /\ \A q \in StateRuns : trun[q].st # "running"
  /\ trun' = [trun EXCEPT ![r] = [st |-> "running", worker |-> TRUE, at |-> LatestCheckpoint(NoOne)]]
  /\ UNCHANGED <<runtime, thread, saved, lastId, update, forked, raced>>

RunWrites(r) ==
  /\ trun[r].worker
  /\ Write(NoOne, trun[r].at, NoOne)
  /\ trun' = [trun EXCEPT ![r].at = lastId + 1]
  /\ UNCHANGED <<runtime, thread, update, raced>>

\* Runs.cancel marks the record of a running run, whose worker goes on.
InterruptRun(r) ==
  /\ trun[r].st = "running"
  /\ trun' = [trun EXCEPT ![r].st = "interrupted"]
  /\ raced' = raced \cup {"late"}
  /\ UNCHANGED <<runtime, thread, saved, lastId, update, forked>>

\* Threads.set_joint_status, with the last checkpoint the worker was told of.
FinishStateRun(r) ==
  /\ trun[r].worker
  /\ trun' = [trun EXCEPT ![r] = [st |-> IF @.st = "gone" THEN "gone" ELSE "success", worker |-> FALSE, at |-> 0]]
  /\ thread' = IF ~thread.there \/ trun[r].st = "gone" THEN thread
               ELSE [thread EXCEPT !.status = IF InflightRuns \ {r} # {} THEN "busy"
                                              ELSE IF HasNext(trun[r].at) THEN "interrupted" ELSE "idle",
                                   !.shown = trun[r].at]
  /\ UNCHANGED <<runtime, saved, lastId, update, forked, raced>>

(***************************************************************************)
(* Threads.State.post and bulk, in-memory                                  *)
(***************************************************************************)
\* The thread must have no in-flight runs and know its graph, by its metadata or by a run.
PostAllowed == InflightRuns = {} /\ (thread.graph \/ \E r \in StateRuns : trun[r].st \notin {"new", "gone"})

BeginUpdate(u, kind) ==
  /\ update' = [update EXCEPT ![u] = [NoUpdate EXCEPT !.pc = "prefetch", !.kind = kind, !.base = LatestCheckpoint(u)]]
  /\ raced' = raced \cup (IF Updating = {} THEN {} ELSE {"overlap"})
                    \cup (IF kind = "bulk" /\ InflightRuns # {} THEN {"bulk"} ELSE {})
  /\ UNCHANGED <<runtime, thread, saved, lastId, trun, forked>>

BeginPost(u) ==
  /\ runtime = "inmem" /\ update[u].pc = "idle" /\ thread.there /\ PostAllowed
  /\ BeginUpdate(u, "post")

\* A bulk update is not refused when there are in-flight runs.
BeginBulk(u) ==
  /\ runtime = "inmem" /\ update[u].pc = "idle" /\ thread.there /\ thread.graph
  /\ BeginUpdate(u, "bulk")

\* The latest checkpoint is fetched; the graph uses this one.
Prefetch(u) ==
  /\ runtime = "inmem" /\ update[u].pc = "prefetch"
  /\ update' = [update EXCEPT ![u].base = LatestCheckpoint(u), ![u].pc = "update"]
  /\ UNCHANGED <<runtime, thread, saved, lastId, trun, forked, raced>>

\* graph.aupdate_state or abulk_update_state; the latter reads the checkpoint itself.
UpdateState(u) ==
  /\ runtime = "inmem" /\ update[u].pc = "update"
  /\ Write(u, IF update[u].kind = "post" THEN update[u].base ELSE LatestCheckpoint(u), NoOne)
  /\ update' = [update EXCEPT ![u].pc = "read"]
  /\ UNCHANGED <<runtime, thread, trun, raced>>

\* Threads.State.get, which finds the thread or fails.
GetState(u) ==
  /\ runtime = "inmem" /\ update[u].pc = "read"
  /\ update' = [update EXCEPT ![u] = IF thread.there THEN [@ EXCEPT !.read = LatestCheckpoint(u), !.pc = "set"] ELSE Done]
  /\ UNCHANGED <<runtime, thread, saved, lastId, trun, forked, raced>>

\* Threads.set_status.
StatusFrom(id) ==
  IF InflightRuns # {} THEN "busy" ELSE IF HasNext(id) THEN "interrupted" ELSE "idle"

SetStatus(u) ==
  /\ runtime = "inmem" /\ update[u].pc = "set"
  /\ thread' = IF thread.there
               THEN [thread EXCEPT !.status = StatusFrom(update[u].read), !.shown = update[u].read]
               ELSE thread
  /\ update' = [update EXCEPT ![u] = Done]
  /\ UNCHANGED <<runtime, saved, lastId, trun, forked, raced>>

(***************************************************************************)
(* The same behind gRPC                                                    *)
(***************************************************************************)
\* The thread, the checkpoint, the graph's id and the number of in-flight runs are
\* asked for at once: the checkpoint may be read before or after the count.
GrpcBeginPost(u) ==
  /\ runtime = "grpc" /\ update[u].pc = "idle" /\ thread.there /\ PostAllowed
  /\ BeginUpdate(u, "post")

GrpcBeginBulk(u) ==
  /\ runtime = "grpc" /\ update[u].pc = "idle" /\ thread.there
  /\ thread.graph \/ \E r \in StateRuns : trun[r].st \notin {"new", "gone"}
  /\ BeginUpdate(u, "bulk")

GrpcGather(u) ==
  /\ runtime = "grpc" /\ update[u].pc = "prefetch"
  /\ \E base \in {update[u].base, LatestCheckpoint(u)} :
       update' = [update EXCEPT ![u].base = base, ![u].pc = "update"]
  /\ UNCHANGED <<runtime, thread, saved, lastId, trun, forked, raced>>

\* The checkpoint is written in a transaction.
GrpcUpdateState(u) ==
  /\ runtime = "grpc" /\ update[u].pc = "update"
  /\ Write(u, IF update[u].kind = "post" THEN update[u].base ELSE LatestCheckpoint(u), u)
  /\ update' = [update EXCEPT ![u].pc = "read"]
  /\ UNCHANGED <<runtime, thread, trun, raced>>

RollbackUpdate(u) == {c \in saved : c.open # u}
CommitSaved(u) == {IF c.open = u THEN [c EXCEPT !.open = NoOne] ELSE c : c \in saved}

GrpcGetState(u) ==
  /\ runtime = "grpc" /\ update[u].pc = "read"
  /\ IF thread.there
     THEN update' = [update EXCEPT ![u].read = LatestCheckpoint(u), ![u].pc = "set"] /\ UNCHANGED saved
     ELSE update' = [update EXCEPT ![u] = Done] /\ saved' = RollbackUpdate(u)
  /\ UNCHANGED <<runtime, thread, lastId, trun, forked, raced>>

\* Mutant of ExpectedFound: any status will do.
ExpectedAny(u) == thread.there

\* A post names the statuses it expects to find; Core refuses when the thread is busy.
ExpectedFound(u) == thread.there /\ (update[u].kind = "post" => thread.status # "busy")

\* Core writes the status; then the transaction ends.
GrpcSetStatus(u) ==
  /\ runtime = "grpc" /\ update[u].pc = "set"
  /\ IF ExpectedFound(u)
     THEN /\ thread' = [thread EXCEPT !.status = StatusFrom(update[u].read), !.shown = update[u].read]
          /\ saved' = CommitSaved(u)
     ELSE saved' = RollbackUpdate(u) /\ UNCHANGED thread
  /\ update' = [update EXCEPT ![u] = Done]
  /\ UNCHANGED <<runtime, lastId, trun, forked, raced>>

(***************************************************************************)
(* The thread goes and comes back                                          *)
(***************************************************************************)
\* The checkpoints go with the thread; workers are not stopped.  Bound: once.
DropThread ==
  /\ thread.there /\ "drop" \notin raced
  /\ thread' = [there |-> FALSE, status |-> "idle", shown |-> 0, graph |-> FALSE]
  /\ trun' = [r \in StateRuns |-> IF trun[r].st = "new" THEN trun[r] ELSE [trun[r] EXCEPT !.st = "gone"]]
  /\ saved' = {c \in saved : c.open # NoOne}
  /\ raced' = raced \cup {"drop"}
  /\ UNCHANGED <<runtime, lastId, update, forked>>

\* A request creates the thread again, under the same id.
MakeThread ==
  /\ ~thread.there
  /\ thread' = [thread EXCEPT !.there = TRUE]
  /\ UNCHANGED <<runtime, saved, lastId, trun, update, forked, raced>>

ThreadStateNext ==
  \/ \E r \in StateRuns : PutRun(r) \/ TakeRun(r) \/ RunWrites(r) \/ InterruptRun(r) \/ FinishStateRun(r)
  \/ \E u \in Updates : \/ BeginPost(u) \/ BeginBulk(u) \/ Prefetch(u) \/ UpdateState(u) \/ GetState(u) \/ SetStatus(u)
                        \/ GrpcBeginPost(u) \/ GrpcBeginBulk(u) \/ GrpcGather(u) \/ GrpcUpdateState(u)
                        \/ GrpcGetState(u) \/ GrpcSetStatus(u)
  \/ DropThread \/ MakeThread

ThreadStateSpec == ThreadStateInit /\ [][ThreadStateNext]_stVars

(***************************************************************************)
(* Properties                                                              *)
(***************************************************************************)
\* The type of the thread and its checkpoints.
ThreadStateTypeOK ==
  /\ thread.status \in {"idle", "busy", "interrupted"} /\ thread.shown \in 0..MaxCheckpoints
  /\ \A c \in saved : c.id \in 1..lastId

\* A thread with an in-flight run says that it is busy, whenever the requests that
\* update its state write the status.
UpdatesKeepBusy == (thread.there /\ InflightRuns # {}) => thread.status = "busy"

\* The history of a thread grows at its end only, as long as no run is created while
\* an update is under way, updates do not overlap and no cancelled run is still being
\* executed: then nobody's progress is lost behind a checkpoint written beside it.
HistoryLinear == raced = {} => ~forked

\* Behind gRPC a run goes on from the newest checkpoint: an update that was allowed
\* before the run was created is refused in the end, for the thread is busy, and
\* leaves no checkpoint.  Bulk updates name no status they expect, and a cancelled
\* run's worker or one of a dropped thread goes on writing.
RunUndisturbed ==
  (runtime = "grpc" /\ raced \cap {"bulk", "late", "drop"} = {}) =>
     \A r \in StateRuns : trun[r].st = "running" => trun[r].at = LatestCheckpoint(NoOne)
=============================================================================
