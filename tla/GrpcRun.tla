------------------------------ MODULE GrpcRun ------------------------------
(***************************************************************************)
(* The execution of one run by worker processes that reach the store only  *)
(* through the Core server (gRPC): what the graph streams and how it is    *)
(* published, the listener for control signals, the outcome that is        *)
(* reported, and attempts that are repeated.  The Core server is external: *)
(* it hands the run out, keeps its status as it is told, passes on         *)
(* cancellations and hands a run out again that nobody keeps alive.        *)
(*                                                                         *)
(* Every call to Core may fail, with or without having been carried out,   *)
(* a signal stream may break or just end, a process may die.               *)
(***************************************************************************)
EXTENDS Naturals, Sequences, FiniteSets

CONSTANTS
  Processes,      \* worker processes
  Jobs,           \* what the graph may stream, a sequence of chunk modes; the stream
                  \* modes its client asked for; publishing in a task of its own or
                  \* inline; version of the stream protocol: [plan, modes, async, v2]
  MaxRetries,     \* BG_JOB_MAX_RETRIES
  QueueSize,      \* LSD_PUBLISH_QUEUE_SIZE
  MaxFaults       \* bound: failures of calls, streams and processes

ASSUME GrpcRunAssumption ==
  /\ \A j \in Jobs : j.plan \in Seq(STRING) /\ j.async \in BOOLEAN /\ j.v2 \in BOOLEAN
  /\ QueueSize \in Nat \ {0} /\ MaxRetries \in Nat /\ MaxFaults \in Nat

VARIABLES
  job,            \* the run's graph and its options, fixed when it is created
  core,           \* the run at the Core server
  ckpt,           \* chunks of the graph that are checkpointed
  heard,          \* chunks that reached the client, by event name
  proc,           \* the worker processes
  faults,
  cutShort        \* history: an attempt ended because a publish had failed for good

grVars == <<job, core, ckpt, heard, proc, faults, cutShort>>

NoProc == [pc |-> "idle", attempt |-> 0, at |-> 0, signal |-> "none", exc |-> "none",
           listening |-> FALSE, queue |-> <<>>]

\* Two ways to publish (FF_ASYNC_PUBLISH_QUEUE); "v2" is a run of the event streaming API.
GrpcRunInit ==
  /\ job \in Jobs
  /\ core = [st |-> "pending", attempt |-> 0, beat |-> {}, cancel |-> "none", ended |-> FALSE]
  /\ ckpt = 0 /\ heard = {} /\ faults = 0 /\ cutShort = FALSE
  /\ proc = [w \in Processes |-> NoProc]

Final == {"success", "error", "timeout", "interrupted", "gone"}
Retriable == {"retry", "cancelled"}

(***************************************************************************)
(* Core: external                                                          *)
(***************************************************************************)
\* The run is handed out, with the number of the attempt.
NextRun(w) ==
  /\ proc[w].pc = "idle" /\ core.st = "pending"
  /\ core' = [core EXCEPT !.st = "running", !.attempt = @ + 1]
  /\ proc' = [proc EXCEPT ![w] = [NoProc EXCEPT !.pc = "enter", !.attempt = core.attempt + 1]]
  /\ UNCHANGED <<job, ckpt, heard, faults, cutShort>>

RequestCancel(action) ==
  /\ core.st \in {"pending", "running"} /\ core.cancel = "none"
  /\ core' = IF core.st = "pending"
             THEN [core EXCEPT !.st = IF action = "rollback" THEN "gone" ELSE "interrupted"]
             ELSE [core EXCEPT !.cancel = action]
  /\ UNCHANGED <<job, ckpt, heard, proc, faults, cutShort>>

\* A running run without a heartbeat is queued again.
Sweep ==
  /\ core.st = "running" /\ core.beat = {} /\ \A w \in Processes : proc[w].pc # "enter"
  /\ core' = [core EXCEPT !.st = "pending"]
  /\ UNCHANGED <<job, ckpt, heard, proc, faults, cutShort>>

(***************************************************************************)
(* Runs.enter and its listener                                             *)
(***************************************************************************)
\* The stream that carries the heartbeat and the signals is open: the graph is built
\* and started from its last checkpoint.
StartGraph(p) == [p EXCEPT !.pc = "exec", !.at = ckpt, !.listening = TRUE]

\* The stream that carries the heartbeat and the signals is opened; a run that was
\* handed out too often fails at once, another one starts where it was checkpointed.
Enter(w) ==
  /\ proc[w].pc = "enter"
  /\ core' = [core EXCEPT !.beat = @ \cup {w}]
  /\ proc' = [proc EXCEPT ![w] =
       IF proc[w].attempt > MaxRetries
       THEN [@ EXCEPT !.pc = "settle", !.exc = "error", !.listening = TRUE]
       ELSE StartGraph(@)]
  /\ UNCHANGED <<job, ckpt, heard, faults, cutShort>>

\* ValueEvent.set: the first value stays.
SetDone(p, value) == [p EXCEPT !.signal = IF @ = "none" THEN value ELSE @, !.listening = FALSE]

HearSignal(w) ==
  /\ proc[w].listening /\ core.cancel # "none"
  /\ proc' = [proc EXCEPT ![w] = SetDone(@, core.cancel)]
  /\ UNCHANGED <<job, core, ckpt, heard, faults, cutShort>>

\* The stream breaks: the attempt is to be repeated.
StreamBreaks(w) ==
  /\ proc[w].listening /\ faults < MaxFaults /\ faults' = faults + 1
  /\ proc' = [proc EXCEPT ![w] = SetDone(@, "retry")]
  /\ core' = [core EXCEPT !.beat = @ \ {w}]
  /\ UNCHANGED <<job, ckpt, heard, cutShort>>

\* The stream ends without an error: nobody listens any more, and nothing is said.
StreamCloses(w) ==
  /\ proc[w].listening /\ faults < MaxFaults /\ faults' = faults + 1
  /\ proc' = [proc EXCEPT ![w].listening = FALSE]
  /\ core' = [core EXCEPT !.beat = @ \ {w}]
  /\ UNCHANGED <<job, ckpt, heard, cutShort>>

(***************************************************************************)
(* astream_state                                                           *)
(***************************************************************************)
\* The graph is also asked for debug chunks, and for updates when the client did
\* not ask for them, because they tell of interrupts.
ModesSet ==
  ((job.modes \ {"events", "messages-tuple"})
     \cup (IF "messages-tuple" \in job.modes THEN {"messages"} ELSE {}))
  \cup {"debug", "updates"}

OnlyInterruptUpdates == "updates" \notin job.modes

\* What a chunk of astream or astream_events becomes on the way to the client.  A
\* "pause" is an updates chunk that holds an interrupt.
SharedNames(mode) ==
  CASE mode = "messages" ->
         (IF job.v2 THEN {}
          ELSE IF "messages-tuple" \in job.modes THEN {"messages"}
          ELSE {"messages/metadata", "messages/partial"})
    [] mode = "pause" ->
         (IF "updates" \in job.modes \/ (job.v2 /\ "updates" \in ModesSet) THEN {"updates"}
          ELSE IF OnlyInterruptUpdates THEN {"values"} ELSE {})
    [] OTHER ->
         (IF mode \in job.modes \/ (job.v2 /\ mode \in ModesSet) THEN {mode} ELSE {})

\* normalize_protocol_event: messages of the old shape are dropped, the rest is passed on.
ProtocolNames(mode) ==
  CASE mode = "messages" -> {} [] mode = "pause" -> {"updates"} [] OTHER -> {mode}

\* A v2 run uses the native protocol, unless raw events were asked for.
Forwarded(mode) == IF job.v2 /\ "events" \notin job.modes THEN ProtocolNames(mode) ELSE SharedNames(mode)

\* wait_if_not_done(anext(stream), done): the next chunk, unless the event is set.
NextChunk(w) ==
  /\ proc[w].pc = "exec" /\ proc[w].signal = "none" /\ proc[w].at < Len(job.plan)
  /\ job.plan[proc[w].at + 1] \in ModesSet \cup {"pause"}
  /\ LET n == proc[w].at + 1
         events == {<<n, e>> : e \in Forwarded(job.plan[n])}
     IN  /\ ckpt' = IF n > ckpt THEN n ELSE ckpt
         /\ IF events = {}
            THEN proc' = [proc EXCEPT ![w].at = n]
            ELSE IF job.async
            THEN /\ Len(proc[w].queue) < QueueSize
                 /\ proc' = [proc EXCEPT ![w].at = n, ![w].queue = Append(@, events)]
            ELSE proc' = [proc EXCEPT ![w].at = n, ![w].queue = <<events>>, ![w].pc = "publish"]
  /\ UNCHANGED <<job, core, heard, faults, cutShort>>

\* A chunk of a mode nobody asked the graph for is not produced.
SkipChunk(w) ==
  /\ proc[w].pc = "exec" /\ proc[w].signal = "none" /\ proc[w].at < Len(job.plan)
  /\ job.plan[proc[w].at + 1] \notin ModesSet \cup {"pause"}
  /\ proc' = [proc EXCEPT ![w].at = @ + 1]
  /\ ckpt' = IF proc[w].at + 1 > ckpt THEN proc[w].at + 1 ELSE ckpt
  /\ UNCHANGED <<job, core, heard, faults, cutShort>>

\* Mutant of GraphEnds: an attempt that was told to stop ends like one that is through.
GraphEndsAnyhow(w) ==
  /\ proc[w].pc = "exec" /\ (proc[w].signal # "none" \/ proc[w].at = Len(job.plan))
  /\ proc' = [proc EXCEPT ![w].pc = "drain"]
  /\ UNCHANGED <<job, core, ckpt, heard, faults, cutShort>>

GraphEnds(w) ==
  /\ proc[w].pc = "exec" /\ proc[w].signal = "none" /\ proc[w].at = Len(job.plan)
  /\ proc' = [proc EXCEPT ![w].pc = "drain"]
  /\ UNCHANGED <<job, core, ckpt, heard, faults, cutShort>>

\* The event was set: its value is raised.
Aborted(w) ==
  /\ proc[w].pc = "exec" /\ proc[w].signal # "none"
  /\ proc' = [proc EXCEPT ![w].pc = "tellError", ![w].exc = proc[w].signal]
  /\ UNCHANGED <<job, core, ckpt, heard, faults, cutShort>>

\* The graph fails, for good or with an exception worth a retry, or the attempt is
\* cancelled from outside (a timeout, the process being shut down).
GraphRaises(w, exc) ==
  /\ proc[w].pc = "exec" \/ (proc[w].pc = "publish" /\ exc \in {"timeout", "cancelled"})
  /\ faults < MaxFaults /\ faults' = faults + 1
  /\ proc' = [proc EXCEPT ![w].exc = exc,
                          ![w].queue = IF job.async THEN @ ELSE <<>>,
                          ![w].pc = IF exc \in {"timeout", "cancelled"} THEN "drain" ELSE "tellError"]
  /\ UNCHANGED <<job, core, ckpt, heard, cutShort>>

(***************************************************************************)
(* consume and Runs.Stream.publish                                         *)
(***************************************************************************)
\* The head of what is to be published: the inline event, or the publisher task's.
Publishing(w) == proc[w].queue # <<>>
AfterPublish(p) == [p EXCEPT !.queue = Tail(@), !.pc = IF @ = "publish" THEN "exec" ELSE @]

Publish(w) ==
  /\ Publishing(w)
  /\ heard' = heard \cup Head(proc[w].queue)
  /\ proc' = [proc EXCEPT ![w] = AfterPublish(@)]
  /\ UNCHANGED <<job, core, ckpt, faults, cutShort>>

\* A retriable failure, after Core has or has not published the event: once more.
PublishAgain(w) ==
  /\ Publishing(w) /\ faults < MaxFaults /\ faults' = faults + 1
  /\ heard' = heard \cup Head(proc[w].queue)
  /\ UNCHANGED <<job, core, ckpt, proc, cutShort>>

\* A failure for good: the publisher task skips the event.  Inline, the exception
\* ends the stream and is swallowed, so that the attempt looks complete.
PublishFails(w) ==
  /\ Publishing(w) /\ faults < MaxFaults /\ faults' = faults + 1
  /\ IF job.async
     THEN proc' = [proc EXCEPT ![w] = AfterPublish(@)] /\ UNCHANGED cutShort
     ELSE /\ proc' = [proc EXCEPT ![w].queue = <<>>, ![w].pc = "settle"]
          /\ cutShort' = TRUE
  /\ UNCHANGED <<job, core, ckpt, heard>>

\* An exception is published as an error event, as well as may be.
TellError(w) ==
  /\ proc[w].pc = "tellError"
  /\ \/ heard' = heard \cup {<<0, "error">>}
     \/ UNCHANGED heard
  /\ proc' = [proc EXCEPT ![w].pc = "drain"]
  /\ UNCHANGED <<job, core, ckpt, faults, cutShort>>

\* The publisher task is awaited.
Drained(w) ==
  /\ proc[w].pc = "drain" /\ proc[w].queue = <<>>
  /\ proc' = [proc EXCEPT ![w].pc = "settle"]
  /\ UNCHANGED <<job, core, ckpt, heard, faults, cutShort>>

(***************************************************************************)
(* The outcome                                                             *)
(***************************************************************************)
StatusFor(exc) ==
  CASE exc = "none" -> "success" [] exc = "error" -> "error" [] exc = "timeout" -> "timeout"
    [] exc = "interrupt" -> "interrupted" [] exc = "rollback" -> "gone"
    [] exc \in Retriable -> "pending"

\* set_joint_status or set_status: Core does as it is told.  A run that is gone is
\* not found, which is an error but for a rollback.
Settle(w) ==
  /\ proc[w].pc = "settle"
  /\ IF core.st = "gone" /\ proc[w].exc # "rollback"
     THEN proc' = [proc EXCEPT ![w].pc = "teardown"] /\ UNCHANGED core
     ELSE /\ core' = [core EXCEPT !.st = StatusFor(proc[w].exc)]
          /\ proc' = [proc EXCEPT ![w].pc = IF proc[w].exc \in Retriable THEN "teardown" ELSE "markDone"]
  /\ UNCHANGED <<job, ckpt, heard, faults, cutShort>>

\* The call fails, as an HTTP exception: enter is left without marking the run.
SettleFails(w) ==
  /\ proc[w].pc = "settle" /\ faults < MaxFaults /\ faults' = faults + 1
  /\ core' \in {core} \cup (IF core.st = "gone" THEN {}
                            ELSE {[core EXCEPT !.st = StatusFor(proc[w].exc)]})
  /\ proc' = [proc EXCEPT ![w].pc = "teardown"]
  /\ UNCHANGED <<job, ckpt, heard, cutShort>>

\* mark_done ends the client's stream; when it fails the worker does.
MarkDone(w) ==
  /\ proc[w].pc = "markDone"
  /\ \/ core' = [core EXCEPT !.ended = TRUE] /\ UNCHANGED faults
     \/ UNCHANGED core /\ faults < MaxFaults /\ faults' = faults + 1
  /\ proc' = [proc EXCEPT ![w].pc = "teardown"]
  /\ UNCHANGED <<job, ckpt, heard, cutShort>>

\* The listener is cancelled and the stream with the heartbeat closed.
Teardown(w) ==
  /\ proc[w].pc = "teardown"
  /\ proc' = [proc EXCEPT ![w] = NoProc]
  /\ core' = [core EXCEPT !.beat = @ \ {w}]
  /\ UNCHANGED <<job, ckpt, heard, faults, cutShort>>

Dies(w) ==
  /\ proc[w].pc # "idle" /\ faults < MaxFaults /\ faults' = faults + 1
  /\ proc' = [proc EXCEPT ![w] = NoProc]
  /\ core' = [core EXCEPT !.beat = @ \ {w}]
  /\ UNCHANGED <<job, ckpt, heard, cutShort>>

ProcStep(w) ==
  \/ NextRun(w) \/ Enter(w) \/ HearSignal(w) \/ NextChunk(w) \/ SkipChunk(w) \/ GraphEnds(w) \/ Aborted(w)
  \/ Publish(w) \/ TellError(w) \/ Drained(w) \/ Settle(w) \/ MarkDone(w) \/ Teardown(w)

ProcFault(w) ==
  \/ StreamBreaks(w) \/ StreamCloses(w) \/ PublishAgain(w) \/ PublishFails(w) \/ SettleFails(w) \/ Dies(w)
  \/ \E exc \in {"error", "retry", "timeout", "cancelled"} : GraphRaises(w, exc)

GrpcRunNext ==
  \/ \E w \in Processes : ProcStep(w) \/ ProcFault(w)
  \/ \E action \in {"interrupt", "rollback"} : RequestCancel(action)
  \/ Sweep

\* Processes go on and Core sweeps.
GrpcRunFairness == (\A w \in Processes : WF_grVars(ProcStep(w))) /\ WF_grVars(Sweep)

GrpcRunSpec == GrpcRunInit /\ [][GrpcRunNext]_grVars /\ GrpcRunFairness

(***************************************************************************)
(* Properties                                                              *)
(***************************************************************************)
\* The type of the run and its processes.
GrpcRunTypeOK ==
  /\ core.st \in Final \cup {"pending", "running"} /\ core.beat \subseteq Processes
  /\ ckpt \in 0..Len(job.plan) /\ faults \in 0..MaxFaults
  /\ \A w \in Processes : /\ Len(proc[w].queue) <= QueueSize
                          /\ proc[w].at \in 0..Len(job.plan)

\* A run is recorded as successful only when its graph came to the end: never
\* because an attempt was aborted, was lost or heard a signal late.  The exception
\* is an inline publish that failed for good, which ends the graph silently.
SuccessIsComplete == core.st = "success" => ckpt = Len(job.plan) \/ cutShort

\* The client of a successful run of which no publish failed was told of its pause,
\* whatever it asked to be streamed.
PauseIsTold ==
  (core.st = "success" /\ core.ended /\ faults = 0) =>
     \A n \in 1..Len(job.plan) : job.plan[n] = "pause" =>
        \E e \in {"updates", "values"} : <<n, e>> \in heard

=============================================================================
