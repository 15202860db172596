------------------------------ MODULE A2ATasks ------------------------------
(***************************************************************************)
(* The A2A endpoint of an assistant: agents that send messages to one      *)
(* context (a thread), ask for tasks (its runs) and cancel them.  Every    *)
(* handler is a client of the server's own API, so that each call it makes *)
(* is a step of its own, between which workers and other agents act.       *)
(*                                                                         *)
(* A task is named by the run of the message that opened it; a message     *)
(* that continues a task makes a new run and keeps the name.  The runs of  *)
(* the context are numbered in the order of their creation.                *)
(***************************************************************************)
EXTENDS Naturals, Sequences, FiniteSets

CONSTANTS
  Agents,     \* clients, each with one request at a time
  NTasks,     \* bound: runs of the context
  MaxAsked    \* bound: requests

ASSUME TasksAssumption == NTasks \in Nat /\ MaxAsked \in Nat

VARIABLES
  trun,       \* the runs: status, and how they ended for the graph
  ctx,        \* status of the thread
  agent,      \* the requests under way
  asked       \* how many there were

taskVars == <<trun, ctx, agent, asked>>

TaskRuns == 1..NTasks
Outcome == {"none", "ok", "pause", "error"}
State == {"SUBMITTED", "WORKING", "INPUT_REQUIRED", "COMPLETED", "FAILED", "CANCELED",
          "NOT_FOUND", "REFUSED", "INTERNAL_ERROR"}

NoAgent == [pc |-> "idle", op |-> "none", task |-> 0, run |-> 0, tries |-> 0,
            resume |-> FALSE, seen |-> "none", read |-> "none", later |-> FALSE,
            answer |-> "none"]

TaskInit ==
  /\ trun = [r \in TaskRuns |-> [st |-> "none", end |-> "none"]]
  /\ ctx = "none"
  /\ agent = [a \in Agents |-> NoAgent]
  /\ asked = 0

Made == {r \in TaskRuns : trun[r].st # "none"}
Active == {r \in TaskRuns : trun[r].st \in {"pending", "running"}}
Over == {r \in TaskRuns : trun[r].st \in {"success", "error", "interrupted"}}

(***************************************************************************)
(* Workers                                                                 *)
(***************************************************************************)
\* The oldest pending run, when none is running.
StartTaskRun(r) ==
  /\ trun[r].st = "pending"
  /\ \A q \in TaskRuns : trun[q].st # "running" /\ (q < r => trun[q].st # "pending")
  /\ trun' = [trun EXCEPT ![r].st = "running"]
  /\ UNCHANGED <<ctx, agent, asked>>

\* set_joint_status: the thread is busy as long as another run is in flight.
ContextAfter(r, end) ==
  IF Active \ {r} # {} THEN "busy"
  ELSE CASE end = "ok" -> "idle" [] end = "pause" -> "interrupted" [] end = "error" -> "error"

\* Who streams a run or has joined it hears of its end.  (History: whether a run of the
\* context is made or ends after one's own.)
Heard(r, end) ==
  [a \in Agents |->
     IF agent[a].run = r /\ agent[a].pc = "joined" THEN [agent[a] EXCEPT !.seen = end]
     ELSE IF agent[a].run \in Over THEN [agent[a] EXCEPT !.later = TRUE]
     ELSE agent[a]]

\* The last output of a run and its end reach those who stream or have joined it;
\* a run may come to its end before it hears that it was canceled.
FinishTaskRun(r, end) ==
  /\ trun[r].st \in {"running", "cancelling"}
  /\ trun' = [trun EXCEPT ![r] = [st |-> IF end = "error" THEN "error" ELSE "success", end |-> end]]
  /\ ctx' = ContextAfter(r, end)
  /\ agent' = Heard(r, end)
  /\ UNCHANGED asked

\* A run that was interrupted from the outside ends without an error event.
StopTaskRun(r) ==
  /\ trun[r].st = "cancelling"
  /\ trun' = [trun EXCEPT ![r] = [st |-> "interrupted", end |-> "ok"]]
  /\ ctx' = ContextAfter(r, "ok")
  /\ agent' = Heard(r, "ok")
  /\ UNCHANGED asked

(***************************************************************************)
(* message/send and message/stream                                         *)
(***************************************************************************)
Become(a, rec) == agent' = [agent EXCEPT ![a] = rec]
Answer(a, state) == Become(a, [agent[a] EXCEPT !.pc = "answered", !.answer = state])

\* A message opens a task (0) or continues one.
SendMessage(a, op, task) ==
  /\ agent[a].pc = "idle" /\ asked < MaxAsked /\ op \in {"send", "stream"}
  /\ (task # 0) => (task \in Made)
  /\ asked' = asked + 1
  /\ Become(a, [NoAgent EXCEPT !.pc = "check", !.op = op, !.task = task, !.tries = 3])
  /\ UNCHANGED <<trun, ctx>>

\* _is_thread_interrupted: the thread is looked at up to three times; a new
\* context is not looked at, or not found.
CheckInterrupted(a) ==
  /\ agent[a].pc = "check"
  /\ IF ctx = "interrupted"
     THEN IF agent[a].task = 0 THEN Answer(a, "REFUSED")
          ELSE Become(a, [agent[a] EXCEPT !.pc = "create", !.resume = TRUE])
     ELSE IF ctx # "none" /\ agent[a].tries > 1
     THEN Become(a, [agent[a] EXCEPT !.tries = @ - 1])
     ELSE Become(a, [agent[a] EXCEPT !.pc = "create"])
  /\ UNCHANGED <<trun, ctx, asked>>

\* runs.create, or runs.stream, which subscribes as it creates the run.
CreateTaskRun(a) ==
  /\ agent[a].pc = "create"
  /\ \E r \in TaskRuns :
        /\ r = Cardinality(Made) + 1
        /\ trun' = [trun EXCEPT ![r].st = "pending"]
        /\ agent' = [b \in Agents |->
             IF b = a
             THEN [agent[a] EXCEPT !.run = r,
                                   !.task = IF @ = 0 THEN r ELSE @,
                                   !.pc = IF agent[a].op = "stream" THEN "joined" ELSE "join"]
             ELSE [agent[b] EXCEPT !.later = @ \/ agent[b].run # 0]]
  /\ ctx' = "busy"
  /\ UNCHANGED asked

\* runs.join subscribes; the messages of a run that is over are gone.
JoinTaskRun(a) ==
  /\ agent[a].pc = "join"
  /\ Become(a, [agent[a] EXCEPT !.pc = "joined"])
  /\ UNCHANGED <<trun, ctx, asked>>

\* _create_task_response, and the final status of handle_message_stream.
ResultState(seen) ==
  CASE seen = "error" -> "FAILED" [] seen = "pause" -> "INPUT_REQUIRED" [] seen = "ok" -> "COMPLETED"

\* Mutant of ThreadFallback: the values, whatever the thread's status is.
ThreadFallbackValues(status) == "ok"

\* _thread_values_fallback: what the thread says now.
ThreadFallback(status) ==
  CASE status = "error" -> "error" [] status = "interrupted" -> "pause" [] OTHER -> "ok"

\* The run is over: the answer is made of what was received, or of the thread.
FinishMessage(a) ==
  /\ agent[a].pc = "joined"
  /\ trun[agent[a].run].st \notin {"pending", "running", "cancelling"}
  /\ Answer(a, ResultState(IF agent[a].seen # "none" THEN agent[a].seen
                           ELSE IF agent[a].op = "stream" THEN "ok"
                           ELSE ThreadFallback(ctx)))
  /\ UNCHANGED <<trun, ctx, asked>>

(***************************************************************************)
(* tasks/get, tasks/list and tasks/cancel                                  *)
(***************************************************************************)
AskTask(a, op, task) ==
  /\ agent[a].pc = "idle" /\ asked < MaxAsked /\ op \in {"get", "list", "cancel"}
  /\ asked' = asked + 1
  /\ Become(a, [NoAgent EXCEPT !.pc = "read", !.op = op, !.task = task])
  /\ UNCHANGED <<trun, ctx>>

\* runs.get, the first half of the gather in tasks/get.
ReadTaskRun(a) ==
  /\ agent[a].pc = "read"
  /\ IF trun[agent[a].task].st = "none" THEN Answer(a, "NOT_FOUND")
     ELSE Become(a, [agent[a] EXCEPT !.pc = "decide",
                                     !.read = IF trun[agent[a].task].st = "cancelling" THEN "interrupted"
                                              ELSE trun[agent[a].task].st])
  /\ UNCHANGED <<trun, ctx, asked>>

StateOf(status) ==
  CASE status = "pending" -> "SUBMITTED" [] status = "running" -> "WORKING"
    [] status = "success" -> "COMPLETED" [] status = "interrupted" -> "INPUT_REQUIRED"
    [] status = "error" -> "FAILED"

\* handle_tasks_get: a success counts as interrupted when the thread is now.
AnswerGet(a) ==
  /\ agent[a].pc = "decide" /\ agent[a].op = "get"
  /\ Answer(a, IF agent[a].read = "success" /\ ctx = "interrupted" THEN "INPUT_REQUIRED"
               ELSE StateOf(agent[a].read))
  /\ UNCHANGED <<trun, ctx, asked>>

\* handle_list_tasks knows the status of the run only.
AnswerList(a) ==
  /\ agent[a].pc = "decide" /\ agent[a].op = "list"
  /\ Answer(a, StateOf(agent[a].read))
  /\ UNCHANGED <<trun, ctx, asked>>

\* handle_tasks_cancel: a task that is over counts as canceled ...
CancelOver(a) ==
  /\ agent[a].pc = "decide" /\ agent[a].op = "cancel"
  /\ agent[a].read \notin {"pending", "running"}
  /\ Answer(a, "CANCELED")
  /\ UNCHANGED <<trun, ctx, asked>>

\* ... another is canceled with wait, unless it ended meanwhile, which is a 404.
CancelTask(a) ==
  /\ agent[a].pc = "decide" /\ agent[a].op = "cancel"
  /\ agent[a].read \in {"pending", "running"}
  /\ LET r == agent[a].task IN
     \/ /\ trun[r].st = "pending"
        /\ trun' = [trun EXCEPT ![r] = [st |-> "interrupted", end |-> "ok"]]
        /\ ctx' = "idle"
        /\ agent' = [agent EXCEPT ![a].pc = "canceling", ![a].run = r]
     \/ /\ trun[r].st = "running"
        /\ trun' = [trun EXCEPT ![r].st = "cancelling"]
        /\ ctx' = ctx
        /\ agent' = [agent EXCEPT ![a].pc = "canceling", ![a].run = r]
     \/ /\ trun[r].st \notin {"pending", "running"}
        /\ Answer(a, "INTERNAL_ERROR")
        /\ UNCHANGED <<trun, ctx>>
  /\ UNCHANGED asked

\* The wait ends with the run, however it ended.
AnswerCancel(a) ==
  /\ agent[a].pc = "canceling" /\ trun[agent[a].run].st # "cancelling"
  /\ Answer(a, "CANCELED")
  /\ UNCHANGED <<trun, ctx, asked>>

\* The agent takes its answer and may go on.
TakeAnswer(a) ==
  /\ agent[a].pc = "answered" /\ asked < MaxAsked
  /\ Become(a, NoAgent)
  /\ UNCHANGED <<trun, ctx, asked>>

WorkerStep ==
  \E r \in TaskRuns : \/ StartTaskRun(r) \/ StopTaskRun(r)
                      \/ \E end \in {"ok", "pause", "error"} : FinishTaskRun(r, end)

HandlerStep(a) ==
  \/ CheckInterrupted(a) \/ CreateTaskRun(a) \/ JoinTaskRun(a) \/ FinishMessage(a)
  \/ ReadTaskRun(a) \/ AnswerGet(a) \/ AnswerList(a) \/ CancelOver(a) \/ CancelTask(a)
  \/ AnswerCancel(a)

TaskNext ==
  \/ WorkerStep
  \/ \E a \in Agents :
        \/ HandlerStep(a) \/ TakeAnswer(a)
        \/ \E task \in 0..NTasks : SendMessage(a, "send", task) \/ SendMessage(a, "stream", task)
        \/ \E op \in {"get", "list", "cancel"}, task \in TaskRuns : AskTask(a, op, task)

\* Workers and handlers go on.
TaskSpec ==
  /\ TaskInit /\ [][TaskNext]_taskVars
  /\ WF_taskVars(WorkerStep) /\ \A a \in Agents : WF_taskVars(HandlerStep(a))

(***************************************************************************)
(* Properties                                                              *)
(***************************************************************************)
\* The type of the state of a context.
TaskTypeOK ==
  /\ trun \in [TaskRuns -> [st : {"none", "pending", "running", "cancelling", "success", "error",
                                  "interrupted"}, end : Outcome]]
  /\ ctx \in {"none", "idle", "busy", "interrupted", "error"}
  /\ \A a \in Agents : /\ agent[a].answer \in State \cup {"none"}
                       /\ agent[a].run \in 0..NTasks /\ agent[a].task \in 0..NTasks

\* The answer to a message is the outcome of the run made for it: a failed run is
\* not reported as completed, nor a paused one, unless the request joined the run
\* when it was over and another run of the context was made or ended in between.
AnswerIsOutcome ==
  \A a \in Agents :
     (agent[a].pc = "answered" /\ agent[a].op \in {"send", "stream"} /\ agent[a].run # 0
        /\ (agent[a].op = "send" => ~agent[a].later))
       => agent[a].answer = ResultState(trun[agent[a].run].end)

\* Every request is answered, also one whose run was canceled by another agent.
RequestsAnswered ==
  \A a \in Agents : (agent[a].pc \notin {"idle", "answered", "create"}) ~> (agent[a].pc \in {"answered", "create"})

=============================================================================
