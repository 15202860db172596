---------------------------- MODULE RunLifecycle ----------------------------
(***************************************************************************)
(* The life of a run in the in-memory runtime: the run and thread records  *)
(* of the store (ops.py), the request that creates a run (models/run.py),  *)
(* the scheduler loop with its pool of runners (queue.py), the worker that *)
(* executes an attempt (worker.py) with the task that listens for its      *)
(* cancellation, and the requests that cancel or delete runs and threads.  *)
(*                                                                         *)
(* A run id is a fresh UUID, so Run is the pool of ids a behaviour may use *)
(* and ThreadOf fixes the thread each id is created on.  Step boundaries   *)
(* are the awaits of the code that can suspend, for a server with the      *)
(* runtime's own checkpointer.  Of the suspensions that only custom        *)
(* authentication handlers cause, the one between the insertion of a run   *)
(* and the cancellation of the runs it replaces is modelled; two requests  *)
(* that create the same thread at the same time are not.                   *)
(* Definitions whose comment begins with "Mutation" are plausible bugs     *)
(* that the properties are tested against.                                 *)
(***************************************************************************)
EXTENDS Naturals, FiniteSets

CONSTANTS
    Run,               \* run ids
    Thread,            \* thread ids
    Runner,            \* the runners of the pool (N_JOBS_PER_WORKER of them)
    ThreadOf,          \* the thread each run is created on
    Temporary,         \* runs of stateless requests: their thread goes with them
    AssistantRuns,     \* the runs of each assistant, as a set of sets of runs
    Endless,           \* runs whose graph need not end within the horizon
    MaxRetries,        \* BG_JOB_MAX_RETRIES
    MaxOps,            \* bound: Runs.cancel calls suspended at the same time
    Requests,          \* the workload: the kinds of requests clients make
    ListenTimeouts,    \* whether a listener can sit idle for 240 s
    EarlyFailures      \* whether a worker can fail before it enters its run

\* The thread of a run and the switches are of the right kind; the run ids and
\* the runners are finitely many.
ASSUME RunLifecycleAssumption ==
    /\ IsFiniteSet(Run)
    /\ IsFiniteSet(Runner)
    /\ ThreadOf \in [Run -> Thread]
    /\ Temporary \subseteq Run
    /\ AssistantRuns \subseteq SUBSET Run
    /\ Endless \subseteq Run
    /\ MaxRetries \in Nat
    /\ MaxOps \in Nat
    /\ {ListenTimeouts, EarlyFailures} \subseteq BOOLEAN

NoRun == "no-run"
ASSUME NoRunAssumption == NoRun \notin Run

VARIABLES
    status,      \* the status of each run record; "new": not created, "deleted": gone
    thread,      \* the status of each thread record; "absent": no record
    created,     \* created_at as a rank, 0 while it lies in the future
    clock,       \* the last rank given
    attempt,     \* retry_counter
    controlKey,  \* StreamManager.control_keys
    ops,         \* Runs.cancel calls in progress
    sched,       \* the limit and the time queue() and Runs.next sleep with
    wpc,         \* where the task on each runner is; "free": the runner is queued
    wrun,        \* the run of the task
    watt,        \* the attempt number it was given, until it is looked at
    wdone,       \* while it executes, the value of its ValueEvent
    wctl,        \* while it executes, the first message of its control queue
    wlisten,     \* while it executes, its listen_for_cancellation task
    wout,        \* the outcome of the execution, until it is settled
    webhooks,    \* how often the webhook of a run was called
    overlooked   \* history: threads that a cancellation or a retry left not busy

storeVars  == <<status, thread, created, clock, attempt, overlooked>>
workerVars == <<wpc, wrun, watt, wdone, wctl, wlisten, wout>>
vars == <<storeVars, controlKey, ops, sched, workerVars, webhooks>>

CancelAction == {"interrupt", "rollback"}
Active       == {"pending", "running"}
Settled      == {"success", "error", "timeout", "interrupted"}
RunStatus    == {"new", "deleted"} \cup Active \cup Settled
ThreadStatus == {"absent", "idle", "busy", "interrupted", "error"}
Outcome      == {"success", "error", "timeout", "retry"} \cup CancelAction
Strategy     == {"reject", "enqueue"} \cup CancelAction

\* A suspended Runs.cancel call: before it selects its runs (a call made by
\* create_valid_run, in its authentication handler), in a log call of its loop, or
\* in its final gather.  todo are the runs the loop has yet to handle, ids all its
\* runs, hit its cancelable_runs so far, del those of them it deletes in the end;
\* the scope says whether the call has a thread_id.
CancelCall == [stage : {"select", "loop", "gather"}, todo : SUBSET Run,
               ids : SUBSET Run, hit : SUBSET Run, del : SUBSET Run,
               action : CancelAction, scope : {"thread", "none"}]
NewCall(stage, runs, action, scope) ==
    [stage |-> stage, todo |-> runs, ids |-> runs, hit |-> {}, del |-> {},
     action |-> action, scope |-> scope]

Exists(r)        == status[r] \notin {"new", "deleted"}
Inflight(t)      == {r \in Run : ThreadOf[r] = t /\ status[r] \in Active}
HasRunning(t)    == \E r \in Run : ThreadOf[r] = t /\ status[r] = "running"
FreeRunners      == {k \in Runner : wpc[k] = "free"}
\* A task that still owns its run: it has not written the run's outcome.
Live(k)          == wpc[k] \in {"starting", "executing", "settling"}

Init ==
    /\ status = [r \in Run |-> "new"]
    /\ thread = [t \in Thread |-> "absent"]
    /\ created = [r \in Run |-> 0]
    /\ clock = 0
    /\ attempt = [r \in Run |-> 0]
    /\ controlKey = [r \in Run |-> "none"]
    /\ ops = {}
    /\ sched = [limit |-> 0, now |-> 0]
    /\ wpc = [k \in Runner |-> "free"]
    /\ wrun = [k \in Runner |-> NoRun]
    /\ watt = [k \in Runner |-> 0]
    /\ wdone = [k \in Runner |-> "none"]
    /\ wctl = [k \in Runner |-> "none"]
    /\ wlisten = [k \in Runner |-> "off"]
    /\ wout = [k \in Runner |-> "none"]
    /\ webhooks = [r \in Run |-> 0]
    /\ overlooked = {}

-----------------------------------------------------------------------------
(***************************************************************************)
(* Requests that create                                                    *)
(***************************************************************************)

\* Threads.put: an explicit request for a thread.
CreateThread(t) ==
    /\ thread[t] = "absent"
    /\ thread' = [thread EXCEPT ![t] = "idle"]
    /\ overlooked' = overlooked \ {t}
    /\ UNCHANGED <<status, created, clock, attempt, controlKey, ops, sched,
                   workerVars, webhooks>>

\* Runs.put up to the check for inflight runs: the thread is created when the
\* request allows it, and is busy from here on, even if the run is then refused.
\* A stateless request makes up a new thread id.
TouchThread(r, ifNotExists) ==
    LET t == ThreadOf[r] IN
    /\ status[r] = "new"
    /\ thread[t] # "absent" \/ ifNotExists = "create" \/ r \in Temporary
    /\ r \in Temporary => /\ thread[t] = "absent"
                          /\ \A q \in Run : ThreadOf[q] = t => status[q] = "new"
    /\ thread' = [thread EXCEPT ![t] = "busy"]
    /\ overlooked' = overlooked \ {t}

\* create_valid_run whose run is inserted.  With after_seconds the run's
\* created_at lies in the future.  For the strategies that replace the inflight
\* runs, the ids of those runs are kept for the Runs.cancel call that follows.
CreateRun(r, strategy, ifNotExists, delayed) ==
    LET inflight == Inflight(ThreadOf[r]) IN
    /\ TouchThread(r, ifNotExists)
    /\ strategy = "reject" => inflight = {}
    /\ status' = [status EXCEPT ![r] = "pending"]
    /\ IF delayed
       THEN UNCHANGED <<created, clock>>
       ELSE /\ created' = [created EXCEPT ![r] = clock + 1]
            /\ clock' = clock + 1
    /\ IF strategy \in CancelAction /\ inflight # {}
       THEN /\ Cardinality(ops) < MaxOps
            /\ ops' = ops \cup {NewCall("select", inflight, strategy, "thread")}
       ELSE UNCHANGED ops
    /\ UNCHANGED <<attempt, controlKey, sched, workerVars, webhooks>>

\* create_valid_run refused with 409: Runs.put returned the inflight runs.
RejectRun(r, ifNotExists) ==
    /\ TouchThread(r, ifNotExists)
    /\ Inflight(ThreadOf[r]) # {}
    /\ UNCHANGED <<status, created, clock, attempt, controlKey, ops, sched,
                   workerVars, webhooks>>

\* The created_at of a run created with after_seconds comes to pass.
BecomeDue(r) ==
    /\ status[r] = "pending"
    /\ created[r] = 0
    /\ created' = [created EXCEPT ![r] = clock + 1]
    /\ clock' = clock + 1
    /\ UNCHANGED <<status, thread, attempt, overlooked, controlKey, ops, sched,
                   workerVars, webhooks>>

-----------------------------------------------------------------------------
(***************************************************************************)
(* The scheduler: queue() and Runs.next                                    *)
(***************************************************************************)

\* The pending runs of the list that Runs.next sorts: their created_at lies before
\* the time it read before its sleep.
Due(now) == {r \in Run : status[r] = "pending" /\ created[r] \in 1..now}

\* Mutation: the size of the pool instead of the number of runners left in it.
PoolSize == Cardinality(Runner)

\* runners.qsize().
QSize == Cardinality(FreeRunners)

\* runners.wait() returns; queue() reads the limit and Runs.next the time, and
\* then sleeps.
SchedWait ==
    /\ sched.limit = 0
    /\ FreeRunners # {}
    /\ sched' = [limit |-> QSize, now |-> clock]
    /\ UNCHANGED <<storeVars, controlKey, ops, workerVars, webhooks>>

\* The first elements of the due runs in the order of created_at.  Blocked runs
\* are not left out: they take their place in the list.
Oldest(limit) ==
    {r \in Due(sched.now) :
        Cardinality({q \in Due(sched.now) : created[q] < created[r]}) < limit}

\* Mutation: the check for a running run on the thread is dropped.
StartableAnyThread(r, list) == thread[ThreadOf[r]] # "absent"

\* What Runs.next requires of a run of its list: the thread is there, and no run
\* of it is running or has been taken from the list before.
Startable(r, list) ==
    /\ thread[ThreadOf[r]] # "absent"
    /\ ~HasRunning(ThreadOf[r])
    /\ \A q \in list : ThreadOf[q] = ThreadOf[r] => created[r] <= created[q]

\* Mutation: the runs are only marked once their workers have begun.
MarkRunningLater(taken) == UNCHANGED status

\* Runs.next takes the runs out of the queue before it yields them.
MarkRunning(taken) ==
    status' = [r \in Run |-> IF r \in taken THEN "running" ELSE status[r]]

\* Runs.next works off its list, without a suspension: every run that can start
\* becomes running, and queue() takes a runner for it and creates its worker.
SchedNext ==
    LET list  == Oldest(sched.limit)
        taken == {r \in list : Startable(r, list)}
    IN  /\ sched.limit # 0
        /\ sched' = [limit |-> 0, now |-> 0]
        /\ MarkRunning(taken)
        /\ attempt' = [r \in Run |-> IF r \in taken THEN attempt[r] + 1
                                     ELSE attempt[r]]
        /\ \E used \in SUBSET FreeRunners : \E runOf \in [used -> taken] :
              /\ \A r \in taken : \E k \in used : runOf[k] = r
              /\ \A k, j \in used : runOf[k] = runOf[j] => k = j
              /\ wpc' = [k \in Runner |-> IF k \in used THEN "starting" ELSE wpc[k]]
              /\ wrun' = [k \in Runner |-> IF k \in used THEN runOf[k] ELSE wrun[k]]
              /\ watt' = [k \in Runner |-> IF k \in used THEN attempt[runOf[k]] + 1
                                           ELSE watt[k]]
        /\ UNCHANGED <<thread, created, clock, overlooked, controlKey, ops, wdone,
                       wctl, wlisten, wout, webhooks>>

-----------------------------------------------------------------------------
(***************************************************************************)
(* The worker                                                              *)
(***************************************************************************)

\* The task ended: cleanup puts the runner back.
FreeRunner(k) ==
    /\ wpc' = [wpc EXCEPT ![k] = "free"]
    /\ wrun' = [wrun EXCEPT ![k] = NoRun]
    /\ watt' = [watt EXCEPT ![k] = 0]
    /\ wdone' = [wdone EXCEPT ![k] = "none"]
    /\ wctl' = [wctl EXCEPT ![k] = "none"]
    /\ wlisten' = [wlisten EXCEPT ![k] = "off"]
    /\ wout' = [wout EXCEPT ![k] = "none"]

\* The worker fails before Runs.enter (decryption, a missing key of kwargs, a
\* cancelled task): nobody writes the run's status.
WorkerFailsEarly(k) ==
    /\ EarlyFailures
    /\ wpc[k] = "starting"
    /\ FreeRunner(k)
    /\ UNCHANGED <<storeVars, controlKey, ops, sched, webhooks>>

\* The limit on the attempts.
ExceedsRetries(k) == watt[k] > MaxRetries

\* Mutation: the stored control key is not looked at.
FirstListenBlind == "waiting"

\* The listener begins with a look at the stored control key.
FirstListen == "unread"

\* Runs.enter: the control queue is registered and the listener is started; an
\* attempt beyond the limit raises at once.
Enter(k) ==
    /\ wpc[k] = "starting"
    /\ watt' = [watt EXCEPT ![k] = 0]
    /\ IF ExceedsRetries(k)
       THEN /\ wpc' = [wpc EXCEPT ![k] = "settling"]
            /\ wout' = [wout EXCEPT ![k] = "error"]
            /\ UNCHANGED wlisten
       ELSE /\ wpc' = [wpc EXCEPT ![k] = "executing"]
            /\ wlisten' = [wlisten EXCEPT ![k] = FirstListen]
            /\ UNCHANGED wout
    /\ UNCHANGED <<wrun, wdone, wctl, storeVars, controlKey, ops,
                   sched, webhooks>>

\* The first step of listen_for_cancellation: a cancellation stored before the
\* control queue existed is found in control_keys.
ListenKey(k) ==
    /\ wpc[k] = "executing"
    /\ wlisten[k] = "unread"
    /\ LET key == controlKey[wrun[k]] IN
       IF key \in CancelAction
       THEN /\ wdone' = [wdone EXCEPT ![k] = key]
            /\ wlisten' = [wlisten EXCEPT ![k] = "stopped"]
       ELSE /\ wlisten' = [wlisten EXCEPT ![k] = "waiting"]
            /\ UNCHANGED wdone
    /\ UNCHANGED <<wpc, wrun, watt, wctl, wout, storeVars, controlKey, ops,
                   sched, webhooks>>

\* The listener gets a message of the control queue.  It stops after the first
\* one, so one place is enough for the queue.
ListenQueue(k) ==
    /\ wpc[k] = "executing"
    /\ wlisten[k] = "waiting"
    /\ wctl[k] # "none"
    /\ wdone' = [wdone EXCEPT ![k] = wctl[k]]
    /\ wctl' = [wctl EXCEPT ![k] = "none"]
    /\ wlisten' = [wlisten EXCEPT ![k] = "stopped"]
    /\ UNCHANGED <<wpc, wrun, watt, wout, storeVars, controlKey, ops, sched,
                   webhooks>>

\* No message for 240 s: the listener breaks out of its loop.
ListenTimeout(k) ==
    /\ ListenTimeouts
    /\ wpc[k] = "executing"
    /\ wlisten[k] = "waiting"
    /\ wctl[k] = "none"
    /\ wlisten' = [wlisten EXCEPT ![k] = "stopped"]
    /\ UNCHANGED <<wpc, wrun, watt, wdone, wctl, wout, storeVars, controlKey,
                   ops, sched, webhooks>>

Execution(k, outcome) ==
    /\ wpc[k] = "executing"
    /\ wpc' = [wpc EXCEPT ![k] = "settling"]
    /\ wout' = [wout EXCEPT ![k] = outcome]
    /\ wdone' = [wdone EXCEPT ![k] = "none"]
    /\ wctl' = [wctl EXCEPT ![k] = "none"]
    /\ wlisten' = [wlisten EXCEPT ![k] = "off"]
    /\ UNCHANGED <<wrun, watt, storeVars, controlKey, ops, sched, webhooks>>

\* The graph ends by itself, or BG_JOB_TIMEOUT_SECS end it.
FinishExecution(k) ==
    \E outcome \in Outcome \ CancelAction : Execution(k, outcome)

\* wait_if_not_done raises the value of the done event.
StopExecution(k) == wdone[k] # "none" /\ Execution(k, wdone[k])

\* Mutation: the other inflight runs of the thread are not looked at.
SetJointStatusAlone(r, newStatus, baseStatus) ==
    /\ status' = [status EXCEPT ![r] = newStatus]
    /\ thread' = [thread EXCEPT ![ThreadOf[r]] = baseStatus]
    /\ overlooked' = overlooked \ {ThreadOf[r]}

\* Threads.set_joint_status for a run and a thread that are both there.
SetJointStatus(r, newStatus, baseStatus) ==
    LET t == ThreadOf[r] IN
    /\ status' = [status EXCEPT ![r] = newStatus]
    /\ thread' = [thread EXCEPT ![t] = IF Inflight(t) \ {r} # {} THEN "busy"
                                       ELSE baseStatus]
    /\ overlooked' = overlooked \ {t}

\* Mutation: the runs of the thread are left.
RemoveThreadOnly(t) ==
    /\ thread' = [thread EXCEPT ![t] = "absent"]
    /\ overlooked' = overlooked \ {t}
    /\ UNCHANGED status

\* Threads.delete for a thread that is there: its runs go with it.
RemoveThread(t) ==
    /\ thread' = [thread EXCEPT ![t] = "absent"]
    /\ status' = [r \in Run |-> IF ThreadOf[r] = t /\ Exists(r) THEN "deleted"
                                ELSE status[r]]
    /\ overlooked' = overlooked \ {t}

\* The worker moves on to the end of its async with block ("leaving"), or an
\* exception takes it out of the block ("raising").
MoveTo(k, pc) ==
    /\ wpc' = [wpc EXCEPT ![k] = pc]
    /\ wout' = [wout EXCEPT ![k] = "none"]
    /\ UNCHANGED <<wrun, watt, wdone, wctl, wlisten>>

\* Mutation: a retry does not look whether the record is still there.
SettleRetryBlind(k) ==
    /\ wout[k] = "retry"
    /\ status' = [status EXCEPT ![wrun[k]] = "pending"]
    /\ MoveTo(k, "raising")
    /\ UNCHANGED <<thread, overlooked>>

\* A retriable exception: the run is queued again, whatever its status is now,
\* and the exception is raised again.
SettleRetry(k) ==
    LET r == wrun[k] IN
    /\ wout[k] = "retry"
    /\ status' = IF Exists(r) THEN [status EXCEPT ![r] = "pending"] ELSE status
    /\ overlooked' = IF Exists(r) /\ thread[ThreadOf[r]] # "busy"
                     THEN overlooked \cup {ThreadOf[r]} ELSE overlooked
    /\ MoveTo(k, "raising")
    /\ UNCHANGED thread

\* Mutation: only a successful stateless run takes its thread with it.
SettleTemporarySuccess(k) ==
    LET t == ThreadOf[wrun[k]] IN
    /\ wout[k] # "retry"
    /\ wrun[k] \in Temporary
    /\ IF wout[k] = "success" /\ thread[t] # "absent"
       THEN RemoveThread(t)
       ELSE UNCHANGED <<status, thread, overlooked>>
    /\ MoveTo(k, "leaving")

\* A stateless run: its thread is deleted; Threads.delete raises 404 when the
\* thread is gone already.
SettleTemporary(k) ==
    LET t == ThreadOf[wrun[k]] IN
    /\ wout[k] # "retry"
    /\ wrun[k] \in Temporary
    /\ \/ /\ thread[t] # "absent"
          /\ RemoveThread(t)
          /\ MoveTo(k, "leaving")
       \/ /\ thread[t] = "absent"
          /\ MoveTo(k, "raising")
          /\ UNCHANGED <<status, thread, overlooked>>

\* Mutation: "rollback" is written as a status instead of deleting the run.
FinalStatusOnly(outcome) == IF outcome = "interrupt" THEN "interrupted" ELSE outcome

\* The status a run ends with; a rolled back run is deleted.
FinalStatus(outcome) == IF outcome = "interrupt" THEN "interrupted"
                        ELSE IF outcome = "rollback" THEN "deleted"
                        ELSE outcome

\* The status set_joint_status gives a thread without inflight runs.  A rolled
\* back run passes no checkpoint.
BaseStatus(outcome) ==
    IF outcome \in {"error", "timeout"} THEN {"error"}
    ELSE IF outcome = "rollback" THEN {"idle"}
    ELSE {"idle", "interrupted"}

\* A stateful run: set_joint_status, whose 404 is caught for a rollback only.
SettleStateful(k) ==
    LET r == wrun[k] IN
    /\ wout[k] # "retry"
    /\ r \notin Temporary
    /\ IF thread[ThreadOf[r]] # "absent" /\ Exists(r)
       THEN /\ \E base \in BaseStatus(wout[k]) :
                  SetJointStatus(r, FinalStatus(wout[k]), base)
            /\ MoveTo(k, "leaving")
       ELSE /\ MoveTo(k, IF wout[k] = "rollback" THEN "leaving" ELSE "raising")
            /\ UNCHANGED <<status, thread, overlooked>>

\* The part of worker() after the execution.
Settle(k) ==
    /\ wpc[k] = "settling"
    /\ SettleRetry(k) \/ SettleTemporary(k) \/ SettleStateful(k)
    /\ UNCHANGED <<created, clock, attempt, controlKey, ops, sched, webhooks>>

\* The end of Runs.enter stores the control message "done" and removes the
\* control queue; cleanup frees the runner and calls the webhook.
Leave(k) ==
    /\ wpc[k] = "leaving"
    /\ controlKey' = [controlKey EXCEPT ![wrun[k]] = "done"]
    /\ webhooks' = [webhooks EXCEPT ![wrun[k]] = @ + 1]
    /\ FreeRunner(k)
    /\ UNCHANGED <<storeVars, ops, sched>>

\* Mutation: the webhook is called for a failed attempt as well.
RaiseWithWebhook(k) ==
    /\ wpc[k] = "raising"
    /\ FreeRunner(k)
    /\ webhooks' = [webhooks EXCEPT ![wrun[k]] = @ + 1]
    /\ UNCHANGED <<storeVars, controlKey, ops, sched>>

\* Mutation: the runner of a failed attempt is not put back.
RaiseKeepsRunner(k) == FALSE

\* The exception leaves Runs.enter without a message; its control queue stays
\* registered and nobody reads it.  cleanup frees the runner.
Raise(k) ==
    /\ wpc[k] = "raising"
    /\ FreeRunner(k)
    /\ UNCHANGED <<storeVars, controlKey, ops, sched, webhooks>>

-----------------------------------------------------------------------------
(***************************************************************************)
(* Requests that cancel and delete                                         *)
(***************************************************************************)

\* Mutation: settled runs are cancelled as well.
CancelableExisting(r) == Exists(r)

\* The runs Runs.cancel acts on.
Cancelable(r) == status[r] \in Active

\* The choices of runs that a call marks interrupted.  A rollback deletes a run,
\* unless clients are streaming it, which is seen with a thread_id only.
Marked(call, cancelable) ==
    IF call.action # "rollback" THEN {cancelable}
    ELSE IF call.scope = "thread" THEN SUBSET cancelable
    ELSE {{}}

\* The loop of Runs.cancel handles some runs and marks some of these; the call ends
\* with 404 if none of its runs was cancelable, else it goes on with del.
CancelPart(call, otherOps, part, marked) ==
    LET cancelable == {r \in part : Cancelable(r)}
        todo == call.todo \ part
        hit  == call.hit \cup cancelable
        idle == {t \in Thread : /\ thread[t] # "absent"
                                /\ \E r \in marked : /\ ThreadOf[r] = t
                                                     /\ status[r] = "pending"}
    IN  /\ status' = [r \in Run |-> IF r \in marked THEN "interrupted" ELSE status[r]]
        /\ thread' = [t \in Thread |-> IF t \in idle THEN "idle" ELSE thread[t]]
        /\ overlooked' = overlooked \cup idle
        /\ ops' = IF todo = {} /\ hit = {} THEN otherOps
                  ELSE otherOps \cup
                         {[call EXCEPT !.stage = IF todo = {} THEN "gather" ELSE "loop",
                                       !.todo = todo,
                                       !.hit = hit,
                                       !.del = @ \cup (cancelable \ marked)]}
        /\ UNCHANGED <<created, clock, attempt, controlKey, sched, workerVars, webhooks>>

\* The loop of Runs.cancel up to its next suspension: a log call, made for a run
\* that is not marked, or the gather.
CancelLoop(call, otherOps) ==
    \E part \in SUBSET call.todo :
    \E marked \in Marked(call, {r \in part : Cancelable(r)}) :
        /\ part = call.todo \/ part \ marked # {}
        /\ CancelPart(call, otherOps, part, marked)

\* A request, or a disconnect with cancel_on_disconnect, cancels runs of a thread.
CancelRuns(t, ids, action) ==
    /\ \A r \in ids : ThreadOf[r] = t /\ Exists(r)
    /\ \E r \in ids : Cancelable(r)
    /\ Cardinality(ops) < MaxOps
    /\ CancelLoop(NewCall("loop", ids, action, "thread"), ops)

\* Runs.cancel without a thread_id.
CancelUnscoped(ids, action) ==
    /\ ids # {}
    /\ Cardinality(ops) < MaxOps
    /\ CancelLoop(NewCall("loop", ids, action, "none"), ops)

\* A request cancels the pending runs, the running runs or both.
CancelByStatus(S, action) == CancelUnscoped({r \in Run : status[r] \in S}, action)

\* The deletion of an assistant cancels its runs.
CancelByAssistant(A) == CancelUnscoped({r \in A : status[r] \in Active}, "interrupt")

\* create_valid_run cancels the runs that were inflight when it inserted its own:
\* those whose records are still there are selected.
CancelInflight(op) ==
    LET runs == {r \in op.ids : Exists(r)} IN
    /\ op.stage = "select"
    /\ IF runs = {}
       THEN /\ ops' = ops \ {op}
            /\ UNCHANGED <<storeVars, controlKey, sched, workerVars, webhooks>>
       ELSE CancelLoop(NewCall("loop", runs, op.action, "thread"), ops \ {op})

\* A call goes on with its loop.
ContinueCancel(op) ==
    /\ op.stage = "loop"
    /\ CancelLoop(op, ops \ {op})

\* Mutation: the control message is put under another key than the worker's.
ReachesNobody(op) == FALSE

\* The control message is put where the worker of the run looks.
Reaches(op) == op.scope = "thread"

\* The gather of Runs.cancel: StreamManager.put for every candidate, under the
\* thread_id of the call (without one no worker reads the key), and the deletions.
GatherCancelled(op) ==
    /\ op.stage = "gather"
    /\ ops' = ops \ {op}
    /\ IF Reaches(op)
       THEN /\ controlKey' = [r \in Run |-> IF r \in op.ids THEN op.action
                                            ELSE controlKey[r]]
            /\ wctl' = [k \in Runner |->
                           IF /\ wpc[k] = "executing"
                              /\ wrun[k] \in op.ids
                              /\ wctl[k] = "none"
                           THEN op.action ELSE wctl[k]]
       ELSE UNCHANGED <<controlKey, wctl>>
    /\ status' = [r \in Run |-> IF r \in op.del THEN "deleted" ELSE status[r]]
    /\ UNCHANGED <<thread, created, clock, attempt, overlooked, sched,
                   wpc, wrun, watt, wdone, wlisten, wout, webhooks>>

\* Runs.delete by request.  The status of the thread is left alone.
DeleteRun(r) ==
    /\ Exists(r)
    /\ status' = [status EXCEPT ![r] = "deleted"]
    /\ UNCHANGED <<thread, created, clock, attempt, overlooked, controlKey, ops,
                   sched, workerVars, webhooks>>

\* Threads.delete by request.
DeleteThread(t) ==
    /\ thread[t] # "absent"
    /\ RemoveThread(t)
    /\ UNCHANGED <<created, clock, attempt, controlKey, ops, sched,
                   workerVars, webhooks>>

-----------------------------------------------------------------------------
\* The requests of the workload.
Client ==
    \/ \E t \in Thread :
          \/ "put-thread" \in Requests /\ CreateThread(t)
          \/ "delete-thread" \in Requests /\ DeleteThread(t)
    \/ \E r \in Run : "delete-run" \in Requests /\ DeleteRun(r)
    \/ \E r \in Run, ifNotExists \in {"create", "reject"} :
          \/ "reject" \in Requests /\ RejectRun(r, ifNotExists)
          \/ \E strategy \in Strategy \cap Requests :
                \/ CreateRun(r, strategy, ifNotExists, FALSE)
                \/ "delay" \in Requests /\ CreateRun(r, strategy, ifNotExists, TRUE)
    \/ \E t \in Thread, ids \in SUBSET Run, action \in CancelAction :
          "cancel" \in Requests /\ CancelRuns(t, ids, action)
    \/ /\ "cancel-unscoped" \in Requests
       /\ \/ \E S \in SUBSET Active, action \in CancelAction : CancelByStatus(S, action)
          \/ \E A \in AssistantRuns : CancelByAssistant(A)

Server ==
    \/ \E op \in ops : CancelInflight(op) \/ ContinueCancel(op) \/ GatherCancelled(op)
    \/ \E r \in Run : BecomeDue(r)
    \/ SchedWait
    \/ SchedNext

Worker(k) ==
    \/ WorkerFailsEarly(k)
    \/ Enter(k)
    \/ ListenKey(k)
    \/ ListenQueue(k)
    \/ ListenTimeout(k)
    \/ FinishExecution(k)
    \/ StopExecution(k)
    \/ Settle(k)
    \/ Leave(k)
    \/ Raise(k)

Next == Client \/ Server \/ \E k \in Runner : Worker(k)

Spec == Init /\ [][Next]_vars

\* The event loop runs every task that is ready.  An execution ends by itself
\* unless its run is Endless; a cancelled one is stopped.  Clients owe nothing.
Fairness ==
    /\ WF_vars(SchedWait)
    /\ WF_vars(SchedNext)
    /\ WF_vars(\E op \in ops : CancelInflight(op) \/ ContinueCancel(op) \/ GatherCancelled(op))
    /\ \A r \in Run : WF_vars(BecomeDue(r))
    /\ \A k \in Runner :
          /\ WF_vars(Enter(k))
          /\ WF_vars(ListenKey(k))
          /\ WF_vars(ListenQueue(k))
          /\ WF_vars(wrun[k] \notin Endless /\ FinishExecution(k))
          /\ WF_vars(StopExecution(k))
          /\ WF_vars(Settle(k))
          /\ WF_vars(Leave(k) \/ Raise(k))

FairSpec == Spec /\ Fairness

-----------------------------------------------------------------------------
(***************************************************************************)
(* Properties                                                              *)
(***************************************************************************)

TypeOK ==
    /\ status \in [Run -> RunStatus]
    /\ thread \in [Thread -> ThreadStatus]
    /\ created \in [Run -> Nat]
    /\ clock \in Nat
    /\ attempt \in [Run -> Nat]
    /\ controlKey \in [Run -> {"none", "done"} \cup CancelAction]
    /\ ops \in SUBSET CancelCall
    /\ sched \in [limit : Nat, now : Nat]
    /\ wpc \in [Runner -> {"free", "starting", "executing", "settling", "leaving",
                           "raising"}]
    /\ wrun \in [Runner -> Run \cup {NoRun}]
    /\ \A k \in Runner : wpc[k] # "free" => wrun[k] \in Run
    /\ watt \in [Runner -> Nat]
    /\ wdone \in [Runner -> {"none"} \cup CancelAction]
    /\ wctl \in [Runner -> {"none"} \cup CancelAction]
    /\ wlisten \in [Runner -> {"off", "unread", "waiting", "stopped"}]
    /\ wout \in [Runner -> {"none"} \cup Outcome]
    /\ \A k \in Runner : wpc[k] = "settling" => wout[k] \in Outcome
    /\ webhooks \in [Run -> Nat]
    /\ overlooked \in SUBSET Thread

\* At most one run of a thread has the status "running": Runs.next checks the
\* thread when it takes a run, however requests, retries and workers interleave
\* with its list.
OneRunningPerThread ==
    \A r, q \in Run :
        /\ status[r] = "running"
        /\ status[q] = "running"
        /\ ThreadOf[r] = ThreadOf[q]
        => r = q

\* A run is executed by one worker at a time: a retry, a cancellation or a
\* deletion never lets Runs.next hand out a run whose worker has not written its
\* outcome yet.
SoleExecutor ==
    \A k, j \in Runner : Live(k) /\ Live(j) /\ wrun[k] = wrun[j] => k = j

\* runners.get_nowait() never finds the pool empty: queue() asks Runs.next for
\* as many runs as there are free runners, and only cleanup changes the pool
\* while Runs.next sleeps.
RunnersSuffice == sched.limit <= Cardinality(FreeRunners)

\* A run is attempted at most BG_JOB_MAX_RETRIES + 1 times, even if it is
\* cancelled and queued again by a retry in between.
AttemptsBounded == \A r \in Run : attempt[r] <= MaxRetries + 1

\* The webhook of a run is called at most once over all its attempts.
WebhookAtMostOnce == \A r \in Run : webhooks[r] <= 1

\* A thread with an inflight run exists and is busy, with two exceptions that are
\* left until the status is next written: Runs.cancel has declared it idle when it
\* cancelled a pending run of it, or a retry has queued a run that was cancelled
\* and whose thread had come to rest.
BusyWhileInflight ==
    \A t \in Thread : Inflight(t) # {} => thread[t] = "busy" \/ t \in overlooked

\* A run record always has its thread record: neither a stateless run that takes
\* its thread with it, nor a request to delete the thread, nor a retry or a late
\* worker leaves a run behind that Runs.next could only warn about.
NoOrphanRun == \A r \in Run : Exists(r) => thread[ThreadOf[r]] # "absent"

\* A cancellation put under the key of a run reaches the done event of the
\* worker executing it as long as its listener lives: it is heard, or it waits
\* in the control queue, or the listener has yet to read the stored key.
NoLostCancel ==
    \A k \in Runner :
        /\ wpc[k] = "executing"
        /\ controlKey[wrun[k]] \in CancelAction
        => \/ wdone[k] # "none"
           \/ wctl[k] # "none"
           \/ wlisten[k] = "unread"
           \/ wlisten[k] = "stopped" /\ ListenTimeouts

\* A run that has succeeded, failed or timed out keeps that status until its
\* record is deleted: no late cancellation and no second worker overwrites it.
OutcomeIsFinal ==
    [][\A r \in Run : status[r] \in {"success", "error", "timeout"} =>
                          status'[r] \in {status[r], "deleted"}]_vars

\* The run each worker holds, as the abstract queue sees it: from the moment it is
\* taken until its outcome is written.
Held == [k \in Runner |-> IF Live(k) THEN wrun[k] ELSE NoRun]

Queue == INSTANCE RunQueue WITH runs <- status, tries <- attempt, holds <- Held

\* The scheduler, the workers and the requests, in all their interleavings, keep what
\* RunQueue promises: every step is one of its steps or none.
ImplementsRunQueue == Queue!QueueSpec

\* Every due run that is not Endless comes to rest, through retries, blocked
\* threads and a full pool, and is not queued again.
EveryDueRunSettles ==
    \A r \in Run \ Endless :
        created[r] # 0 ~> [](status[r] \notin Active)

\* The thread of a stateless run does not outlast the run, whatever the outcome and
\* however often the run is retried.
StatelessThreadGoes ==
    \A r \in Temporary : created[r] # 0 ~> [](thread[ThreadOf[r]] = "absent")

\* "If 'running', the worker will pick up the message": the worker of a run that
\* Runs.cancel has marked interrupted stops executing it.
CancelStopsWorker ==
    \A k \in Runner, r \in Run :
        (wpc[k] = "executing" /\ wrun[k] = r /\ status[r] = "interrupted")
            ~> ~(wpc[k] = "executing" /\ wrun[k] = r)

\* "Cancel and delete the existing run, ... then start the new run": when a
\* worker executes a run, no other worker executes a run of its thread.
OneExecutionPerThread ==
    \A k, j \in Runner :
        /\ wpc[k] = "executing"
        /\ wpc[j] = "executing"
        /\ ThreadOf[wrun[k]] = ThreadOf[wrun[j]]
        => k = j

\* "Try to lock and get the first available run": a due run of a thread without
\* a running run does not wait forever while a runner is free.
AvailableRunStarts ==
    LET Available(r) == /\ status[r] = "pending"
                        /\ created[r] # 0
                        /\ ~HasRunning(ThreadOf[r])
                        /\ FreeRunners # {}
    IN  \A r \in Run : Available(r) ~> ~Available(r)
=============================================================================
