------------------------- MODULE RunLifecycleProofs -------------------------
(***************************************************************************)
(* Theorems about RunLifecycle, for every set of runs, threads and runners *)
(* and every workload.                                                     *)
(***************************************************************************)
EXTENDS RunLifecycle, FiniteSetTheorems, TLAPS

USE DEF CancelAction, Active, Settled, RunStatus, ThreadStatus, Outcome, Strategy

-----------------------------------------------------------------------------
(***************************************************************************)
(* Type correctness                                                        *)
(***************************************************************************)

\* The types at the start.
LEMMA InitTypeOK == Init => TypeOK
  BY RunLifecycleAssumption DEF Init, TypeOK, CancelCall

\* A new Runs.cancel call has its type.
LEMMA NewCallType ==
    ASSUME NEW stage \in {"select", "loop", "gather"}, NEW runs \in SUBSET Run,
           NEW action \in CancelAction, NEW scope \in {"thread", "none"}
    PROVE  NewCall(stage, runs, action, scope) \in CancelCall
  BY DEF NewCall, CancelCall

\* The runs a call marks are cancelable runs it has yet to handle.
LEMMA MarkedSubset ==
    ASSUME NEW call, NEW S, NEW marked \in Marked(call, S)
    PROVE  marked \subseteq S
  BY DEF Marked

\* CancelLoop keeps the types, whichever call it works for.
LEMMA CancelLoopType ==
    ASSUME TypeOK, NEW call \in CancelCall, NEW others \in SUBSET CancelCall,
           CancelLoop(call, others)
    PROVE  TypeOK'
<1>1. call.todo \subseteq Run /\ call.hit \subseteq Run /\ call.del \subseteq Run
  BY DEF CancelCall
<1>2. PICK part \in SUBSET call.todo, marked \in SUBSET Run :
         CancelPart(call, others, part, marked)
  BY <1>1, MarkedSubset DEF CancelLoop
<1> DEFINE cancelable == {r \in part : Cancelable(r)}
           todo == call.todo \ part
           hit == call.hit \cup cancelable
           call2 == [call EXCEPT !.stage = IF todo = {} THEN "gather" ELSE "loop",
                                 !.todo = todo, !.hit = hit,
                                 !.del = @ \cup (cancelable \ marked)]
<1>3. call2 \in CancelCall
  <2>1. cancelable \subseteq Run /\ todo \subseteq Run /\ hit \subseteq Run
    BY <1>1
  <2>2. call.del \cup (cancelable \ marked) \subseteq Run
    BY <1>1, <2>1
  <2> HIDE DEF cancelable, todo, hit
  <2> QED BY <2>1, <2>2 DEF CancelCall
<1>4. ops' \in SUBSET CancelCall
  <2>1. ops' \in {others, others \cup {call2}}
    BY <1>2 DEF CancelPart
  <2> QED BY <2>1, <1>3
<1>5. /\ status' \in [Run -> RunStatus]
      /\ thread' \in [Thread -> ThreadStatus]
      /\ overlooked' \in SUBSET Thread
      /\ UNCHANGED <<created, clock, attempt, controlKey, sched, workerVars, webhooks>>
  BY <1>2 DEF CancelPart, TypeOK
<1> QED BY <1>4, <1>5 DEF TypeOK, workerVars

\* A pass of the scheduler keeps the types.
LEMMA SchedNextType == ASSUME TypeOK, SchedNext PROVE TypeOK'
<1> DEFINE list == Oldest(sched.limit)
           taken == {r \in list : Startable(r, list)}
<1>1. taken \subseteq Run
  BY DEF Oldest, Due
<1>2. PICK used \in SUBSET FreeRunners : \E runOf \in [used -> taken] :
         /\ wpc' = [k \in Runner |-> IF k \in used THEN "starting" ELSE wpc[k]]
         /\ wrun' = [k \in Runner |-> IF k \in used THEN runOf[k] ELSE wrun[k]]
         /\ watt' = [k \in Runner |-> IF k \in used THEN attempt[runOf[k]] + 1
                                      ELSE watt[k]]
  BY DEF SchedNext
<1>3. /\ status' = [r \in Run |-> IF r \in taken THEN "running" ELSE status[r]]
      /\ attempt' = [r \in Run |-> IF r \in taken THEN attempt[r] + 1 ELSE attempt[r]]
      /\ sched' = [limit |-> 0, now |-> 0]
      /\ UNCHANGED <<thread, created, clock, overlooked, controlKey, ops, wdone,
                     wctl, wlisten, wout, webhooks>>
  BY DEF SchedNext, MarkRunning
<1> HIDE DEF list, taken
<1>. PICK runOf \in [used -> taken] :
         /\ wpc' = [k \in Runner |-> IF k \in used THEN "starting" ELSE wpc[k]]
         /\ wrun' = [k \in Runner |-> IF k \in used THEN runOf[k] ELSE wrun[k]]
         /\ watt' = [k \in Runner |-> IF k \in used THEN attempt[runOf[k]] + 1
                                      ELSE watt[k]]
  BY <1>2
<1>4. \A k \in used : runOf[k] \in Run
  BY <1>1
<1>5. wpc' \in [Runner -> {"free", "starting", "executing", "settling", "leaving",
                           "raising"}]
  BY <1>2 DEF TypeOK
<1>6. wrun' \in [Runner -> Run \cup {NoRun}]
  BY <1>2, <1>4 DEF TypeOK
<1>7. watt' \in [Runner -> Nat]
  BY <1>2, <1>4 DEF TypeOK
<1>8. \A k \in Runner : (wpc'[k] # "free" => wrun'[k] \in Run)
                        /\ (wpc'[k] = "settling" => wout'[k] \in Outcome)
  BY <1>2, <1>3, <1>4 DEF TypeOK
<1> QED BY <1>3, <1>5, <1>6, <1>7, <1>8 DEF TypeOK

\* Every step keeps the types: one case per action.
LEMMA NextTypeOK == TypeOK /\ [Next]_vars => TypeOK'
<1> SUFFICES ASSUME TypeOK, [Next]_vars PROVE TypeOK'
  OBVIOUS
<1> USE RunLifecycleAssumption
<1>1. CASE UNCHANGED vars
  BY <1>1 DEF TypeOK, vars, storeVars, workerVars
<1>2. ASSUME NEW t \in Thread, CreateThread(t) \/ DeleteThread(t) PROVE TypeOK'
  BY <1>2 DEF TypeOK, CreateThread, DeleteThread, RemoveThread, workerVars
<1>3. ASSUME NEW r \in Run, DeleteRun(r) \/ BecomeDue(r) PROVE TypeOK'
  BY <1>3 DEF TypeOK, DeleteRun, BecomeDue, workerVars
<1>4. ASSUME NEW r \in Run, NEW ifNotExists, RejectRun(r, ifNotExists) PROVE TypeOK'
  BY <1>4 DEF TypeOK, RejectRun, TouchThread, workerVars
<1>5. ASSUME NEW r \in Run, NEW strategy \in Strategy, NEW ifNotExists,
             NEW delayed \in BOOLEAN, CreateRun(r, strategy, ifNotExists, delayed)
      PROVE  TypeOK'
  <2>1. ops' \in SUBSET CancelCall
    <3>1. ASSUME strategy \in CancelAction
          PROVE  NewCall("select", Inflight(ThreadOf[r]), strategy, "thread") \in CancelCall
      BY <3>1, NewCallType DEF Inflight
    <3> QED BY <1>5, <3>1 DEF CreateRun, TypeOK
  <2>2. created' \in [Run -> Nat] /\ clock' \in Nat
    BY <1>5 DEF CreateRun, TypeOK
  <2> QED BY <1>5, <2>1, <2>2 DEF TypeOK, CreateRun, TouchThread, workerVars
<1>6. ASSUME NEW t \in Thread, NEW ids \in SUBSET Run, NEW action \in CancelAction,
             CancelRuns(t, ids, action)
      PROVE  TypeOK'
  <2>1. NewCall("loop", ids, action, "thread") \in CancelCall
    BY NewCallType
  <2> QED BY <1>6, <2>1, CancelLoopType DEF CancelRuns, TypeOK
<1>7. ASSUME NEW ids \in SUBSET Run, NEW action \in CancelAction,
             CancelUnscoped(ids, action)
      PROVE  TypeOK'
  <2>1. NewCall("loop", ids, action, "none") \in CancelCall
    BY NewCallType
  <2> QED BY <1>7, <2>1, CancelLoopType DEF CancelUnscoped, TypeOK
<1>7a. ASSUME NEW S, NEW action \in CancelAction, CancelByStatus(S, action) PROVE TypeOK'
  BY <1>7, <1>7a DEF CancelByStatus
<1>7b. ASSUME NEW A \in AssistantRuns, CancelByAssistant(A) PROVE TypeOK'
  BY <1>7, <1>7b DEF CancelByAssistant
<1>8. ASSUME NEW op \in ops, CancelInflight(op) PROVE TypeOK'
  <2> DEFINE runs == {r \in op.ids : Exists(r)}
  <2>1. op \in CancelCall /\ runs \in SUBSET Run /\ op.action \in CancelAction
    BY DEF TypeOK, CancelCall
  <2>2. NewCall("loop", runs, op.action, "thread") \in CancelCall
    BY <2>1, NewCallType
  <2>3. CASE runs = {}
    BY <1>8, <2>3 DEF CancelInflight, TypeOK, storeVars, workerVars
  <2>4. CASE runs # {}
    <3>1. CancelLoop(NewCall("loop", runs, op.action, "thread"), ops \ {op})
      BY <1>8, <2>4 DEF CancelInflight
    <3>2. ops \ {op} \in SUBSET CancelCall
      BY DEF TypeOK
    <3> HIDE DEF runs
    <3> QED BY <2>2, <3>1, <3>2, CancelLoopType
  <2> QED BY <2>3, <2>4
<1>9. ASSUME NEW op \in ops, ContinueCancel(op) PROVE TypeOK'
  <2>1. op \in CancelCall /\ ops \ {op} \in SUBSET CancelCall
    BY DEF TypeOK
  <2> QED BY <1>9, <2>1, CancelLoopType DEF ContinueCancel
<1>10. ASSUME NEW op \in ops, GatherCancelled(op) PROVE TypeOK'
  <2>1. op.action \in CancelAction
    BY DEF TypeOK, CancelCall
  <2>2. controlKey' \in [Run -> {"none", "done"} \cup CancelAction]
    BY <1>10, <2>1 DEF GatherCancelled, TypeOK
  <2>3. wctl' \in [Runner -> {"none"} \cup CancelAction]
    BY <1>10, <2>1 DEF GatherCancelled, TypeOK
  <2> QED BY <1>10, <2>2, <2>3 DEF TypeOK, GatherCancelled
<1>11. CASE SchedWait
  <2>1. QSize \in Nat
    <3>1. IsFiniteSet(FreeRunners)
      BY FS_Subset DEF FreeRunners
    <3> QED BY <3>1, FS_CardinalityType DEF QSize
  <2> QED BY <1>11, <2>1 DEF TypeOK, SchedWait, storeVars, workerVars
<1>12. CASE SchedNext
  BY <1>12, SchedNextType
<1>13. ASSUME NEW k \in Runner, Worker(k) PROVE TypeOK'
  <2>1. CASE WorkerFailsEarly(k)
    BY <2>1 DEF TypeOK, WorkerFailsEarly, FreeRunner, storeVars
  <2>2. CASE Enter(k)
    BY <2>2 DEF TypeOK, Enter, FirstListen, storeVars
  <2>3. CASE ListenKey(k)
    BY <2>3 DEF TypeOK, ListenKey, storeVars
  <2>4. CASE ListenQueue(k)
    BY <2>4 DEF TypeOK, ListenQueue, storeVars
  <2>5. CASE ListenTimeout(k)
    BY <2>5 DEF TypeOK, ListenTimeout, storeVars
  <2>6. ASSUME NEW outcome \in Outcome, Execution(k, outcome) PROVE TypeOK'
    BY <2>6 DEF TypeOK, Execution, storeVars
  <2>7. CASE FinishExecution(k)
    BY <2>6, <2>7 DEF FinishExecution
  <2>8. CASE StopExecution(k)
    <3>1. wdone[k] \in Outcome
      BY <2>8 DEF StopExecution, TypeOK
    <3> QED BY <2>6, <2>8, <3>1 DEF StopExecution
  <2>9. CASE Settle(k)
    <3>1. wrun[k] \in Run /\ ThreadOf[wrun[k]] \in Thread
      BY <2>9 DEF Settle, TypeOK
    <3>2. CASE SettleRetry(k)
      BY <2>9, <3>1, <3>2 DEF TypeOK, Settle, SettleRetry, MoveTo
    <3>3. CASE SettleTemporary(k)
      BY <2>9, <3>1, <3>3 DEF TypeOK, Settle, SettleTemporary, MoveTo, RemoveThread
    <3>4. CASE SettleStateful(k)
      <4>1. wout[k] \in Outcome \ {"retry"}
        BY <2>9, <3>4 DEF Settle, SettleStateful, TypeOK
      <4>2. /\ FinalStatus(wout[k]) \in RunStatus
            /\ BaseStatus(wout[k]) \subseteq ThreadStatus
        BY <4>1 DEF FinalStatus, BaseStatus
      <4>3. status' \in [Run -> RunStatus] /\ thread' \in [Thread -> ThreadStatus]
        BY <3>1, <3>4, <4>2 DEF SettleStateful, SetJointStatus, TypeOK
      <4>4. overlooked' \in SUBSET Thread
        BY <3>4 DEF SettleStateful, SetJointStatus, TypeOK
      <4>5. MoveTo(k, "leaving") \/ MoveTo(k, "raising")
        BY <3>4 DEF SettleStateful
      <4> QED BY <2>9, <3>1, <4>3, <4>4, <4>5 DEF TypeOK, Settle, MoveTo
    <3> QED BY <2>9, <3>2, <3>3, <3>4 DEF Settle
  <2>10. CASE Leave(k)
    <3>1. wrun[k] \in Run
      BY <2>10 DEF Leave, TypeOK
    <3> QED BY <2>10, <3>1 DEF TypeOK, Leave, FreeRunner, storeVars
  <2>11. CASE Raise(k)
    BY <2>11 DEF TypeOK, Raise, FreeRunner, storeVars
  <2> QED BY <1>13, <2>1, <2>2, <2>3, <2>4, <2>5, <2>7, <2>8, <2>9, <2>10, <2>11
          DEF Worker
<1> QED BY <1>1, <1>2, <1>3, <1>4, <1>5, <1>6, <1>7, <1>8, <1>9, <1>10, <1>11,
           <1>12, <1>13, <1>7a, <1>7b DEF Next, Client, Server

\* The variables keep their types through every handler.
THEOREM TypeCorrect == Spec => []TypeOK
  BY InitTypeOK, NextTypeOK, PTL DEF Spec

-----------------------------------------------------------------------------
(***************************************************************************)
(* What a step does to runs and workers: it is a pass of the scheduler, a  *)
(* worker that settles its run, or a quiet step.                           *)
(***************************************************************************)

\* A worker whose run may be queued again, and one that may become such a worker.
MayRetry(k) == wpc[k] = "executing" \/ (wpc[k] = "settling" /\ wout[k] = "retry")
MayExecute(k) == wpc[k] = "starting" /\ ~ExceedsRetries(k)

\* A quiet step queues no run but a new one, starts no worker, lets none begin an
\* execution beyond the limit and sends none on its way out.
QuietStep ==
    /\ \A r \in Run : \/ status'[r] = status[r]
                      \/ status[r] = "new" /\ status'[r] = "pending"
                      \/ status[r] \in Active /\ status'[r] = "interrupted"
                      \/ status'[r] = "deleted"
    /\ \A k \in Runner : wpc'[k] # "free" => wpc[k] # "free" /\ wrun'[k] = wrun[k]
    /\ \A k \in Runner : Live(k)' => Live(k)
    /\ \A k \in Runner : wpc'[k] = "starting" => wpc[k] = "starting" /\ watt'[k] = watt[k]
    /\ \A k \in Runner : MayRetry(k)' => MayRetry(k) \/ MayExecute(k)
    /\ \A k \in Runner : wpc'[k] = "leaving" => wpc[k] = "leaving"
    /\ attempt' = attempt

\* The body of Runs.cancel hands out no run and settles none.
LEMMA CancelLoopQuiet ==
    ASSUME TypeOK, NEW call \in CancelCall, NEW others \in SUBSET CancelCall,
           CancelLoop(call, others)
    PROVE  QuietStep /\ UNCHANGED <<created, clock, controlKey, sched, workerVars, webhooks>>
<1>1. PICK part \in SUBSET call.todo :
         \E marked \in Marked(call, {r \in part : Cancelable(r)}) :
            CancelPart(call, others, part, marked)
  BY DEF CancelLoop
<1>2. PICK marked \in Marked(call, {r \in part : Cancelable(r)}) :
         CancelPart(call, others, part, marked)
  BY <1>1
<1>3. \A r \in marked : status[r] \in Active
  BY MarkedSubset DEF Cancelable
<1>4. /\ status' = [r \in Run |-> IF r \in marked THEN "interrupted" ELSE status[r]]
      /\ UNCHANGED <<created, clock, attempt, controlKey, sched, workerVars, webhooks>>
  BY <1>2 DEF CancelPart
<1> QED BY <1>3, <1>4 DEF QuietStep, Live, MayRetry, workerVars, TypeOK

\* The steps of Next that are neither a pass of the scheduler nor a Settle.
LEMMA StepKinds ==
    ASSUME TypeOK, [Next]_vars
    PROVE  SchedNext \/ (\E k \in Runner : Settle(k)) \/ QuietStep
<1>1. CASE UNCHANGED vars
  BY <1>1 DEF QuietStep, Live, MayRetry, vars, storeVars, workerVars
<1>2. ASSUME NEW t \in Thread, CreateThread(t) \/ DeleteThread(t) PROVE QuietStep
  BY <1>2 DEF QuietStep, Live, MayRetry, CreateThread, DeleteThread, RemoveThread, workerVars
<1>3. ASSUME NEW r \in Run, DeleteRun(r) \/ BecomeDue(r) PROVE QuietStep
  BY <1>3 DEF QuietStep, Live, MayRetry, DeleteRun, BecomeDue, workerVars, TypeOK
<1>4. ASSUME NEW r \in Run, NEW ifNotExists, RejectRun(r, ifNotExists) PROVE QuietStep
  BY <1>4 DEF QuietStep, Live, MayRetry, RejectRun, workerVars
<1>5. ASSUME NEW r \in Run, NEW strategy, NEW ifNotExists, NEW delayed,
             CreateRun(r, strategy, ifNotExists, delayed)
      PROVE  QuietStep
  <2>1. /\ status[r] = "new"
        /\ status' = [status EXCEPT ![r] = "pending"]
        /\ UNCHANGED <<attempt, workerVars>>
    BY <1>5 DEF CreateRun, TouchThread
  <2> QED BY <2>1 DEF QuietStep, Live, MayRetry, workerVars, TypeOK
<1>6. ASSUME NEW t \in Thread, NEW ids \in SUBSET Run, NEW action \in CancelAction,
             CancelRuns(t, ids, action)
      PROVE  QuietStep
  BY <1>6, NewCallType, CancelLoopQuiet DEF CancelRuns, TypeOK
<1>7. ASSUME NEW ids \in SUBSET Run, NEW action \in CancelAction,
             CancelUnscoped(ids, action)
      PROVE  QuietStep
  <2>1. NewCall("loop", ids, action, "none") \in CancelCall
    BY NewCallType
  <2> QED BY <1>7, <2>1, CancelLoopQuiet DEF CancelUnscoped, TypeOK
<1>7a. ASSUME NEW S, NEW action \in CancelAction, CancelByStatus(S, action)
      PROVE  QuietStep
  BY <1>7, <1>7a DEF CancelByStatus
<1>7b. ASSUME NEW A \in AssistantRuns, CancelByAssistant(A) PROVE QuietStep
  BY <1>7, <1>7b, RunLifecycleAssumption DEF CancelByAssistant
<1>8. ASSUME NEW op \in ops, CancelInflight(op) \/ ContinueCancel(op) PROVE QuietStep
  <2> DEFINE runs == {r \in op.ids : Exists(r)}
  <2>1. /\ op \in CancelCall
        /\ runs \in SUBSET Run
        /\ op.action \in CancelAction
        /\ ops \ {op} \in SUBSET CancelCall
    BY DEF TypeOK, CancelCall
  <2>2. NewCall("loop", runs, op.action, "thread") \in CancelCall
    BY <2>1, NewCallType
  <2>3. \/ UNCHANGED <<storeVars, workerVars>>
        \/ CancelLoop(NewCall("loop", runs, op.action, "thread"), ops \ {op})
        \/ CancelLoop(op, ops \ {op})
    BY <1>8 DEF CancelInflight, ContinueCancel
  <2>4. CASE UNCHANGED <<storeVars, workerVars>>
    BY <2>4 DEF QuietStep, Live, MayRetry, storeVars, workerVars
  <2> HIDE DEF runs
  <2> QED BY <2>1, <2>2, <2>3, <2>4, CancelLoopQuiet
<1>9. ASSUME NEW op \in ops, GatherCancelled(op) PROVE QuietStep
  BY <1>9 DEF QuietStep, Live, MayRetry, GatherCancelled, TypeOK
<1>10. CASE SchedWait
  BY <1>10 DEF QuietStep, Live, MayRetry, SchedWait, storeVars, workerVars
<1>11. ASSUME NEW k \in Runner, Worker(k), ~Settle(k) PROVE QuietStep
  <2>1. CASE WorkerFailsEarly(k) \/ Leave(k) \/ Raise(k)
    BY <2>1 DEF QuietStep, Live, MayRetry, WorkerFailsEarly, Leave, Raise, FreeRunner,
                storeVars, TypeOK
  <2>2. CASE Enter(k)
    BY <2>2 DEF QuietStep, Live, MayRetry, MayExecute, Enter, storeVars, TypeOK
  <2>3. CASE ListenKey(k) \/ ListenQueue(k) \/ ListenTimeout(k)
    BY <2>3 DEF QuietStep, Live, MayRetry, ListenKey, ListenQueue, ListenTimeout, storeVars
  <2>4. CASE FinishExecution(k) \/ StopExecution(k)
    <3>1. /\ wpc[k] = "executing"
          /\ wpc' = [wpc EXCEPT ![k] = "settling"]
          /\ \A j \in Runner : j # k => wout'[j] = wout[j]
          /\ UNCHANGED <<wrun, watt, storeVars>>
      BY <2>4 DEF FinishExecution, StopExecution, Execution, TypeOK
    <3> QED BY <3>1 DEF QuietStep, Live, MayRetry, storeVars, TypeOK
  <2> QED BY <1>11, <2>1, <2>2, <2>3, <2>4 DEF Worker
<1> QED BY <1>1, <1>2, <1>3, <1>4, <1>5, <1>6, <1>7, <1>8, <1>9, <1>10, <1>11,
           <1>7a, <1>7b DEF Next, Client, Server

\* What Runs.next does: the runs it takes were pending, on threads without a
\* running run and at most one for each thread, and each gets one free runner.
SchedStarts(taken, used) ==
    /\ \A r \in taken : status[r] = "pending" /\ created[r] # 0
    /\ \A r \in taken : ~HasRunning(ThreadOf[r])
    /\ \A r, q \in taken : ThreadOf[r] = ThreadOf[q] => created[r] = created[q]
    /\ status' = [r \in Run |-> IF r \in taken THEN "running" ELSE status[r]]
    /\ attempt' = [r \in Run |-> IF r \in taken THEN attempt[r] + 1 ELSE attempt[r]]
    /\ \A k \in used : /\ wpc[k] = "free"
                       /\ wpc'[k] = "starting"
                       /\ wrun'[k] \in taken
                       /\ watt'[k] = attempt[wrun'[k]] + 1
    /\ \A r \in taken : \E k \in used : wrun'[k] = r
    /\ \A k, j \in used : wrun'[k] = wrun'[j] => k = j
    /\ \A k \in Runner \ used : /\ wpc'[k] = wpc[k]
                                /\ wrun'[k] = wrun[k]
                                /\ watt'[k] = watt[k]
    /\ UNCHANGED <<thread, created, clock, overlooked, controlKey, ops, wdone, wctl,
                   wlisten, wout, webhooks>>

\* What a pass of the scheduler starts.
LEMMA SchedEffect ==
    ASSUME TypeOK, SchedNext
    PROVE  \E taken \in SUBSET Run, used \in SUBSET Runner : SchedStarts(taken, used)
<1> DEFINE list == Oldest(sched.limit)
           taken == {r \in list : Startable(r, list)}
<1>1. /\ taken \in SUBSET Run
      /\ \A r \in taken : status[r] = "pending" /\ created[r] # 0
      /\ \A r \in taken : ~HasRunning(ThreadOf[r])
      /\ \A r, q \in taken : ThreadOf[r] = ThreadOf[q] => created[r] = created[q]
  <2>1. \A r \in list : r \in Run /\ status[r] = "pending" /\ created[r] \in Nat \ {0}
    BY DEF Oldest, Due, TypeOK
  <2>2. \A r \in taken : /\ r \in list
                         /\ ~HasRunning(ThreadOf[r])
                         /\ \A q \in list : ThreadOf[q] = ThreadOf[r] => created[r] <= created[q]
    BY DEF Startable
  <2> HIDE DEF list, taken
  <2>3. ASSUME NEW r \in taken, NEW q \in taken, ThreadOf[r] = ThreadOf[q]
        PROVE  created[r] = created[q]
    <3>1. created[r] <= created[q] /\ created[q] <= created[r]
      BY <2>2, <2>3
    <3>2. created[r] \in Nat /\ created[q] \in Nat
      BY <2>1, <2>2
    <3> QED BY <3>1, <3>2
  <2> QED BY <2>1, <2>2, <2>3
<1>2. PICK used \in SUBSET FreeRunners : \E runOf \in [used -> taken] :
         /\ \A r \in taken : \E k \in used : runOf[k] = r
         /\ \A k, j \in used : runOf[k] = runOf[j] => k = j
         /\ wpc' = [k \in Runner |-> IF k \in used THEN "starting" ELSE wpc[k]]
         /\ wrun' = [k \in Runner |-> IF k \in used THEN runOf[k] ELSE wrun[k]]
         /\ watt' = [k \in Runner |-> IF k \in used THEN attempt[runOf[k]] + 1
                                      ELSE watt[k]]
  BY DEF SchedNext
<1>3. /\ status' = [r \in Run |-> IF r \in taken THEN "running" ELSE status[r]]
      /\ attempt' = [r \in Run |-> IF r \in taken THEN attempt[r] + 1 ELSE attempt[r]]
      /\ UNCHANGED <<thread, created, clock, overlooked, controlKey, ops, wdone,
                     wctl, wlisten, wout, webhooks>>
  BY DEF SchedNext, MarkRunning
<1> HIDE DEF list, taken
<1>4. /\ used \in SUBSET Runner
      /\ \A k \in used : wpc[k] = "free"
  BY <1>2 DEF FreeRunners
<1>5. /\ \A k \in used : /\ wpc'[k] = "starting"
                         /\ wrun'[k] \in taken
                         /\ watt'[k] = attempt[wrun'[k]] + 1
      /\ \A r \in taken : \E k \in used : wrun'[k] = r
      /\ \A k, j \in used : wrun'[k] = wrun'[j] => k = j
      /\ \A k \in Runner \ used : /\ wpc'[k] = wpc[k]
                                  /\ wrun'[k] = wrun[k]
                                  /\ watt'[k] = watt[k]
  BY <1>2, <1>4
<1> taken \in SUBSET Run /\ used \in SUBSET Runner
  BY <1>1, <1>4
<1> WITNESS taken \in SUBSET Run, used \in SUBSET Runner
<1> QED BY <1>1, <1>3, <1>4, <1>5 DEF SchedStarts

\* What a worker does when it settles its run: no run but its own changes, unless
\* it is deleted; its own is queued again after a retriable exception only.
LEMMA SettleEffect ==
    ASSUME TypeOK, NEW k \in Runner, Settle(k)
    PROVE  /\ wpc[k] = "settling"
           /\ wrun[k] \in Run
           /\ \A q \in Run : q # wrun[k] => status'[q] \in {status[q], "deleted"}
           /\ status'[wrun[k]] \in {status[wrun[k]], "pending", "deleted"} \cup Settled
           /\ status'[wrun[k]] = "pending" =>
                status[wrun[k]] = "pending" \/ wout[k] = "retry"
           /\ \A j \in Runner : j # k => wpc'[j] = wpc[j] /\ wout'[j] = wout[j]
           /\ wpc'[k] \in {"leaving", "raising"}
           /\ UNCHANGED <<created, clock, attempt, controlKey, ops, sched, webhooks,
                          wrun, watt, wdone, wctl, wlisten>>
<1>1. wpc[k] = "settling" /\ wrun[k] \in Run /\ wout[k] \in Outcome
  BY DEF Settle, TypeOK
<1>2. \E pc \in {"leaving", "raising"} : MoveTo(k, pc)
  BY DEF Settle, SettleRetry, SettleTemporary, SettleStateful
<1>3. /\ \A j \in Runner : j # k => wpc'[j] = wpc[j] /\ wout'[j] = wout[j]
      /\ wpc'[k] \in {"leaving", "raising"}
      /\ UNCHANGED <<created, clock, attempt, controlKey, ops, sched, webhooks,
                     wrun, watt, wdone, wctl, wlisten>>
  BY <1>2 DEF Settle, MoveTo, TypeOK
<1> DEFINE Effect == /\ \A q \in Run : q # wrun[k] => status'[q] \in {status[q], "deleted"}
                     /\ status'[wrun[k]] \in {status[wrun[k]], "pending", "deleted"}
                                              \cup Settled
                     /\ status'[wrun[k]] = "pending" =>
                          status[wrun[k]] = "pending" \/ wout[k] = "retry"
<1>4. ASSUME SettleRetry(k) PROVE Effect
  BY <1>1, <1>4 DEF SettleRetry, TypeOK
<1>5. ASSUME SettleTemporary(k) PROVE Effect
  BY <1>1, <1>5 DEF SettleTemporary, RemoveThread, TypeOK
<1>6. ASSUME SettleStateful(k) PROVE Effect
  <2>1. FinalStatus(wout[k]) \in Settled \cup {"deleted"}
    BY <1>1, <1>6 DEF SettleStateful, FinalStatus
  <2> QED BY <1>1, <1>6, <2>1 DEF SettleStateful, SetJointStatus, TypeOK
<1> QED BY <1>1, <1>3, <1>4, <1>5, <1>6 DEF Settle

-----------------------------------------------------------------------------
(***************************************************************************)
(* One running run for each thread                                         *)
(***************************************************************************)

\* The ranks of created_at are distinct and not above the clock.
RanksDistinct ==
    /\ \A r \in Run : created[r] <= clock
    /\ \A r, q \in Run : created[r] = created[q] /\ created[r] # 0 => r = q

\* No two runs get the same rank.
LEMMA RanksStep == TypeOK /\ RanksDistinct /\ [Next]_vars => RanksDistinct'
<1> SUFFICES ASSUME TypeOK, RanksDistinct, [Next]_vars PROVE RanksDistinct'
  OBVIOUS
<1>1. \/ UNCHANGED <<created, clock>>
      \/ \E r \in Run : created' = [created EXCEPT ![r] = clock + 1] /\ clock' = clock + 1
  <2>1. ASSUME NEW call \in CancelCall, NEW others \in SUBSET CancelCall,
               CancelLoop(call, others)
        PROVE  UNCHANGED <<created, clock>>
    BY <2>1, CancelLoopQuiet
  <2>2. CASE UNCHANGED vars
    BY <2>2 DEF vars, storeVars
  <2>3. CASE Client
    <3>1. ASSUME NEW t \in Thread, CreateThread(t) \/ DeleteThread(t)
          PROVE  UNCHANGED <<created, clock>>
      BY <3>1 DEF CreateThread, DeleteThread
    <3>2. ASSUME NEW r \in Run, NEW ifNotExists, DeleteRun(r) \/ RejectRun(r, ifNotExists)
          PROVE  UNCHANGED <<created, clock>>
      BY <3>2 DEF DeleteRun, RejectRun
    <3>3. ASSUME NEW r \in Run, NEW strategy, NEW ifNotExists, NEW delayed,
                 CreateRun(r, strategy, ifNotExists, delayed)
          PROVE  \/ UNCHANGED <<created, clock>>
                 \/ created' = [created EXCEPT ![r] = clock + 1] /\ clock' = clock + 1
      BY <3>3 DEF CreateRun
    <3>4. ASSUME NEW t \in Thread, NEW ids \in SUBSET Run, NEW action \in CancelAction,
                 CancelRuns(t, ids, action)
          PROVE  UNCHANGED <<created, clock>>
      BY <3>4 DEF CancelRuns, CancelLoop, CancelPart
    <3>5. ASSUME NEW ids, NEW action, CancelUnscoped(ids, action)
          PROVE  UNCHANGED <<created, clock>>
      BY <3>5 DEF CancelUnscoped, CancelLoop, CancelPart
    <3> QED BY <2>3, <3>1, <3>2, <3>3, <3>4, <3>5
            DEF Client, CancelByStatus, CancelByAssistant
  <2>4. CASE Server
    <3>1. ASSUME NEW op \in ops,
                 CancelInflight(op) \/ ContinueCancel(op) \/ GatherCancelled(op)
          PROVE  UNCHANGED <<created, clock>>
      BY <3>1 DEF CancelInflight, ContinueCancel, CancelLoop, CancelPart, GatherCancelled,
                  storeVars
    <3>2. CASE SchedWait \/ SchedNext
      BY <3>2 DEF SchedWait, SchedNext, storeVars
    <3> QED BY <2>4, <3>1, <3>2 DEF Server, BecomeDue
  <2>5. ASSUME NEW k \in Runner, Worker(k) PROVE UNCHANGED <<created, clock>>
    BY <2>5 DEF Worker, WorkerFailsEarly, Enter, ListenKey, ListenQueue, ListenTimeout,
                FinishExecution, StopExecution, Execution, Settle, Leave, Raise, storeVars
  <2> QED BY <2>2, <2>3, <2>4, <2>5 DEF Next
<1>2. CASE UNCHANGED <<created, clock>>
  BY <1>2 DEF RanksDistinct
<1>3. ASSUME NEW r \in Run, created' = [created EXCEPT ![r] = clock + 1], clock' = clock + 1
      PROVE  RanksDistinct'
  BY <1>3 DEF RanksDistinct, TypeOK
<1> QED BY <1>1, <1>2, <1>3

\* No step sets a second run of a thread to running.
LEMMA OneRunningStep ==
    TypeOK /\ RanksDistinct /\ OneRunningPerThread /\ [Next]_vars => OneRunningPerThread'
<1> SUFFICES ASSUME TypeOK, RanksDistinct, OneRunningPerThread, [Next]_vars
             PROVE  OneRunningPerThread'
  OBVIOUS
<1>1. ASSUME \A r \in Run : status'[r] = "running" => status[r] = "running"
      PROVE  OneRunningPerThread'
  BY <1>1 DEF OneRunningPerThread
<1>2. CASE QuietStep
  BY <1>1, <1>2 DEF QuietStep
<1>3. ASSUME NEW k \in Runner, Settle(k) PROVE OneRunningPerThread'
  BY <1>1, <1>3, SettleEffect
<1>4. CASE SchedNext
  <2>1. PICK taken \in SUBSET Run, used \in SUBSET Runner : SchedStarts(taken, used)
    BY <1>4, SchedEffect
  <2>2. ASSUME NEW r \in Run, NEW q \in Run, status'[r] = "running",
               status'[q] = "running", ThreadOf[r] = ThreadOf[q]
        PROVE  r = q
    <3>1. CASE r \in taken /\ q \in taken
      BY <2>1, <2>2, <3>1 DEF SchedStarts, RanksDistinct
    <3>2. CASE r \in taken /\ q \notin taken
      BY <2>1, <2>2, <3>2 DEF SchedStarts, HasRunning
    <3>3. CASE r \notin taken /\ q \in taken
      BY <2>1, <2>2, <3>3 DEF SchedStarts, HasRunning
    <3>4. CASE r \notin taken /\ q \notin taken
      BY <2>1, <2>2, <3>4 DEF SchedStarts, OneRunningPerThread
    <3> QED BY <3>1, <3>2, <3>3, <3>4
  <2> QED BY <2>2 DEF OneRunningPerThread
<1> QED BY <1>2, <1>3, <1>4, StepKinds

\* The thread lock of Runs.next holds whatever the requests, the retries and the
\* other workers do: two runs of a thread are never "running" at once.
THEOREM OneRunning == Spec => []OneRunningPerThread
<1> DEFINE Inv == TypeOK /\ RanksDistinct /\ OneRunningPerThread
<1>1. Init => Inv
  <2>1. Init => RanksDistinct /\ OneRunningPerThread
    BY DEF Init, RanksDistinct, OneRunningPerThread
  <2> QED BY <2>1, InitTypeOK
<1>2. Inv /\ [Next]_vars => Inv'
  BY NextTypeOK, RanksStep, OneRunningStep
<1> QED BY <1>1, <1>2, PTL DEF Spec

-----------------------------------------------------------------------------
(***************************************************************************)
(* Who executes a run, and how often                                       *)
(***************************************************************************)

\* The run of a worker that has not written its outcome is running, unless a
\* request has cancelled or deleted it.
ExecutorOwns ==
    \A k \in Runner : Live(k) => status[wrun[k]] \in {"running", "interrupted", "deleted"}

ExecInv == TypeOK /\ ExecutorOwns /\ SoleExecutor

\* No step gives a run to a second worker.
LEMMA ExecStep == ExecInv /\ [Next]_vars => ExecutorOwns' /\ SoleExecutor'
<1> SUFFICES ASSUME ExecInv, [Next]_vars PROVE ExecutorOwns' /\ SoleExecutor'
  OBVIOUS
<1> USE DEF ExecInv
<1>1. \A k \in Runner : Live(k) => wrun[k] \in Run
  BY DEF Live, TypeOK
<1>2. CASE QuietStep
  <2>1. \A k \in Runner : Live(k)' => Live(k) /\ wrun'[k] = wrun[k]
    BY <1>2 DEF QuietStep, Live
  <2>2. \A r \in Run : status[r] \in {"running", "interrupted", "deleted"} =>
                         status'[r] \in {"running", "interrupted", "deleted"}
    BY <1>2 DEF QuietStep
  <2>3. ExecutorOwns'
    BY <1>1, <2>1, <2>2 DEF ExecutorOwns
  <2>4. SoleExecutor'
    BY <2>1 DEF SoleExecutor
  <2> QED BY <2>3, <2>4
<1>3. ASSUME NEW k \in Runner, Settle(k) PROVE ExecutorOwns' /\ SoleExecutor'
  <2>1. /\ wpc[k] = "settling"
        /\ \A q \in Run : q # wrun[k] => status'[q] \in {status[q], "deleted"}
        /\ \A j \in Runner : j # k => wpc'[j] = wpc[j]
        /\ wpc'[k] \in {"leaving", "raising"}
        /\ wrun' = wrun
    BY <1>3, SettleEffect
  <2>2. \A j \in Runner : Live(j)' => j # k /\ Live(j)
    BY <2>1 DEF Live
  <2>3. \A j \in Runner : Live(j)' => wrun[j] # wrun[k]
    BY <2>1, <2>2 DEF SoleExecutor, Live
  <2>4. ExecutorOwns'
    BY <1>1, <2>1, <2>2, <2>3 DEF ExecutorOwns
  <2>5. SoleExecutor'
    BY <2>1, <2>2 DEF SoleExecutor
  <2> QED BY <2>4, <2>5
<1>4. CASE SchedNext
  <2>1. PICK taken \in SUBSET Run, used \in SUBSET Runner : SchedStarts(taken, used)
    BY <1>4, SchedEffect
  <2>2. \A k \in Runner \ used : Live(k)' => Live(k) /\ wrun[k] \notin taken
    BY <2>1 DEF SchedStarts, Live, ExecutorOwns
  <2>3. ExecutorOwns'
    <3>1. ASSUME NEW k \in used PROVE status'[wrun'[k]] = "running"
      BY <2>1 DEF SchedStarts
    <3>2. ASSUME NEW k \in Runner \ used, Live(k)'
          PROVE  status'[wrun'[k]] \in {"running", "interrupted", "deleted"}
      BY <1>1, <2>1, <2>2, <3>2 DEF SchedStarts, ExecutorOwns
    <3> QED BY <3>1, <3>2 DEF SchedStarts, ExecutorOwns
  <2>4. ASSUME NEW k \in Runner, NEW j \in Runner, Live(k)', Live(j)', wrun'[k] = wrun'[j]
        PROVE  k = j
    <3>1. CASE k \in used /\ j \in used
      BY <2>1, <2>4, <3>1 DEF SchedStarts
    <3>2. CASE k \notin used /\ j \notin used
      BY <2>1, <2>2, <2>4, <3>2 DEF SchedStarts, SoleExecutor
    <3>3. CASE k \in used /\ j \notin used
      BY <2>1, <2>2, <2>4, <3>3 DEF SchedStarts
    <3>4. CASE k \notin used /\ j \in used
      BY <2>1, <2>2, <2>4, <3>4 DEF SchedStarts
    <3> QED BY <3>1, <3>2, <3>3, <3>4
  <2>5. SoleExecutor'
    BY <2>4 DEF SoleExecutor
  <2> QED BY <2>3, <2>5
<1> QED BY <1>2, <1>3, <1>4, StepKinds

\* The invariant about runs and their workers.
LEMMA ExecAlways == Spec => []ExecInv
<1>1. Init => ExecInv
  <2>1. Init => ExecutorOwns /\ SoleExecutor
    BY DEF Init, ExecutorOwns, SoleExecutor, Live
  <2> QED BY <2>1, InitTypeOK DEF ExecInv
<1>2. ExecInv /\ [Next]_vars => ExecInv'
  BY NextTypeOK, ExecStep DEF ExecInv
<1> QED BY <1>1, <1>2, PTL DEF Spec

\* No run is executed by two workers at once.
THEOREM OneExecutor == Spec => []SoleExecutor
<1>1. ExecInv => SoleExecutor
  BY DEF ExecInv
<1> QED BY <1>1, ExecAlways, PTL

\* What keeps the number of attempts within its limit: a run is queued with
\* attempts to spare, a worker is given the count of its run, and only a worker
\* within the limit can queue its run again.
AttemptInv ==
    /\ \A r \in Run : status[r] = "new" => attempt[r] = 0
    /\ \A r \in Run : status[r] = "pending" => attempt[r] <= MaxRetries
    /\ AttemptsBounded
    /\ \A k \in Runner : wpc[k] = "starting" => watt[k] = attempt[wrun[k]]
    /\ \A k \in Runner : MayRetry(k) => attempt[wrun[k]] <= MaxRetries

\* No step counts an attempt beyond the limit.
LEMMA AttemptStep == ExecInv /\ AttemptInv /\ [Next]_vars => AttemptInv'
<1> SUFFICES ASSUME ExecInv, AttemptInv, [Next]_vars PROVE AttemptInv'
  OBVIOUS
<1>1. TypeOK /\ ExecutorOwns /\ MaxRetries \in Nat
  BY RunLifecycleAssumption DEF ExecInv
<1>2. CASE QuietStep
  <2>1. \A k \in Runner : wpc'[k] = "starting" \/ MayRetry(k)' =>
            wpc[k] # "free" /\ wrun'[k] = wrun[k] /\ wrun[k] \in Run
    BY <1>1, <1>2 DEF QuietStep, MayRetry, TypeOK
  <2>2. /\ attempt' = attempt
        /\ attempt \in [Run -> Nat]
    BY <1>1, <1>2 DEF QuietStep, TypeOK
  <2>3. \A r \in Run : /\ status'[r] = "new" => status[r] = "new"
                       /\ status'[r] = "pending" => status[r] \in {"new", "pending"}
    BY <1>2 DEF QuietStep
  <2>4. \A k \in Runner : wpc'[k] = "starting" => watt'[k] = attempt'[wrun'[k]]
    BY <1>2, <2>1, <2>2 DEF QuietStep, AttemptInv
  <2>5. \A k \in Runner : MayRetry(k)' => attempt'[wrun'[k]] <= MaxRetries
    BY <1>1, <1>2, <2>1, <2>2 DEF QuietStep, AttemptInv, MayExecute, ExceedsRetries
  <2> QED BY <1>1, <2>2, <2>3, <2>4, <2>5 DEF AttemptInv, AttemptsBounded
<1>3. ASSUME NEW k \in Runner, Settle(k) PROVE AttemptInv'
  <2>1. /\ wpc[k] = "settling"
        /\ wrun[k] \in Run
        /\ \A q \in Run : q # wrun[k] => status'[q] \in {status[q], "deleted"}
        /\ status'[wrun[k]] \in {status[wrun[k]], "pending", "deleted"} \cup Settled
        /\ status'[wrun[k]] = "pending" =>
             status[wrun[k]] = "pending" \/ wout[k] = "retry"
        /\ \A j \in Runner : j # k => wpc'[j] = wpc[j] /\ wout'[j] = wout[j]
        /\ wpc'[k] \in {"leaving", "raising"}
        /\ UNCHANGED <<attempt, wrun, watt>>
    BY <1>1, <1>3, SettleEffect
  <2>2. \A r \in Run : /\ status'[r] = "new" => status[r] = "new"
                       /\ status'[r] = "pending" => status[r] = "pending" \/ attempt[r] <= MaxRetries
    BY <2>1 DEF AttemptInv, MayRetry
  <2>3. \A j \in Runner : /\ wpc'[j] = "starting" => wpc[j] = "starting"
                          /\ MayRetry(j)' => MayRetry(j)
    BY <2>1 DEF MayRetry
  <2> QED BY <2>1, <2>2, <2>3 DEF AttemptInv, AttemptsBounded
<1>4. CASE SchedNext
  <2>1. PICK taken \in SUBSET Run, used \in SUBSET Runner : SchedStarts(taken, used)
    BY <1>1, <1>4, SchedEffect
  <2>2. attempt \in [Run -> Nat]
    BY <1>1 DEF TypeOK
  <2>3. \A r \in Run : attempt'[r] = IF r \in taken THEN attempt[r] + 1 ELSE attempt[r]
    BY <2>1 DEF SchedStarts
  <2>4. AttemptsBounded'
    BY <1>1, <2>1, <2>2, <2>3 DEF SchedStarts, AttemptInv, AttemptsBounded
  <2>5. \A r \in Run : /\ status'[r] = "new" => attempt'[r] = 0
                       /\ status'[r] = "pending" => attempt'[r] <= MaxRetries
    BY <2>1, <2>3 DEF SchedStarts, AttemptInv
  <2>6. \A k \in Runner \ used : wpc[k] = "starting" \/ MayRetry(k) =>
            wrun[k] \in Run /\ wrun[k] \notin taken
    BY <1>1, <2>1 DEF SchedStarts, ExecutorOwns, Live, MayRetry, TypeOK
  <2>7. \A k \in Runner : wpc'[k] = "starting" => watt'[k] = attempt'[wrun'[k]]
    BY <2>1, <2>3, <2>6 DEF SchedStarts, AttemptInv
  <2>8. \A k \in Runner : MayRetry(k)' => k \notin used /\ MayRetry(k)
    BY <2>1 DEF SchedStarts, MayRetry
  <2>9. \A k \in Runner : MayRetry(k)' => attempt'[wrun'[k]] <= MaxRetries
    BY <2>1, <2>3, <2>6, <2>8 DEF SchedStarts, AttemptInv
  <2> QED BY <2>4, <2>5, <2>7, <2>9 DEF AttemptInv
<1> QED BY <1>1, <1>2, <1>3, <1>4, StepKinds

\* BG_JOB_MAX_RETRIES bounds the attempts at a run, also of one that a retry
\* queues again after it was cancelled.
THEOREM AttemptLimit == Spec => []AttemptsBounded
<1>1. Init => AttemptInv
  BY RunLifecycleAssumption DEF Init, AttemptInv, AttemptsBounded, MayRetry
<1>2. ExecInv /\ AttemptInv /\ [Next]_vars => AttemptInv'
  BY AttemptStep
<1>3. AttemptInv => AttemptsBounded
  BY DEF AttemptInv
<1> QED BY <1>1, <1>2, <1>3, ExecAlways, PTL DEF Spec

\* An outcome is not overwritten by a late cancellation or another worker.
THEOREM OutcomeKept == Spec => OutcomeIsFinal
<1> DEFINE Keep == \A r \in Run : status[r] \in {"success", "error", "timeout"} =>
                                     status'[r] \in {status[r], "deleted"}
<1>1. ASSUME ExecInv, [Next]_vars PROVE Keep
  <2>1. CASE QuietStep
    BY <2>1 DEF QuietStep
  <2>2. ASSUME NEW k \in Runner, Settle(k) PROVE Keep
    <3>1. TypeOK
      BY <1>1 DEF ExecInv
    <3>2. /\ wpc[k] = "settling"
          /\ \A q \in Run : q # wrun[k] => status'[q] \in {status[q], "deleted"}
      BY <2>2, <3>1, SettleEffect
    <3>3. status[wrun[k]] \in {"running", "interrupted", "deleted"}
      BY <1>1, <3>2 DEF ExecInv, ExecutorOwns, Live
    <3> QED BY <3>2, <3>3
  <2>3. CASE SchedNext
    <3>1. TypeOK
      BY <1>1 DEF ExecInv
    <3>2. PICK taken \in SUBSET Run, used \in SUBSET Runner : SchedStarts(taken, used)
      BY <2>3, <3>1, SchedEffect
    <3> QED BY <3>2 DEF SchedStarts
  <2> QED BY <1>1, <2>1, <2>2, <2>3, StepKinds DEF ExecInv
<1>2. ExecInv /\ [Next]_vars => [Keep]_vars
  BY <1>1
<1> QED BY <1>2, ExecAlways, PTL DEF Spec, OutcomeIsFinal
=============================================================================
