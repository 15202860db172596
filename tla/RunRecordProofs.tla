--------------------------- MODULE RunRecordProofs ---------------------------
(***************************************************************************)
(* Theorems about RunLifecycle that relate the run records to the thread   *)
(* records, the control messages, the pool and the webhooks, and the       *)
(* refinement of the abstract queue, for every set of runs, threads and    *)
(* runners and every workload.                                             *)
(***************************************************************************)
EXTENDS RunLifecycleProofs

USE DEF CancelAction, Active, Settled, RunStatus, ThreadStatus, Outcome, Strategy

-----------------------------------------------------------------------------
(***************************************************************************)
(* Runs and their threads                                                  *)
(***************************************************************************)

StoreInv == TypeOK /\ NoOrphanRun /\ BusyWhileInflight

\* A part of the loop of Runs.cancel: a thread it declares idle is overlooked.
LEMMA CancelLoopStore ==
    ASSUME StoreInv, NEW call \in CancelCall, NEW others \in SUBSET CancelCall,
           CancelLoop(call, others)
    PROVE  NoOrphanRun' /\ BusyWhileInflight'
<1>1. PICK part \in SUBSET call.todo :
         \E marked \in Marked(call, {r \in part : Cancelable(r)}) :
            CancelPart(call, others, part, marked)
  BY DEF CancelLoop
<1>2. PICK marked \in Marked(call, {r \in part : Cancelable(r)}) :
         CancelPart(call, others, part, marked)
  BY <1>1
<1>3. \A r \in marked : status[r] \in Active
  BY MarkedSubset DEF Cancelable
<1>4. PICK idle \in SUBSET Thread :
         /\ \A t \in idle : thread[t] # "absent"
         /\ status' = [r \in Run |-> IF r \in marked THEN "interrupted" ELSE status[r]]
         /\ thread' = [t \in Thread |-> IF t \in idle THEN "idle" ELSE thread[t]]
         /\ overlooked' = overlooked \cup idle
  <2> DEFINE idle == {t \in Thread : /\ thread[t] # "absent"
                                     /\ \E r \in marked : /\ ThreadOf[r] = t
                                                          /\ status[r] = "pending"}
  <2>1. /\ status' = [r \in Run |-> IF r \in marked THEN "interrupted" ELSE status[r]]
        /\ thread' = [t \in Thread |-> IF t \in idle THEN "idle" ELSE thread[t]]
        /\ overlooked' = overlooked \cup idle
    BY <1>2 DEF CancelPart
  <2> QED BY <2>1
<1>5. NoOrphanRun'
  <2>1. \A r \in Run : Exists(r)' => Exists(r)
    BY <1>3, <1>4 DEF Exists
  <2>2. \A t \in Thread : thread[t] # "absent" => thread'[t] # "absent"
    BY <1>4
  <2> QED BY <2>1, <2>2, RunLifecycleAssumption DEF StoreInv, NoOrphanRun
<1>6. BusyWhileInflight'
  <2>1. \A t \in Thread : Inflight(t)' \subseteq Inflight(t)
    BY <1>4 DEF Inflight
  <2> QED BY <1>4, <2>1 DEF StoreInv, BusyWhileInflight
<1> QED BY <1>5, <1>6

\* A worker that settles its run: set_joint_status looks at the other inflight
\* runs, a deleted thread takes its runs along, a retry is overlooked at worst.
LEMMA SettleStore ==
    ASSUME StoreInv, NEW k \in Runner, Settle(k)
    PROVE  NoOrphanRun' /\ BusyWhileInflight'
<1>1. PICK r \in Run : r = wrun[k] /\ ThreadOf[r] \in Thread /\ wout[k] \in Outcome
  BY RunLifecycleAssumption DEF Settle, StoreInv, TypeOK
<1> DEFINE t == ThreadOf[r]
<1>2. CASE SettleRetry(k)
  <2>1. /\ thread' = thread
        /\ \A q \in Run : q # r => status'[q] = status[q]
        /\ Exists(r)' => Exists(r)
        /\ Exists(r) => thread[t] = "busy" \/ t \in overlooked'
        /\ overlooked \subseteq overlooked'
        /\ ~Exists(r) => status' = status
    BY <1>1, <1>2 DEF SettleRetry, Exists, StoreInv, TypeOK
  <2>2. NoOrphanRun'
    BY <2>1 DEF StoreInv, NoOrphanRun, Exists
  <2>3. ASSUME NEW s \in Thread, Inflight(s)' # {}
        PROVE  thread'[s] = "busy" \/ s \in overlooked'
    <3>1. CASE s = t /\ Exists(r)
      BY <2>1, <3>1
    <3>2. CASE s # t \/ ~Exists(r)
      <4>1. Inflight(s)' \subseteq Inflight(s)
        BY <2>1, <3>2 DEF Inflight
      <4> QED BY <2>1, <2>3, <4>1 DEF StoreInv, BusyWhileInflight
    <3> QED BY <3>1, <3>2
  <2> QED BY <2>2, <2>3 DEF BusyWhileInflight
<1>3. ASSUME NEW s \in Thread, RemoveThread(s) PROVE NoOrphanRun' /\ BusyWhileInflight'
  <2>1. \A q \in Run : Exists(q)' => Exists(q) /\ ThreadOf[q] # s /\ status'[q] = status[q]
    BY <1>3 DEF RemoveThread, Exists
  <2>2. \A u \in Thread : u # s =>
             thread'[u] = thread[u] /\ (u \in overlooked => u \in overlooked')
    BY <1>3 DEF RemoveThread, StoreInv, TypeOK
  <2>3. NoOrphanRun'
    BY <2>1, <2>2, RunLifecycleAssumption DEF StoreInv, NoOrphanRun
  <2>4. \A u \in Thread : Inflight(u)' # {} => u # s /\ Inflight(u) # {}
    BY <2>1 DEF Inflight, Exists
  <2> QED BY <2>2, <2>3, <2>4 DEF StoreInv, BusyWhileInflight
<1>4. CASE UNCHANGED <<status, thread, overlooked>>
  BY <1>4 DEF StoreInv, NoOrphanRun, BusyWhileInflight, Exists, Inflight
<1>5. CASE SettleTemporary(k)
  BY <1>1, <1>3, <1>4, <1>5 DEF SettleTemporary
<1>6. CASE SettleStateful(k)
  <2>1. CASE UNCHANGED <<status, thread, overlooked>>
    BY <1>4, <2>1
  <2>2. CASE /\ thread[t] # "absent" /\ Exists(r)
             /\ \E base \in BaseStatus(wout[k]) :
                   SetJointStatus(r, FinalStatus(wout[k]), base)
    <3>1. PICK base \in BaseStatus(wout[k]) : SetJointStatus(r, FinalStatus(wout[k]), base)
      BY <2>2
    <3>2. base # "absent"
      BY DEF BaseStatus
    <3>3. FinalStatus(wout[k]) \notin Active
      BY <1>1, <1>6 DEF SettleStateful, FinalStatus
    <3>4. /\ status'[r] = FinalStatus(wout[k])
          /\ \A q \in Run : q # r => status'[q] = status[q]
          /\ thread'[t] = IF Inflight(t) \ {r} # {} THEN "busy" ELSE base
          /\ \A s \in Thread : s # t => thread'[s] = thread[s]
          /\ \A s \in Thread : s # t => (s \in overlooked => s \in overlooked')
      BY <1>1, <3>1 DEF SetJointStatus, StoreInv, TypeOK
    <3>5. thread'[t] # "absent"
      BY <3>2, <3>4
    <3>6. NoOrphanRun'
      BY <2>2, <3>4, <3>5, RunLifecycleAssumption DEF StoreInv, NoOrphanRun, Exists
    <3>7. ASSUME NEW s \in Thread PROVE Inflight(s)' \subseteq Inflight(s) \ {r}
      BY <1>1, <3>3, <3>4 DEF Inflight
    <3>8. BusyWhileInflight'
      BY <3>4, <3>7 DEF StoreInv, BusyWhileInflight
    <3> QED BY <3>6, <3>8
  <2> QED BY <1>1, <1>6, <2>1, <2>2 DEF SettleStateful
<1> QED BY <1>2, <1>5, <1>6 DEF Settle

\* No step leaves a run without its thread, or a thread idle beside its run.
LEMMA StoreStep == StoreInv /\ [Next]_vars => NoOrphanRun' /\ BusyWhileInflight'
<1> SUFFICES ASSUME StoreInv, [Next]_vars PROVE NoOrphanRun' /\ BusyWhileInflight'
  OBVIOUS
<1> USE RunLifecycleAssumption
<1>1. TypeOK /\ NoOrphanRun /\ BusyWhileInflight
  BY DEF StoreInv
<1>2. CASE UNCHANGED <<status, thread, overlooked>>
  BY <1>1, <1>2 DEF NoOrphanRun, BusyWhileInflight, Exists, Inflight
<1>3. ASSUME NEW t \in Thread, CreateThread(t) PROVE NoOrphanRun' /\ BusyWhileInflight'
  <2>1. /\ thread[t] = "absent"
        /\ status' = status
        /\ thread'[t] = "idle"
        /\ \A s \in Thread : s # t =>
             thread'[s] = thread[s] /\ (s \in overlooked => s \in overlooked')
    BY <1>1, <1>3 DEF CreateThread, TypeOK
  <2>2. Inflight(t) = {}
    BY <1>1, <2>1 DEF NoOrphanRun, Inflight, Exists
  <2>3. \A s \in Thread : Inflight(s)' = Inflight(s)
    BY <2>1 DEF Inflight
  <2>4. NoOrphanRun'
    BY <1>1, <2>1 DEF NoOrphanRun, Exists
  <2> QED BY <1>1, <2>1, <2>2, <2>3, <2>4 DEF BusyWhileInflight
<1>4. ASSUME NEW r \in Run, NEW ifNotExists, TouchThread(r, ifNotExists),
             status' \in {status, [status EXCEPT ![r] = "pending"]}
      PROVE  NoOrphanRun' /\ BusyWhileInflight'
  <2> DEFINE t == ThreadOf[r]
  <2>1. /\ thread'[t] = "busy"
        /\ \A s \in Thread : s # t =>
             thread'[s] = thread[s] /\ (s \in overlooked => s \in overlooked')
    BY <1>1, <1>4 DEF TouchThread, TypeOK
  <2>2. \A q \in Run : q # r => status'[q] = status[q]
    BY <1>1, <1>4 DEF TypeOK
  <2>3. NoOrphanRun'
    BY <1>1, <2>1, <2>2 DEF NoOrphanRun, Exists
  <2>4. \A s \in Thread : s # t => Inflight(s)' \subseteq Inflight(s)
    BY <2>2 DEF Inflight
  <2> QED BY <1>1, <2>1, <2>3, <2>4 DEF BusyWhileInflight
<1>5. ASSUME NEW r \in Run, NEW strategy, NEW ifNotExists, NEW delayed,
             CreateRun(r, strategy, ifNotExists, delayed) \/ RejectRun(r, ifNotExists)
      PROVE  NoOrphanRun' /\ BusyWhileInflight'
  BY <1>4, <1>5 DEF CreateRun, RejectRun
<1>6. ASSUME NEW t \in Thread, DeleteThread(t) PROVE NoOrphanRun' /\ BusyWhileInflight'
  <2>1. \A q \in Run : Exists(q)' => Exists(q) /\ ThreadOf[q] # t /\ status'[q] = status[q]
    BY <1>6 DEF DeleteThread, RemoveThread, Exists
  <2>2. \A u \in Thread : u # t =>
             thread'[u] = thread[u] /\ (u \in overlooked => u \in overlooked')
    BY <1>1, <1>6 DEF DeleteThread, RemoveThread, TypeOK
  <2>3. NoOrphanRun'
    BY <1>1, <2>1, <2>2 DEF NoOrphanRun
  <2>4. \A u \in Thread : Inflight(u)' # {} => u # t /\ Inflight(u) # {}
    BY <2>1 DEF Inflight, Exists
  <2> QED BY <1>1, <2>2, <2>3, <2>4 DEF BusyWhileInflight
<1>7. ASSUME UNCHANGED <<thread, overlooked>>,
             \A q \in Run : status'[q] = status[q] \/ status'[q] = "deleted"
      PROVE  NoOrphanRun' /\ BusyWhileInflight'
  <2>1. NoOrphanRun'
    BY <1>1, <1>7 DEF NoOrphanRun, Exists
  <2>2. \A t \in Thread : Inflight(t)' \subseteq Inflight(t)
    BY <1>7 DEF Inflight
  <2> QED BY <1>1, <1>7, <2>1, <2>2 DEF BusyWhileInflight
<1>8. ASSUME NEW r \in Run, DeleteRun(r) PROVE NoOrphanRun' /\ BusyWhileInflight'
  BY <1>1, <1>7, <1>8 DEF DeleteRun, TypeOK
<1>9. ASSUME NEW op \in ops, GatherCancelled(op) PROVE NoOrphanRun' /\ BusyWhileInflight'
  BY <1>7, <1>9 DEF GatherCancelled
<1>10. ASSUME NEW t \in Thread, NEW ids \in SUBSET Run, NEW action \in CancelAction,
              CancelRuns(t, ids, action)
       PROVE  NoOrphanRun' /\ BusyWhileInflight'
  BY <1>1, <1>10, NewCallType, CancelLoopStore DEF CancelRuns, TypeOK
<1>11. ASSUME NEW ids \in SUBSET Run, NEW action \in CancelAction,
              CancelUnscoped(ids, action)
       PROVE  NoOrphanRun' /\ BusyWhileInflight'
  <2>1. NewCall("loop", ids, action, "none") \in CancelCall
    BY NewCallType
  <2> QED BY <1>1, <1>11, <2>1, CancelLoopStore DEF CancelUnscoped, TypeOK
<1>12. ASSUME NEW S, NEW action \in CancelAction, CancelByStatus(S, action)
       PROVE  NoOrphanRun' /\ BusyWhileInflight'
  BY <1>11, <1>12 DEF CancelByStatus
<1>13. ASSUME NEW A \in AssistantRuns, CancelByAssistant(A)
       PROVE  NoOrphanRun' /\ BusyWhileInflight'
  BY <1>11, <1>13 DEF CancelByAssistant
<1>14. ASSUME NEW op \in ops, CancelInflight(op) \/ ContinueCancel(op)
       PROVE  NoOrphanRun' /\ BusyWhileInflight'
  <2> DEFINE runs == {r \in op.ids : Exists(r)}
  <2>1. /\ op \in CancelCall
        /\ runs \in SUBSET Run
        /\ op.action \in CancelAction
        /\ ops \ {op} \in SUBSET CancelCall
    BY <1>1 DEF TypeOK, CancelCall
  <2>2. NewCall("loop", runs, op.action, "thread") \in CancelCall
    BY <2>1, NewCallType
  <2>3. \/ UNCHANGED <<status, thread, overlooked>>
        \/ CancelLoop(NewCall("loop", runs, op.action, "thread"), ops \ {op})
        \/ CancelLoop(op, ops \ {op})
    BY <1>14 DEF CancelInflight, ContinueCancel, storeVars
  <2> HIDE DEF runs
  <2> QED BY <1>2, <2>1, <2>2, <2>3, CancelLoopStore
<1>15. CASE SchedNext
  <2>1. PICK taken \in SUBSET Run, used \in SUBSET Runner : SchedStarts(taken, used)
    BY <1>1, <1>15, SchedEffect
  <2>2. /\ \A r \in Run : \/ status'[r] = status[r]
                          \/ status[r] = "pending" /\ status'[r] = "running"
        /\ UNCHANGED <<thread, overlooked>>
    BY <2>1 DEF SchedStarts
  <2>3. \A t \in Thread : Inflight(t)' \subseteq Inflight(t)
    BY <2>2 DEF Inflight
  <2>4. NoOrphanRun'
    BY <1>1, <2>2 DEF NoOrphanRun, Exists
  <2> QED BY <1>1, <2>2, <2>3, <2>4 DEF BusyWhileInflight
<1>16. ASSUME NEW r \in Run, BecomeDue(r) PROVE UNCHANGED <<status, thread, overlooked>>
  BY <1>16 DEF BecomeDue
<1>17. CASE SchedWait
  BY <1>2, <1>17 DEF SchedWait, storeVars
<1>18. ASSUME NEW k \in Runner, Worker(k) PROVE NoOrphanRun' /\ BusyWhileInflight'
  <2>1. CASE Settle(k)
    BY <2>1, SettleStore
  <2>2. CASE ~Settle(k)
    <3>1. UNCHANGED <<status, thread, overlooked>>
      BY <1>18, <2>2 DEF Worker, WorkerFailsEarly, Enter, ListenKey, ListenQueue,
           ListenTimeout, FinishExecution, StopExecution, Execution, Leave, Raise, storeVars
    <3> QED BY <1>2, <3>1
  <2> QED BY <2>1, <2>2
<1>19. CASE UNCHANGED vars
  BY <1>2, <1>19 DEF vars, storeVars
<1>20. CASE Client
  BY <1>20, <1>3, <1>5, <1>6, <1>8, <1>10, <1>12, <1>13 DEF Client
<1>21. CASE Server
  BY <1>21, <1>2, <1>9, <1>14, <1>15, <1>16, <1>17 DEF Server
<1> QED BY <1>18, <1>19, <1>20, <1>21 DEF Next

\* The invariant about runs and threads.
LEMMA StoreAlways == Spec => []StoreInv
<1>1. Init => StoreInv
  <2>1. Init => NoOrphanRun /\ BusyWhileInflight
    BY DEF Init, NoOrphanRun, BusyWhileInflight, Exists, Inflight
  <2> QED BY <2>1, InitTypeOK DEF StoreInv
<1>2. StoreInv /\ [Next]_vars => StoreInv'
  BY NextTypeOK, StoreStep DEF StoreInv
<1> QED BY <1>1, <1>2, PTL DEF Spec

\* No run is left without its thread: not by a stateless run that removes the
\* thread, a deletion, a retry or a late cancellation.
THEOREM NoOrphans == Spec => []NoOrphanRun
<1>1. StoreInv => NoOrphanRun
  BY DEF StoreInv
<1> QED BY <1>1, StoreAlways, PTL

\* A thread with inflight runs is busy, but for the two ways in which the code
\* overlooks them.
THEOREM ThreadsBusy == Spec => []BusyWhileInflight
<1>1. StoreInv => BusyWhileInflight
  BY DEF StoreInv
<1> QED BY <1>1, StoreAlways, PTL

-----------------------------------------------------------------------------
(***************************************************************************)
(* Steps of requests, which no worker notices                              *)
(***************************************************************************)

\* A request changes neither control messages nor workers nor webhooks, and no
\* step but those of the scheduler changes the limit.
LEMMA ClientFrame ==
    ASSUME Client PROVE UNCHANGED <<controlKey, sched, workerVars, webhooks>>
<1>1. ASSUME NEW call, NEW others, CancelLoop(call, others)
      PROVE  UNCHANGED <<controlKey, sched, workerVars, webhooks>>
  BY <1>1 DEF CancelLoop, CancelPart
<1>2. ASSUME NEW t \in Thread, CreateThread(t) \/ DeleteThread(t)
      PROVE  UNCHANGED <<controlKey, sched, workerVars, webhooks>>
  BY <1>2 DEF CreateThread, DeleteThread
<1>3. ASSUME NEW r \in Run, NEW strategy, NEW ifNotExists, NEW delayed,
             \/ CreateRun(r, strategy, ifNotExists, delayed)
             \/ RejectRun(r, ifNotExists)
             \/ DeleteRun(r)
      PROVE  UNCHANGED <<controlKey, sched, workerVars, webhooks>>
  BY <1>3 DEF CreateRun, RejectRun, DeleteRun
<1>4. ASSUME NEW t, NEW ids, NEW action,
             CancelRuns(t, ids, action) \/ CancelUnscoped(ids, action)
      PROVE  UNCHANGED <<controlKey, sched, workerVars, webhooks>>
  BY <1>1, <1>4 DEF CancelRuns, CancelUnscoped
<1> QED BY <1>2, <1>3, <1>4 DEF Client, CancelByStatus, CancelByAssistant

\* The same for the parts of Runs.cancel before its gather.
LEMMA CancelFrame ==
    ASSUME NEW op \in ops, CancelInflight(op) \/ ContinueCancel(op)
    PROVE  UNCHANGED <<controlKey, sched, workerVars, webhooks>>
<1>1. ASSUME NEW call, NEW others, CancelLoop(call, others)
      PROVE  UNCHANGED <<controlKey, sched, workerVars, webhooks>>
  BY <1>1 DEF CancelLoop, CancelPart
<1> QED BY <1>1 DEF CancelInflight, ContinueCancel

-----------------------------------------------------------------------------
(***************************************************************************)
(* Cancellations                                                           *)
(***************************************************************************)

\* No step loses a cancellation that was put.
LEMMA CancelHeardStep == TypeOK /\ NoLostCancel /\ [Next]_vars => NoLostCancel'
<1> SUFFICES ASSUME TypeOK, NoLostCancel, [Next]_vars PROVE NoLostCancel'
  OBVIOUS
<1>1. CASE UNCHANGED <<controlKey, workerVars>>
  BY <1>1 DEF NoLostCancel, workerVars
<1>2. ASSUME NEW op \in ops, GatherCancelled(op) PROVE NoLostCancel'
  <2>1. CASE Reaches(op)
    <3>1. /\ op.action \in CancelAction
          /\ \A k \in Runner : wpc[k] # "free" => wrun[k] \in Run
      BY DEF TypeOK, CancelCall
    <3>2. /\ \A r \in Run : r \notin op.ids => controlKey'[r] = controlKey[r]
          /\ \A k \in Runner : wctl[k] # "none" => wctl'[k] = wctl[k]
          /\ \A k \in Runner : wpc[k] = "executing" /\ wrun[k] \in op.ids => wctl'[k] # "none"
          /\ UNCHANGED <<wpc, wrun, wdone, wlisten>>
      BY <1>2, <2>1, <3>1 DEF GatherCancelled
    <3> QED BY <3>1, <3>2 DEF NoLostCancel
  <2>2. CASE ~Reaches(op)
    BY <1>1, <1>2, <2>2 DEF GatherCancelled, workerVars
  <2> QED BY <2>1, <2>2
<1>3. CASE SchedNext
  <2>1. PICK taken \in SUBSET Run, used \in SUBSET Runner : SchedStarts(taken, used)
    BY <1>3, SchedEffect
  <2> QED BY <2>1 DEF SchedStarts, NoLostCancel
<1>4. ASSUME NEW k \in Runner, Worker(k) PROVE NoLostCancel'
  <2>1. CASE WorkerFailsEarly(k) \/ Leave(k) \/ Raise(k)
    <3>1. /\ wpc'[k] = "free"
          /\ \A j \in Runner : j # k => /\ wpc'[j] = wpc[j]
                                        /\ wrun'[j] = wrun[j]
                                        /\ wdone'[j] = wdone[j]
                                        /\ wctl'[j] = wctl[j]
                                        /\ wlisten'[j] = wlisten[j]
      BY <2>1 DEF WorkerFailsEarly, Leave, Raise, FreeRunner, TypeOK
    <3>2. \A r \in Run : controlKey'[r] \in {controlKey[r], "done"}
      BY <2>1 DEF WorkerFailsEarly, Leave, Raise, TypeOK
    <3>3. \A j \in Runner : wpc[j] = "executing" => wrun[j] \in Run
      BY DEF TypeOK
    <3> QED BY <3>1, <3>2, <3>3 DEF NoLostCancel
  <2>2. CASE Enter(k)
    BY <2>2 DEF Enter, FirstListen, NoLostCancel, TypeOK
  <2>3. CASE ListenKey(k)
    BY <2>3 DEF ListenKey, NoLostCancel, TypeOK
  <2>4. CASE ListenQueue(k)
    BY <2>4 DEF ListenQueue, NoLostCancel, TypeOK
  <2>5. CASE ListenTimeout(k)
    BY <2>5 DEF ListenTimeout, NoLostCancel, TypeOK
  <2>6. CASE FinishExecution(k) \/ StopExecution(k)
    BY <2>6 DEF FinishExecution, StopExecution, Execution, NoLostCancel, TypeOK
  <2>7. CASE Settle(k)
    BY <2>7, SettleEffect DEF NoLostCancel
  <2> QED BY <1>4, <2>1, <2>2, <2>3, <2>4, <2>5, <2>6, <2>7 DEF Worker
<1>5. CASE UNCHANGED vars
  BY <1>1, <1>5 DEF vars
<1>6. CASE Client
  BY <1>1, <1>6, ClientFrame
<1>7. CASE Server
  <2>1. ASSUME NEW op \in ops, CancelInflight(op) \/ ContinueCancel(op) PROVE NoLostCancel'
    BY <1>1, <2>1, CancelFrame
  <2>2. ASSUME NEW r \in Run, BecomeDue(r) PROVE NoLostCancel'
    BY <1>1, <2>2 DEF BecomeDue
  <2>3. CASE SchedWait
    BY <1>1, <2>3 DEF SchedWait
  <2> QED BY <1>2, <1>3, <1>7, <2>1, <2>2, <2>3 DEF Server
<1> QED BY <1>4, <1>5, <1>6, <1>7 DEF Next

\* A cancellation under the key of an executing run is heard, on its way, or yet to
\* be read, at whatever moment it was put.
THEOREM CancelHeard == Spec => []NoLostCancel
<1>1. Init => NoLostCancel
  BY DEF Init, NoLostCancel
<1>2. TypeOK /\ NoLostCancel /\ [Next]_vars => NoLostCancel'
  BY CancelHeardStep
<1> QED BY <1>1, <1>2, TypeCorrect, PTL DEF Spec

-----------------------------------------------------------------------------
(***************************************************************************)
(* The pool of runners                                                     *)
(***************************************************************************)

\* No step takes a runner that Runs.next counts on.
LEMMA PoolStep == TypeOK /\ RunnersSuffice /\ [Next]_vars => RunnersSuffice'
<1> SUFFICES ASSUME TypeOK, RunnersSuffice, [Next]_vars PROVE RunnersSuffice'
  OBVIOUS
<1>1. ASSUME NEW S \in SUBSET Runner PROVE IsFiniteSet(S) /\ Cardinality(S) \in Nat
  BY <1>1, FS_Subset, FS_CardinalityType, RunLifecycleAssumption
<1>2. FreeRunners \in SUBSET Runner /\ FreeRunners' \in SUBSET Runner
  BY DEF FreeRunners
<1>3. ASSUME \A k \in Runner : wpc'[k] # "free" => wpc[k] # "free", sched' = sched
      PROVE  RunnersSuffice'
  <2>1. FreeRunners \subseteq FreeRunners'
    BY <1>3 DEF FreeRunners
  <2>2. Cardinality(FreeRunners) <= Cardinality(FreeRunners')
    BY <1>1, <1>2, <2>1, FS_Subset
  <2>3. sched.limit \in Nat
    BY DEF TypeOK
  <2>4. Cardinality(FreeRunners') = Cardinality(FreeRunners)'
    OBVIOUS
  <2> QED BY <1>1, <1>2, <1>3, <2>2, <2>3, <2>4 DEF RunnersSuffice
<1>4. CASE SchedWait
  <2>1. sched'.limit = Cardinality(FreeRunners) /\ wpc' = wpc
    BY <1>4 DEF SchedWait, QSize, workerVars
  <2>2. FreeRunners' = FreeRunners
    BY <2>1 DEF FreeRunners
  <2> QED BY <1>1, <1>2, <2>1, <2>2 DEF RunnersSuffice
<1>5. CASE SchedNext
  <2>1. sched'.limit = 0
    BY <1>5 DEF SchedNext
  <2> QED BY <1>1, <1>2, <2>1 DEF RunnersSuffice
<1>6. CASE QuietStep /\ sched' = sched
  BY <1>3, <1>6 DEF QuietStep
<1>7. ASSUME NEW k \in Runner, Settle(k) PROVE RunnersSuffice'
  BY <1>3, <1>7, SettleEffect
<1>8. SchedWait \/ SchedNext \/ sched' = sched
  <2>1. CASE Client
    BY <2>1, ClientFrame
  <2>2. CASE Server
    <3>1. ASSUME NEW op \in ops, CancelInflight(op) \/ ContinueCancel(op)
          PROVE  sched' = sched
      BY <3>1, CancelFrame
    <3> QED BY <2>2, <3>1 DEF Server, GatherCancelled, BecomeDue
  <2>3. ASSUME NEW k \in Runner, Worker(k) PROVE sched' = sched
    BY <2>3 DEF Worker, WorkerFailsEarly, Enter, ListenKey, ListenQueue, ListenTimeout,
                FinishExecution, StopExecution, Execution, Settle, Leave, Raise
  <2>4. CASE UNCHANGED vars
    BY <2>4 DEF vars
  <2> QED BY <2>1, <2>2, <2>3, <2>4 DEF Next
<1> QED BY <1>4, <1>5, <1>6, <1>7, <1>8, StepKinds

\* queue() never asks Runs.next for more runs than there are runners to take from
\* the pool when the runs arrive.
THEOREM PoolSuffices == Spec => []RunnersSuffice
<1>1. Init => RunnersSuffice
  <2>1. FreeRunners \in SUBSET Runner
    BY DEF FreeRunners
  <2>2. Cardinality(FreeRunners) \in Nat
    BY <2>1, FS_Subset, FS_CardinalityType, RunLifecycleAssumption
  <2> QED BY <2>2 DEF Init, RunnersSuffice
<1>2. TypeOK /\ RunnersSuffice /\ [Next]_vars => RunnersSuffice'
  BY PoolStep
<1> QED BY <1>1, <1>2, TypeCorrect, PTL DEF Spec

-----------------------------------------------------------------------------
(***************************************************************************)
(* Webhooks                                                                *)
(***************************************************************************)

\* The webhook of the run was called or is about to be.
Reported(r) == webhooks[r] # 0 \/ \E k \in Runner : wpc[k] = "leaving" /\ wrun[k] = r

\* What keeps a webhook from being called twice: a reported run has come to rest and
\* nobody works on it, and the one worker about to call its webhook is the first.
WebhookInv ==
    /\ WebhookAtMostOnce
    /\ \A r \in Run : Reported(r) => /\ status[r] \in Settled \cup {"deleted"}
                                     /\ \A k \in Runner : Live(k) => wrun[k] # r
    /\ \A k \in Runner : wpc[k] = "leaving" => webhooks[wrun[k]] = 0
    /\ \A k, j \in Runner :
          wpc[k] = "leaving" /\ wpc[j] = "leaving" /\ wrun[k] = wrun[j] => k = j

\* The run of a worker that goes on to the end of its block has come to rest.
LEMMA SettleReports ==
    ASSUME StoreInv, ExecutorOwns, NEW k \in Runner, Settle(k), wpc'[k] = "leaving",
           NEW r \in Run, r = wrun[k]
    PROVE  status'[r] \in Settled \cup {"deleted"}
<1>1. /\ wout[k] \in Outcome
      /\ status[r] \in {"running", "interrupted", "deleted"}
      /\ Exists(r) => thread[ThreadOf[r]] # "absent"
      /\ status \in [Run -> RunStatus]
      /\ wpc \in [Runner -> {"free", "starting", "executing", "settling", "leaving",
                             "raising"}]
  BY DEF Settle, StoreInv, TypeOK, ExecutorOwns, Live, NoOrphanRun
<1>2. CASE SettleRetry(k)
  BY <1>1, <1>2 DEF SettleRetry, MoveTo
<1>3. CASE SettleTemporary(k)
  <2>1. RemoveThread(ThreadOf[r])
    BY <1>1, <1>3 DEF SettleTemporary, MoveTo
  <2> QED BY <1>1, <2>1 DEF RemoveThread, Exists
<1>4. CASE SettleStateful(k)
  <2>1. FinalStatus(wout[k]) \in Settled \cup {"deleted"}
    BY <1>1, <1>4 DEF SettleStateful, FinalStatus
  <2>2. CASE thread[ThreadOf[r]] # "absent" /\ Exists(r)
    <3>1. status' = [status EXCEPT ![r] = FinalStatus(wout[k])]
      BY <1>4, <2>2 DEF SettleStateful, SetJointStatus
    <3> QED BY <1>1, <2>1, <3>1
  <2>3. CASE ~(thread[ThreadOf[r]] # "absent" /\ Exists(r))
    <3>1. status' = status /\ ~Exists(r)
      BY <1>1, <1>4, <2>3 DEF SettleStateful
    <3> QED BY <1>1, <3>1 DEF Exists
  <2> QED BY <2>2, <2>3
<1> QED BY <1>2, <1>3, <1>4 DEF Settle

\* The end of a worker is the only step that calls a webhook.
LEMMA WebhookFrame ==
    ASSUME [Next]_vars
    PROVE  webhooks' = webhooks \/ \E k \in Runner : Leave(k)
<1>1. CASE Client
  BY <1>1, ClientFrame
<1>2. CASE Server
  <2>1. ASSUME NEW op \in ops, CancelInflight(op) \/ ContinueCancel(op)
        PROVE  webhooks' = webhooks
    BY <2>1, CancelFrame
  <2> QED BY <1>2, <2>1 DEF Server, GatherCancelled, BecomeDue, SchedWait, SchedNext
<1>3. ASSUME NEW k \in Runner, Worker(k), ~Leave(k) PROVE webhooks' = webhooks
  BY <1>3 DEF Worker, WorkerFailsEarly, Enter, ListenKey, ListenQueue, ListenTimeout,
              FinishExecution, StopExecution, Execution, Settle, Raise
<1>4. CASE UNCHANGED vars
  BY <1>4 DEF vars
<1> QED BY <1>1, <1>2, <1>3, <1>4 DEF Next

\* No step lets a webhook be called again.
LEMMA WebhookStep == StoreInv /\ ExecInv /\ WebhookInv /\ [Next]_vars => WebhookInv'
<1> SUFFICES ASSUME StoreInv, ExecInv, WebhookInv, [Next]_vars PROVE WebhookInv'
  OBVIOUS
<1>1. /\ TypeOK /\ ExecutorOwns /\ SoleExecutor
      /\ webhooks \in [Run -> Nat]
      /\ \A k \in Runner : wpc[k] # "free" => wrun[k] \in Run
  BY DEF ExecInv, TypeOK
<1>2. ASSUME NEW k \in Runner, Leave(k) PROVE WebhookInv'
  <2>1. PICK r \in Run : r = wrun[k]
    BY <1>1, <1>2 DEF Leave
  <2>2. /\ wpc[k] = "leaving"
        /\ status' = status
        /\ webhooks' = [webhooks EXCEPT ![r] = @ + 1]
        /\ wpc' = [wpc EXCEPT ![k] = "free"]
        /\ \A j \in Runner : j # k => wrun'[j] = wrun[j]
    BY <1>1, <1>2, <2>1 DEF Leave, FreeRunner, storeVars, TypeOK
  <2>3. wpc'[k] = "free" /\ \A j \in Runner : j # k => wpc'[j] = wpc[j]
    BY <1>1, <2>2 DEF TypeOK
  <2>4. webhooks'[r] = 1 /\ \A q \in Run : q # r => webhooks'[q] = webhooks[q]
    BY <1>1, <2>1, <2>2 DEF WebhookInv
  <2>5. \A q \in Run : Reported(q)' => Reported(q)
    BY <2>1, <2>2, <2>3, <2>4 DEF Reported
  <2>6. \A j \in Runner : Live(j)' => Live(j) /\ wrun'[j] = wrun[j]
    BY <2>2, <2>3 DEF Live
  <2>7. WebhookAtMostOnce'
    BY <2>4 DEF WebhookInv, WebhookAtMostOnce
  <2>8. \A j \in Runner : wpc'[j] = "leaving" => wrun[j] # r /\ wrun[j] \in Run
    BY <1>1, <2>1, <2>2, <2>3 DEF WebhookInv
  <2>9. \A j \in Runner : wpc'[j] = "leaving" => webhooks'[wrun'[j]] = 0
    BY <2>2, <2>3, <2>4, <2>8 DEF WebhookInv
  <2>10. \A i, j \in Runner :
            wpc'[i] = "leaving" /\ wpc'[j] = "leaving" /\ wrun'[i] = wrun'[j] => i = j
    BY <2>2, <2>3 DEF WebhookInv
  <2>11. \A q \in Run : Reported(q)' => /\ status'[q] \in Settled \cup {"deleted"}
                                        /\ \A j \in Runner : Live(j)' => wrun'[j] # q
    BY <2>2, <2>5, <2>6 DEF WebhookInv
  <2> QED BY <2>7, <2>9, <2>10, <2>11 DEF WebhookInv
<1>3. CASE QuietStep /\ webhooks' = webhooks
  <2>1. \A j \in Runner : wpc'[j] = "leaving" => wpc[j] = "leaving" /\ wrun'[j] = wrun[j]
    BY <1>3 DEF QuietStep
  <2>2. \A j \in Runner : Live(j)' => Live(j) /\ wrun'[j] = wrun[j]
    BY <1>3 DEF QuietStep, Live
  <2>3. \A q \in Run : Reported(q)' => Reported(q)
    BY <1>3, <2>1 DEF Reported
  <2>4. \A q \in Run : status[q] \in Settled \cup {"deleted"} =>
                         status'[q] \in Settled \cup {"deleted"}
    BY <1>3 DEF QuietStep
  <2>5. \A q \in Run : Reported(q)' => /\ status'[q] \in Settled \cup {"deleted"}
                                       /\ \A j \in Runner : Live(j)' => wrun'[j] # q
    BY <2>2, <2>3, <2>4 DEF WebhookInv
  <2>6. WebhookAtMostOnce'
    BY <1>3 DEF WebhookInv, WebhookAtMostOnce
  <2> QED BY <1>3, <2>1, <2>5, <2>6 DEF WebhookInv
<1>4. ASSUME NEW k \in Runner, Settle(k) PROVE WebhookInv'
  <2>1. PICK r \in Run : r = wrun[k]
    BY <1>1, <1>4, SettleEffect
  <2>2. /\ wpc[k] = "settling"
        /\ \A q \in Run : q # r => status'[q] \in {status[q], "deleted"}
        /\ \A j \in Runner : j # k => wpc'[j] = wpc[j]
        /\ wpc'[k] \in {"leaving", "raising"}
        /\ UNCHANGED <<webhooks, wrun>>
    BY <1>1, <1>4, <2>1, SettleEffect
  <2>3. wpc'[k] = "leaving" => status'[r] \in Settled \cup {"deleted"}
    BY <1>1, <1>4, <2>1, SettleReports
  <2>4. Live(k) /\ ~Reported(r)
    BY <2>1, <2>2 DEF Live, WebhookInv
  <2>5. webhooks[r] = 0 /\ \A j \in Runner : wpc[j] = "leaving" => wrun[j] # r
    BY <2>4 DEF Reported
  <2>6. \A j \in Runner : Live(j)' => Live(j) /\ j # k /\ wrun[j] # r
    BY <1>1, <2>1, <2>2, <2>4 DEF Live, SoleExecutor
  <2>7. \A q \in Run : Reported(q)' => (q # r /\ Reported(q)) \/ (q = r /\ wpc'[k] = "leaving")
    BY <2>1, <2>2, <2>4, <2>5 DEF Reported
  <2>8. \A q \in Run : Reported(q)' => /\ status'[q] \in Settled \cup {"deleted"}
                                       /\ \A j \in Runner : Live(j)' => wrun'[j] # q
    BY <2>2, <2>3, <2>6, <2>7 DEF WebhookInv
  <2>9. \A j \in Runner : wpc'[j] = "leaving" => webhooks'[wrun'[j]] = 0
    BY <2>1, <2>2, <2>5 DEF WebhookInv
  <2>10. \A i, j \in Runner :
            wpc'[i] = "leaving" /\ wpc'[j] = "leaving" /\ wrun'[i] = wrun'[j] => i = j
    BY <2>1, <2>2, <2>5 DEF WebhookInv
  <2>11. WebhookAtMostOnce'
    BY <2>2 DEF WebhookInv, WebhookAtMostOnce
  <2> QED BY <2>8, <2>9, <2>10, <2>11 DEF WebhookInv
<1>5. CASE SchedNext
  <2>1. PICK taken \in SUBSET Run, used \in SUBSET Runner : SchedStarts(taken, used)
    BY <1>1, <1>5, SchedEffect
  <2>2. \A j \in Runner : wpc'[j] = "leaving" => wpc[j] = "leaving" /\ wrun'[j] = wrun[j]
    BY <2>1 DEF SchedStarts
  <2>3. /\ webhooks' = webhooks
        /\ \A r \in taken : status[r] = "pending"
        /\ \A r \in Run \ taken : status'[r] = status[r]
        /\ \A j \in used : wrun'[j] \in taken
        /\ \A j \in Runner \ used : wpc'[j] = wpc[j] /\ wrun'[j] = wrun[j]
    BY <2>1 DEF SchedStarts
  <2>4. \A q \in Run : Reported(q)' => Reported(q) /\ q \notin taken
    BY <2>2, <2>3 DEF Reported, WebhookInv
  <2>5. \A q \in Run : Reported(q)' => /\ status'[q] \in Settled \cup {"deleted"}
                                       /\ \A j \in Runner : Live(j)' => wrun'[j] # q
    BY <2>3, <2>4 DEF WebhookInv, Live
  <2>6. WebhookAtMostOnce'
    BY <2>3 DEF WebhookInv, WebhookAtMostOnce
  <2> QED BY <2>2, <2>3, <2>5, <2>6 DEF WebhookInv
<1> QED BY <1>1, <1>2, <1>3, <1>4, <1>5, StepKinds, WebhookFrame

\* Over all its attempts a run's webhook is called at most once, whatever is
\* cancelled, retried or deleted meanwhile.
THEOREM WebhookOnce == Spec => []WebhookAtMostOnce
<1>1. Init => WebhookInv
  BY DEF Init, WebhookInv, WebhookAtMostOnce, Reported
<1>2. StoreInv /\ ExecInv /\ WebhookInv /\ [Next]_vars => WebhookInv'
  BY WebhookStep
<1>3. WebhookInv => WebhookAtMostOnce
  BY DEF WebhookInv
<1> QED BY <1>1, <1>2, <1>3, StoreAlways, ExecAlways, PTL DEF Spec

-----------------------------------------------------------------------------
(***************************************************************************)
(* RunLifecycle implements RunQueue: the initial states map to initial     *)
(* states, and every step to a step of the abstract queue or to none.      *)
(***************************************************************************)

\* What the mapped steps rely on: who holds a run, the attempts that are left, and the
\* order in which runs were created.
QueueInv == ExecInv /\ AttemptInv /\ RanksDistinct

\* What the refinement needs to know of the states.
LEMMA QueueInvAlways == Spec => []QueueInv
<1>1. Init => QueueInv
  <2>1. Init => ExecutorOwns /\ SoleExecutor /\ RanksDistinct
    BY DEF Init, ExecutorOwns, SoleExecutor, Live, RanksDistinct
  <2>2. Init => AttemptInv
    BY RunLifecycleAssumption DEF Init, AttemptInv, AttemptsBounded, MayRetry
  <2> QED BY <2>1, <2>2, InitTypeOK DEF QueueInv, ExecInv
<1>2. QueueInv /\ [Next]_vars => QueueInv'
  <2>1. ExecInv /\ [Next]_vars => ExecInv'
    BY NextTypeOK, ExecStep DEF ExecInv
  <2> QED BY <2>1, AttemptStep, RanksStep DEF QueueInv, ExecInv
<1> QED BY <1>1, <1>2, PTL DEF Spec

\* The initial states of the code are initial states of the queue.
LEMMA InitMaps == Init => Queue!QueueInit
  BY DEF Init, Queue!QueueInit, Held, Live

\* A quiet step is a request, or a runner that lets go.
LEMMA QuietMaps == ASSUME TypeOK, TypeOK', QuietStep PROVE Queue!Request
<1>1. /\ status' \in [Run -> Queue!RunStatuses]
      /\ Held' \in [Runner -> Run \cup {NoRun}]
  <2>1. status' \in [Run -> Queue!RunStatuses]
    BY DEF TypeOK, Queue!RunStatuses, Queue!Written
  <2>2. Held' \in [Runner -> Run \cup {NoRun}]
    BY DEF TypeOK, Held, Live
  <2> QED BY <2>1, <2>2
<1>2. \A k \in Runner : Held'[k] \in {Held[k], NoRun}
  BY DEF QuietStep, Held, Live
<1>3. /\ \A r \in Run : \/ status'[r] = status[r]
                        \/ status[r] = "new" /\ status'[r] = "pending"
                        \/ status[r] \in {"pending", "running"} /\ status'[r] = "interrupted"
                        \/ status'[r] = "deleted"
      /\ attempt' = attempt
  BY DEF QuietStep
<1> QED BY <1>1, <1>2, <1>3 DEF Queue!Request

\* A pass of the scheduler hands out the runs it takes.
LEMMA SchedMaps == ASSUME QueueInv, TypeOK', SchedNext PROVE Queue!HandOut
<1>1. TypeOK /\ ExecutorOwns /\ AttemptInv /\ RanksDistinct
  BY DEF QueueInv, ExecInv
<1>2. PICK taken \in SUBSET Run, used \in SUBSET Runner : SchedStarts(taken, used)
  BY <1>1, SchedEffect
<1>3. ASSUME NEW r \in taken PROVE Queue!Available(r, taken)
  <2>1. status[r] = "pending" /\ ~HasRunning(ThreadOf[r])
    BY <1>2 DEF SchedStarts
  <2>2. attempt[r] <= MaxRetries
    BY <1>1, <2>1 DEF AttemptInv
  <2>3. \A k \in Runner : Held[k] # r
    BY <1>1, <2>1, NoRunAssumption DEF ExecutorOwns, Held
  <2>4. \A q \in Run : ThreadOf[q] = ThreadOf[r] => status[q] # "running"
    BY <2>1 DEF HasRunning
  <2>5. ASSUME NEW q \in Run, ThreadOf[q] = ThreadOf[r], q \in taken PROVE q = r
    <3>1. created[q] = created[r] /\ created[q] # 0
      BY <1>2, <2>5 DEF SchedStarts
    <3> QED BY <1>1, <3>1 DEF RanksDistinct
  <2> QED BY <2>1, <2>2, <2>3, <2>4, <2>5 DEF Queue!Available
<1>4. Held' \in [Runner -> Run \cup {NoRun}]
  BY DEF TypeOK, Held, Live
<1>5. ASSUME NEW k \in used
      PROVE  /\ k \in Runner /\ Held[k] = NoRun
             /\ Held'[k] = wrun'[k]
             /\ wrun'[k] \in taken
  BY <1>2 DEF SchedStarts, Held, Live
<1>6. ASSUME NEW k \in Runner \ used PROVE Held'[k] = Held[k]
  BY <1>2 DEF SchedStarts, Held, Live
<1>7. ASSUME NEW r \in taken PROVE \E k \in Runner : Held'[k] = r
  BY <1>2, <1>5 DEF SchedStarts
<1>8. ASSUME NEW k \in used, NEW j \in Runner, Held'[j] = Held'[k] PROVE j = k
  <2>1. CASE j \in used
    BY <1>2, <1>5, <1>8, <2>1 DEF SchedStarts
  <2>2. CASE j \notin used
    <3>1. Held[j] \in taken
      BY <1>5, <1>6, <1>8, <2>2
    <3> QED BY <1>3, <3>1 DEF Queue!Available
  <2> QED BY <2>1, <2>2
<1>9. ASSUME NEW k \in Runner
      PROVE  \/ Held'[k] = Held[k]
             \/ /\ Held[k] = NoRun
                /\ Held'[k] \in taken
                /\ \A j \in Runner : Held'[j] = Held'[k] => j = k
  BY <1>5, <1>6, <1>8
<1>10. /\ status' = [r \in Run |-> IF r \in taken THEN "running" ELSE status[r]]
       /\ attempt' = [r \in Run |-> IF r \in taken THEN attempt[r] + 1 ELSE attempt[r]]
  BY <1>2 DEF SchedStarts
<1> QED BY <1>3, <1>4, <1>7, <1>9, <1>10 DEF Queue!HandOut

\* A worker that settles its run reports its outcome.
LEMMA SettleMaps ==
    ASSUME QueueInv, TypeOK', NEW k \in Runner, Settle(k) PROVE Queue!Report(k)
<1>1. TypeOK /\ ExecutorOwns /\ AttemptInv
  BY DEF QueueInv, ExecInv
<1>2. /\ wpc[k] = "settling"
      /\ wrun[k] \in Run
      /\ \A q \in Run : q # wrun[k] => status'[q] \in {status[q], "deleted"}
      /\ status'[wrun[k]] \in {status[wrun[k]], "pending", "deleted"} \cup Settled
      /\ status'[wrun[k]] = "pending" => status[wrun[k]] = "pending" \/ wout[k] = "retry"
      /\ \A j \in Runner : j # k => wpc'[j] = wpc[j]
      /\ wpc'[k] \in {"leaving", "raising"}
      /\ attempt' = attempt /\ wrun' = wrun
  BY <1>1, SettleEffect
<1>3. Held[k] = wrun[k] /\ status[wrun[k]] \in {"running", "interrupted", "deleted"}
  BY <1>1, <1>2 DEF Held, Live, ExecutorOwns
<1>4. status[wrun[k]] = "deleted" => status'[wrun[k]] = "deleted"
  <2>1. ASSUME status[wrun[k]] = "deleted" PROVE ~Exists(wrun[k])
    BY <2>1 DEF Exists
  <2>2. ASSUME status[wrun[k]] = "deleted" PROVE status'[wrun[k]] = "deleted"
    <3>1. CASE SettleRetry(k)
      BY <2>1, <2>2, <3>1 DEF SettleRetry
    <3>2. CASE SettleTemporary(k)
      BY <1>2, <2>2, <3>2 DEF SettleTemporary, RemoveThread
    <3>3. CASE SettleStateful(k)
      BY <2>1, <2>2, <3>3 DEF SettleStateful
    <3> QED BY <3>1, <3>2, <3>3 DEF Settle
  <2> QED BY <2>2
<1>5. status'[wrun[k]] = "pending" => attempt[wrun[k]] <= MaxRetries
  BY <1>1, <1>2, <1>3 DEF AttemptInv, MayRetry
<1>6. status'[Held[k]] \in Queue!Outcomes(Held[k])
  BY <1>2, <1>3, <1>4, <1>5 DEF Queue!Outcomes, Queue!Written
<1>7. Held' = [Held EXCEPT ![k] = NoRun]
  <2>1. ASSUME NEW j \in Runner PROVE Held'[j] = IF j = k THEN NoRun ELSE Held[j]
    BY <1>2 DEF Held, Live
  <2> QED BY <2>1 DEF Held
<1>8. status' \in [Run -> Queue!RunStatuses]
  BY DEF TypeOK, Queue!RunStatuses, Queue!Written
<1> QED BY <1>2, <1>3, <1>6, <1>7, <1>8 DEF Queue!Report

\* The run queue of the in-memory runtime, with its suspended requests, its pool of
\* runners and its retries, implements the abstract queue: no run is handed to two
\* runners, beside another run of its thread, or too often; nobody but the runner that
\* holds a run queues it again or writes an outcome; what was deleted does not come
\* back.
THEOREM QueueRefined == Spec => ImplementsRunQueue
<1>1. QueueInv /\ QueueInv' /\ [Next]_vars => [Queue!QueueNext]_(Queue!queueVars)
  <2> SUFFICES ASSUME QueueInv, QueueInv', [Next]_vars PROVE Queue!QueueNext
    OBVIOUS
  <2>1. TypeOK /\ TypeOK'
    BY DEF QueueInv, ExecInv
  <2>2. CASE QuietStep
    BY <2>1, <2>2, QuietMaps DEF Queue!QueueNext
  <2>3. CASE SchedNext
    BY <2>1, <2>3, SchedMaps DEF Queue!QueueNext
  <2>4. ASSUME NEW k \in Runner, Settle(k) PROVE Queue!QueueNext
    BY <2>1, <2>4, SettleMaps DEF Queue!QueueNext
  <2> QED BY <2>1, <2>2, <2>3, <2>4, StepKinds
<1> QED BY <1>1, QueueInvAlways, InitMaps, PTL DEF Spec, ImplementsRunQueue, Queue!QueueSpec
=============================================================================
