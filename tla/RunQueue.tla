------------------------------ MODULE RunQueue ------------------------------
(***************************************************************************)
(* What the run queue promises, whatever its requests, its scheduler and   *)
(* its workers do in between: the record of every run, how often it was    *)
(* tried, and which runner holds it.  A run in the queue is handed to one  *)
(* runner at a time, one run of a thread at a time and no more often than  *)
(* allowed; only the runner that holds it can queue it again or write an   *)
(* outcome; an outcome other than an interruption is not overwritten, and  *)
(* a deleted record does not come back.                                    *)
(***************************************************************************)
EXTENDS Naturals

CONSTANTS Run, ThreadOf, Runner, MaxRetries, NoRun

VARIABLES
    runs,      \* the status of each run
    tries,     \* how often it was handed out
    holds      \* the run each runner holds, or NoRun

queueVars == <<runs, tries, holds>>

Written == {"success", "error", "timeout", "interrupted"}
RunStatuses == {"new", "pending", "running", "deleted"} \cup Written

QueueInit ==
    /\ runs = [r \in Run |-> "new"]
    /\ tries = [r \in Run |-> 0]
    /\ holds = [k \in Runner |-> NoRun]

\* Clients submit, cancel and delete runs at any time, and a worker that fails early
\* lets go of its run without a word.
Request ==
    /\ runs' \in [Run -> RunStatuses]
    /\ \A r \in Run : \/ runs'[r] = runs[r]
                      \/ runs[r] = "new" /\ runs'[r] = "pending"
                      \/ runs[r] \in {"pending", "running"} /\ runs'[r] = "interrupted"
                      \/ runs'[r] = "deleted"
    /\ holds' \in [Runner -> Run \cup {NoRun}]
    /\ \A k \in Runner : holds'[k] \in {holds[k], NoRun}
    /\ tries' = tries

\* A run that may be handed out, along with the other runs of the list.
Available(r, list) ==
    /\ runs[r] = "pending"
    /\ tries[r] <= MaxRetries
    /\ \A k \in Runner : holds[k] # r
    /\ \A q \in Run : ThreadOf[q] = ThreadOf[r] =>
                         runs[q] # "running" /\ (q \in list => q = r)

\* Available runs begin to run, each with a runner of its own that held none.
HandOut ==
    \E list \in SUBSET Run :
        /\ \A r \in list : Available(r, list)
        /\ runs' = [r \in Run |-> IF r \in list THEN "running" ELSE runs[r]]
        /\ tries' = [r \in Run |-> IF r \in list THEN tries[r] + 1 ELSE tries[r]]
        /\ holds' \in [Runner -> Run \cup {NoRun}]
        /\ \A r \in list : \E k \in Runner : holds'[k] = r
        /\ \A k \in Runner : \/ holds'[k] = holds[k]
                             \/ /\ holds[k] = NoRun
                                /\ holds'[k] \in list
                                /\ \A j \in Runner : holds'[j] = holds'[k] => j = k

\* What a runner may write over the record of its run: nothing if it is gone.
Outcomes(r) ==
    IF runs[r] = "deleted" THEN {"deleted"}
    ELSE {runs[r], "deleted"} \cup Written \cup (IF tries[r] <= MaxRetries THEN {"pending"} ELSE {})

\* The runner that holds a run reports its outcome and holds it no longer.  The thread
\* of the run may go with it, and other runs with the thread.
Report(k) ==
    /\ holds[k] \in Run
    /\ runs[holds[k]] \in {"running", "interrupted", "deleted"}
    /\ runs' \in [Run -> RunStatuses]
    /\ runs'[holds[k]] \in Outcomes(holds[k])
    /\ \A q \in Run : q # holds[k] => runs'[q] \in {runs[q], "deleted"}
    /\ holds' = [holds EXCEPT ![k] = NoRun]
    /\ tries' = tries

QueueNext == Request \/ HandOut \/ \E k \in Runner : Report(k)

QueueSpec == QueueInit /\ [][QueueNext]_queueVars
=============================================================================
