--------------------------- MODULE MCRunLifecycle ---------------------------
(***************************************************************************)
(* Instances of RunLifecycle: one, two or three runs on one or two threads. *)
(***************************************************************************)
EXTENDS RunLifecycle, TLC

CONSTANTS r1, r2, r3, t1, t2

\* The first two runs share a thread, the third has one of its own.
MCThreadOf == [r \in Run |-> IF r = r3 THEN t2 ELSE t1]
\* One assistant serves the first run only.
MCAssistantRuns == {{r1}}
RunnerSymmetry == Permutations(Runner)
=============================================================================
