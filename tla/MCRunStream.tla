----------------------------- MODULE MCRunStream -----------------------------
(***************************************************************************)
(* Instances of RunStream: a client that creates a run, one that joins it  *)
(* and a watcher of the thread, two of them at a time.                     *)
(***************************************************************************)
EXTENDS RunStream

\* A stateful run that is kept for a replay, and a stateless one that is not.
StreamOptions == {[resumable |-> TRUE, temporary |-> FALSE], [resumable |-> FALSE, temporary |-> TRUE]}
=============================================================================
