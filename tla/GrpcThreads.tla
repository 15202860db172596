---------------------------- MODULE GrpcThreads ----------------------------
(***************************************************************************)
(* The threads of the runtime that keeps them in the Core server: every    *)
(* request asks the authentication handler for filters once and passes     *)
(* them with each call it makes.  A call is a step, and between two calls  *)
(* of one request others delete a thread and create another one with its   *)
(* id.  The checkpoints are in a custom checkpointer, if there is one, and *)
(* are found by the id of the thread alone.                                *)
(***************************************************************************)
EXTENDS Naturals, Sequences, FiniteSets

CONSTANTS
  CoreIds,      \* ids of threads, chosen by the clients
  CoreUsers,    \* authenticated users
  Callers,      \* requests
  UserOf,       \* the user of each request
  PruneLists,   \* the lists of ids that a request may ask to prune
  BatchSize,    \* batch_size
  MaxMade,      \* bound: threads created
  MaxRefusals   \* bound: calls that fail though they should not

ASSUME GrpcThreadsAssumption ==
  /\ UserOf \in [Callers -> CoreUsers] /\ BatchSize \in Nat /\ MaxMade \in Nat
  /\ \A list \in PruneLists : list \in Seq(CoreIds)

VARIABLES
  guarded,      \* the authentication handler returns filters
  custom,       \* USE_CUSTOM_CHECKPOINTER
  core,         \* the thread with an id: its number, 0 if there is none
  ownerOf,      \* its creator, by number
  files,        \* the threads whose checkpoints are found under an id
  asked,        \* the requests
  refusals

gtVars == <<guarded, custom, core, ownerOf, files, asked, refusals>>

NoCall == [op |-> "none", pc |-> "idle", who |-> "nobody", ids |-> <<>>, base |-> 0,
           left |-> {}, clean |-> {}, count |-> 0, hit |-> {}, new |-> "none"]

GrpcThreadsInit ==
  /\ guarded \in BOOLEAN /\ custom \in BOOLEAN
  /\ core = [i \in CoreIds |-> 0] /\ ownerOf = <<>>
  /\ files = [i \in CoreIds |-> {}]
  /\ asked = [c \in Callers |-> NoCall] /\ refusals = 0

\* Core lets a call with the filters of u see the thread with id i.
Sees(u, i) == core[i] # 0 /\ (guarded => ownerOf[core[i]] = u)

SomeCallFails == refusals < MaxRefusals /\ refusals' = refusals + 1
NoCallFails == UNCHANGED refusals

Become(c, r) == asked' = [asked EXCEPT ![c] = r]

\* What is left of a request: what it was, its answer and the threads it touched.
End(c, r, pc) ==
  Become(c, [NoCall EXCEPT !.op = r.op, !.who = r.who, !.pc = pc, !.count = r.count, !.hit = r.hit])

\* Threads.put: if_exists="raise" refuses, "do_nothing" returns the thread the user sees.
CreateThread(u, i) ==
  /\ core[i] = 0 /\ Len(ownerOf) < MaxMade
  /\ core' = [core EXCEPT ![i] = Len(ownerOf) + 1]
  /\ ownerOf' = Append(ownerOf, u)
  /\ UNCHANGED <<guarded, custom, files, asked, refusals>>

\* A run writes a checkpoint of its thread.
WriteFile(i) ==
  /\ custom /\ core[i] # 0
  /\ files' = [files EXCEPT ![i] = @ \cup {core[i]}]
  /\ UNCHANGED <<guarded, custom, core, ownerOf, asked, refusals>>

\* handle_event: once for a request.  A prune of no thread ends here.
AskCore(c, op, list) ==
  /\ asked[c].pc = "idle"
  /\ op \in {"look", "delete", "copy"} => Len(list) = 1
  /\ Become(c, [NoCall EXCEPT !.op = op, !.who = UserOf[c], !.ids = list,
                  !.pc = IF list = <<>> THEN "answered"
                         ELSE IF op \in {"prune", "keep_latest"}
                         THEN (IF guarded THEN "validate" ELSE "batch") ELSE "call",
                  !.left = IF guarded /\ op \in {"prune", "keep_latest"}
                           THEN 1..Len(list) ELSE {}])
  /\ UNCHANGED <<guarded, custom, core, ownerOf, files, refusals>>

\* The calls for a single thread: Core looks it up under the filters of the user.  A
\* patch changes nothing that is kept here, so it is a look as well.
LookOrPatch(c) ==
  LET r == asked[c]  i == r.ids[1] IN
  /\ r.pc = "call" /\ r.op = "look"
  /\ \/ /\ Sees(r.who, i) /\ NoCallFails
        /\ End(c, [r EXCEPT !.hit = {core[i]}], "answered")
     \/ /\ ~ Sees(r.who, i) /\ NoCallFails
        /\ End(c, r, "refused")
  /\ UNCHANGED <<guarded, custom, core, ownerOf, files>>

\* search and count: all that Core lets the user see.
SearchCore(c) ==
  /\ asked[c].pc = "idle"
  /\ Become(c, [NoCall EXCEPT !.op = "look", !.who = UserOf[c], !.pc = "answered",
                  !.hit = {core[i] : i \in {j \in CoreIds : Sees(UserOf[c], j)}}])
  /\ UNCHANGED <<guarded, custom, core, ownerOf, files, refusals>>

(***************************************************************************)
(* delete: the call, then the custom checkpointer, whose failure is the    *)
(* request's; copy likewise                                                *)
(***************************************************************************)
DeleteCall(c) ==
  LET r == asked[c]  i == r.ids[1] IN
  /\ r.pc = "call" /\ r.op = "delete" /\ NoCallFails
  /\ \/ /\ Sees(r.who, i)
        /\ core' = [core EXCEPT ![i] = 0]
        /\ IF custom THEN Become(c, [r EXCEPT !.hit = {core[i]}, !.pc = "files"])
           ELSE End(c, [r EXCEPT !.hit = {core[i]}], "answered")
     \/ /\ ~ Sees(r.who, i) /\ End(c, r, "refused") /\ UNCHANGED core
  /\ UNCHANGED <<guarded, custom, ownerOf, files>>

CopyCall(c, j) ==
  LET r == asked[c]  i == r.ids[1] IN
  /\ r.pc = "call" /\ r.op = "copy" /\ NoCallFails
  /\ \/ /\ Sees(r.who, i) /\ core[j] = 0 /\ Len(ownerOf) < MaxMade
        /\ core' = [core EXCEPT ![j] = Len(ownerOf) + 1]
        /\ ownerOf' = Append(ownerOf, ownerOf[core[i]])
        /\ IF custom THEN Become(c, [r EXCEPT !.hit = {core[i]}, !.pc = "files", !.new = j])
           ELSE End(c, [r EXCEPT !.hit = {core[i]}], "answered")
     \/ /\ ~ Sees(r.who, i) /\ End(c, r, "refused")
        /\ UNCHANGED <<core, ownerOf>>
  /\ UNCHANGED <<guarded, custom, files>>

\* adelete_thread or acopy_thread, by the id.
FilesFollow(c) ==
  LET r == asked[c]  i == r.ids[1] IN
  /\ r.pc = "files"
  /\ \/ /\ NoCallFails /\ End(c, r, "answered")
        /\ files' = IF r.op = "delete" THEN [files EXCEPT ![i] = {}]
                    ELSE [files EXCEPT ![r.new] = files[i]]
     \/ SomeCallFails /\ End(c, r, "failed") /\ UNCHANGED files
  /\ UNCHANGED <<guarded, custom, core, ownerOf>>

(***************************************************************************)
(* prune                                                                   *)
(***************************************************************************)
\* validate_thread_access, one call for each thread of the list and in any order: the
\* first one that fails refuses the request.
ValidateAccess(c, k) ==
  LET r == asked[c] IN
  /\ r.pc = "validate" /\ k \in r.left
  /\ \/ /\ Sees(r.who, r.ids[k]) /\ NoCallFails
        /\ Become(c, [r EXCEPT !.left = @ \ {k},
                        !.pc = IF r.left = {k} THEN "batch" ELSE "validate"])
     \/ /\ ~ Sees(r.who, r.ids[k]) /\ NoCallFails
        /\ End(c, r, "refused")
  /\ UNCHANGED <<guarded, custom, core, ownerOf, files>>

\* The loop over the batches: one gather of deletions, or one call to Prune, whose
\* failure skips the batch.
NextBatch(c) ==
  LET r == asked[c]
      batch == {k \in 1..Len(r.ids) : k > r.base /\ k <= r.base + BatchSize} IN
  /\ r.pc = "batch"
  /\ \/ /\ batch = {} /\ NoCallFails /\ End(c, r, "answered")
     \/ /\ batch # {} /\ r.op = "prune" /\ NoCallFails
        /\ Become(c, [r EXCEPT !.pc = "deleting", !.left = batch, !.base = @ + BatchSize])
     \/ /\ batch # {} /\ r.op = "keep_latest" /\ NoCallFails
        /\ Become(c, [r EXCEPT !.base = @ + BatchSize, !.count = @ + Cardinality(batch)])
     \/ /\ batch # {} /\ r.op = "keep_latest" /\ SomeCallFails
        /\ Become(c, [r EXCEPT !.base = @ + BatchSize])
  /\ UNCHANGED <<guarded, custom, core, ownerOf, files>>

\* The gather ends with the last of its tasks.
GatherEnds(r) == [r EXCEPT !.pc = IF r.left = {} /\ r.clean = {} THEN "batch" ELSE "deleting"]

MayDelete(u, i) == Sees(u, i)

\* A deletion that fails is logged and adds nothing to the count.
CountedAnyway(r) == r.count + 1
Counted(r) == r.count

\* _delete_thread: the call ...
DeleteOne(c, k) ==
  LET r == asked[c]  i == r.ids[k] IN
  /\ r.pc = "deleting" /\ k \in r.left
  /\ \/ /\ MayDelete(r.who, i) /\ NoCallFails
        /\ core' = [core EXCEPT ![i] = 0]
        /\ Become(c, GatherEnds([r EXCEPT !.left = @ \ {k}, !.hit = @ \cup {core[i]},
                                   !.clean = @ \cup (IF custom THEN {k} ELSE {}),
                                   !.count = @ + (IF custom THEN 0 ELSE 1)]))
     \/ /\ IF MayDelete(r.who, i) THEN SomeCallFails ELSE NoCallFails
        /\ Become(c, GatherEnds([r EXCEPT !.left = @ \ {k}, !.count = Counted(r)]))
        /\ UNCHANGED core
  /\ UNCHANGED <<guarded, custom, ownerOf, files>>

\* ... then the checkpointer, whose failure is only logged.
CleanOne(c, k) ==
  LET r == asked[c] IN
  /\ r.pc = "deleting" /\ k \in r.clean
  /\ \/ NoCallFails /\ files' = [files EXCEPT ![r.ids[k]] = {}]
     \/ SomeCallFails /\ UNCHANGED files
  /\ Become(c, GatherEnds([r EXCEPT !.clean = @ \ {k}, !.count = @ + 1]))
  /\ UNCHANGED <<guarded, custom, core, ownerOf>>

GrpcThreadsNext ==
  \/ \E u \in CoreUsers, i \in CoreIds : CreateThread(u, i)
  \/ \E i \in CoreIds : WriteFile(i)
  \/ \E c \in Callers, list \in PruneLists,
        op \in {"look", "delete", "copy", "prune", "keep_latest"} : AskCore(c, op, list)
  \/ \E c \in Callers :
       LookOrPatch(c) \/ SearchCore(c) \/ DeleteCall(c) \/ FilesFollow(c) \/ NextBatch(c)
  \/ \E c \in Callers, j \in CoreIds : CopyCall(c, j)
  \/ \E c \in Callers : \E k \in DOMAIN asked[c].ids :
       ValidateAccess(c, k) \/ DeleteOne(c, k) \/ CleanOne(c, k)

GrpcThreadsSpec == GrpcThreadsInit /\ [][GrpcThreadsNext]_gtVars

(***************************************************************************)
(* Properties                                                              *)
(***************************************************************************)
\* The threads, the ids under which they are found and the requests have their types,
\* and no two ids lead to the same thread.
GrpcThreadsTypeOK ==
  /\ core \in [CoreIds -> 0..Len(ownerOf)] /\ Len(ownerOf) <= MaxMade
  /\ \A i \in CoreIds : files[i] \subseteq 1..MaxMade
  /\ \A i, j \in CoreIds : i # j => core[i] = 0 \/ core[i] # core[j]
  /\ \A c \in Callers : asked[c].hit \subseteq 1..MaxMade /\ asked[c].count \in Nat

\* Where the authentication handler returns filters, no request reads, changes, copies or
\* deletes a thread of another user, also when the thread it validated was deleted since
\* and another user created one with the same id: the filters go with every call
\* (threads.py, 656-750).
OnlyOwnThreads ==
  guarded => \A c \in Callers : \A n \in asked[c].hit : ownerOf[n] = asked[c].who

\* What a prune answers is what it did: one that was refused for a thread has deleted none
\* of the others, and the number of one that deletes is the number of threads that it, and
\* no other request, removed - a list that names a thread twice included.
PruneTellsWhatItDid ==
  \A c \in Callers :
    /\ asked[c].op = "prune" /\ asked[c].pc = "refused" => asked[c].hit = {}
    /\ asked[c].op = "prune" /\ asked[c].pc = "answered" =>
         asked[c].count = Cardinality(asked[c].hit)
=============================================================================
