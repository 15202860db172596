----------------------------- MODULE ThreadStore -----------------------------
(***************************************************************************)
(* The thread records of the in-memory store under concurrent requests.    *)
(* An operation of Threads awaits the authentication handler of its event  *)
(* and then works on the store; a handler that awaits something itself     *)
(* suspends the operation in between, with what it had looked up before.   *)
(* The handlers (user code) filter by owner, as their documentation shows. *)
(***************************************************************************)
EXTENDS Naturals, Sequences, FiniteSets

CONSTANTS
  ThreadIds,
  Users,
  Requests,      \* requests that can be in progress at the same time
  Suspending,    \* the events whose handlers suspend
  MaxRecords     \* bound: the length of the list

ASSUME ThreadStoreAssumption == MaxRecords \in Nat

VARIABLES
  threads,       \* store["threads"]: a list, which the operations index
  runThreads,    \* the threads with runs
  cronThreads,   \* the threads with crons
  req            \* the requests in progress and their local variables

tsVars == <<threads, runThreads, cronThreads, req>>

\* A record: whose it is, who wrote it last, and which operation appended it.
ThreadRecord == [id : ThreadIds, owner : Users, by : Users, via : {"put", "copy", "run"}]

Idle == [op |-> "none"]

\* idx is the index an operation has found (0: none), who the owner of the record its
\* variable is bound to, found whether there was one.
PendingRun ==
  [op : {"put", "copy"}, user : Users, id : ThreadIds]
    \cup [op : {"run"}, user : Users, id : ThreadIds, found : BOOLEAN, who : Users]
    \cup [op : {"patch", "delete"}, user : Users, id : ThreadIds, idx : 0..MaxRecords,
          who : Users, todo : Seq(ThreadIds)]

\* The types of the list, of what hangs on threads and of the requests.
ThreadStoreTypeOK ==
  /\ threads \in Seq(ThreadRecord) /\ Len(threads) <= MaxRecords
  /\ runThreads \subseteq ThreadIds /\ cronThreads \subseteq ThreadIds
  /\ req \in [Requests -> {Idle} \cup PendingRun]

ThreadStoreInit ==
  /\ threads = <<>> /\ runThreads = {} /\ cronThreads = {}
  /\ req = [q \in Requests |-> Idle]

Positions(t) == {i \in 1..Len(threads) : threads[i].id = t}
HasThread(t) == Positions(t) # {}
FirstIndex(t) == IF HasThread(t) THEN CHOOSE i \in Positions(t) : \A j \in Positions(t) : i <= j
                 ELSE 0

\* _check_filter_match with the filter {"owner": u}.
FilterMatch(rec, u) == rec.owner = u

Event(op) == CASE op = "put" -> "create" [] op = "copy" -> "create" [] op = "run" -> "read"
               [] op = "patch" -> "update" [] op = "delete" -> "delete"

\* A request whose handler does not suspend lets nobody in before it is finished.
Suspended(Q) == \A p \in Q : req[p] # Idle => Event(req[p].op) \in Suspending
Turn(q) == Suspended(Requests \ {q})

Begin(q, locals) ==
  /\ req[q] = Idle /\ Turn(q)
  /\ req' = [req EXCEPT ![q] = locals]
  /\ UNCHANGED <<threads, runThreads, cronThreads>>

Finish(q, op) ==
  /\ req[q].op = op /\ Turn(q)
  /\ req' = [req EXCEPT ![q] = Idle]

Room == Len(threads) < MaxRecords

AppendRecord(t, owner, u, via) ==
  threads' = Append(threads, [id |-> t, owner |-> owner, by |-> u, via |-> via])

(***************************************************************************)
(* Threads.put: the look before the handler is repeated behind it          *)
(***************************************************************************)
BeginPut(q, u, t) == Begin(q, [op |-> "put", user |-> u, id |-> t])

FinishPut(q) ==
  /\ Finish(q, "put")
  /\ \/ HasThread(req[q].id) /\ UNCHANGED threads
     \/ /\ ~HasThread(req[q].id) /\ Room
        /\ AppendRecord(req[q].id, req[q].user, req[q].user, "put")
  /\ UNCHANGED <<runThreads, cronThreads>>

(***************************************************************************)
(* Threads.copy: the original is looked up behind both handlers            *)
(***************************************************************************)
BeginCopy(q, u, t) == Begin(q, [op |-> "copy", user |-> u, id |-> t])

Unused(t) == ~HasThread(t) /\ \A p \in Requests : req[p] # Idle => req[p].id # t

FinishCopy(q) ==
  /\ Finish(q, "copy")
  /\ LET i == FirstIndex(req[q].id) IN
       \/ /\ i > 0 /\ FilterMatch(threads[i], req[q].user) /\ Room
          /\ \E t \in ThreadIds :
               Unused(t) /\ AppendRecord(t, threads[i].owner, req[q].user, "copy")
       \/ /\ ~(i > 0 /\ FilterMatch(threads[i], req[q].user))
          /\ UNCHANGED threads
  /\ UNCHANGED <<runThreads, cronThreads>>

(***************************************************************************)
(* Threads.patch: the index is found in front of the handler               *)
(***************************************************************************)
BeginPatch(q, u, t) ==
  /\ HasThread(t)
  /\ Begin(q, [op |-> "patch", user |-> u, id |-> t, idx |-> FirstIndex(t), who |-> u, todo |-> <<>>])

\* Mutant of FinishPatch: the filter was applied to the record found at first.
FinishPatchUnchecked(q) ==
  /\ Finish(q, "patch")
  /\ threads' = IF req[q].idx <= Len(threads)
                THEN [threads EXCEPT ![req[q].idx].by = req[q].user] ELSE threads
  /\ UNCHANGED <<runThreads, cronThreads>>

\* The record at the index is replaced; an index past the end is an error.
FinishPatch(q) ==
  /\ Finish(q, "patch")
  /\ LET i == req[q].idx IN
       \/ /\ i <= Len(threads) /\ FilterMatch(threads[i], req[q].user)
          /\ threads' = [threads EXCEPT ![i].by = req[q].user]
       \/ /\ ~(i <= Len(threads) /\ FilterMatch(threads[i], req[q].user))
          /\ UNCHANGED threads
  /\ UNCHANGED <<runThreads, cronThreads>>

(***************************************************************************)
(* Threads.delete and Threads.prune                                        *)
(***************************************************************************)
\* The loop leaves "thread" at the record found or, if there is none, at the last one;
\* the list must not be empty.
Locals(list, u, t, todo) ==
  LET at == {i \in 1..Len(list) : list[i].id = t}
      idx == IF at = {} THEN 0 ELSE CHOOSE i \in at : \A j \in at : i <= j
  IN  [op |-> "delete", user |-> u, id |-> t, idx |-> idx,
       who |-> list[IF idx = 0 THEN Len(list) ELSE idx].owner, todo |-> todo]

BeginDelete(q, u, t) ==
  /\ threads # <<>>
  /\ Begin(q, Locals(threads, u, t, <<>>))

\* prune checks that all the threads are the user's and then deletes one by one.
BeginPrune(q, u, todo) ==
  /\ todo # <<>>
  /\ \A n \in 1..Len(todo) :
       \E i \in 1..Len(threads) : threads[i].id = todo[n] /\ FilterMatch(threads[i], u)
  /\ Begin(q, Locals(threads, u, Head(todo), Tail(todo)))

\* Mutant of Pop: the slot is emptied and stays.
PopHole(list, i) == [list EXCEPT ![i] = Idle]

Pop(list, i) == SubSeq(list, 1, i - 1) \o SubSeq(list, i + 1, Len(list))

\* The next deletion of a prune begins at once; on an empty list it fails.
AfterDelete(q, list) ==
  IF req[q].todo = <<>> \/ list = <<>> THEN Idle
  ELSE Locals(list, req[q].user, Head(req[q].todo), Tail(req[q].todo))

\* The runs and crons of the thread go, then the record at the index; an index past
\* the end is an error that comes after the cascade.
FinishDelete(q) ==
  /\ req[q].op = "delete" /\ Turn(q)
  /\ \/ /\ ~(req[q].idx > 0 /\ req[q].who = req[q].user)
        /\ UNCHANGED <<threads, runThreads, cronThreads>>
     \/ /\ req[q].idx > 0 /\ req[q].who = req[q].user
        /\ runThreads' = runThreads \ {req[q].id}
        /\ cronThreads' = cronThreads \ {req[q].id}
        /\ threads' = IF req[q].idx <= Len(threads) THEN Pop(threads, req[q].idx) ELSE threads
  /\ req' = [req EXCEPT ![q] = AfterDelete(q, threads')]

(***************************************************************************)
(* What else appends to the list or hangs on it                            *)
(***************************************************************************)
\* Runs.put keeps its look at the thread across the handler that reads the assistant
\* and across a log call.
BeginRun(q, u, t) ==
  Begin(q, [op |-> "run", user |-> u, id |-> t, found |-> HasThread(t),
            who |-> IF HasThread(t) THEN threads[FirstIndex(t)].owner ELSE u])

FinishRun(q) ==
  /\ Finish(q, "run")
  /\ LET r == req[q] IN
         \/ /\ ~r.found /\ Room
            /\ AppendRecord(r.id, r.user, r.user, "run")
            /\ runThreads' = runThreads \cup {r.id}
         \/ /\ r.found /\ r.who = r.user
            /\ runThreads' = runThreads \cup {r.id} /\ UNCHANGED threads
         \/ /\ r.found /\ r.who # r.user
            /\ UNCHANGED <<threads, runThreads>>
  /\ UNCHANGED cronThreads

\* Crons.put looks the thread up behind the last handler it awaits.
PutThreadCron(u, t) ==
  /\ Suspended(Requests)
  /\ HasThread(t) /\ FilterMatch(threads[FirstIndex(t)], u)
  /\ cronThreads' = cronThreads \cup {t}
  /\ UNCHANGED <<threads, runThreads, req>>

ThreadStoreNext ==
  \/ \E q \in Requests, u \in Users, t \in ThreadIds :
       BeginPut(q, u, t) \/ BeginCopy(q, u, t) \/ BeginPatch(q, u, t)
         \/ BeginDelete(q, u, t) \/ BeginRun(q, u, t)
  \/ \E q \in Requests, u \in Users, s, t \in ThreadIds : s # t /\ BeginPrune(q, u, <<s, t>>)
  \/ \E q \in Requests :
       FinishPut(q) \/ FinishCopy(q) \/ FinishPatch(q) \/ FinishDelete(q) \/ FinishRun(q)
  \/ \E u \in Users, t \in ThreadIds : PutThreadCron(u, t)

ThreadStoreSpec == ThreadStoreInit /\ [][ThreadStoreNext]_tsVars

(***************************************************************************)
(* Properties                                                              *)
(***************************************************************************)
\* Whoever wrote a record last may write it: neither a stale index of Threads.patch nor
\* the delay of Threads.copy between its checks and its work carries a change or a copy
\* across owners.
OnlyOwnersWrite == \A i \in 1..Len(threads) : threads[i].by = threads[i].owner

\* Threads.put and Threads.copy never append a second record of a thread, however
\* requests overlap; where there are two, the later one comes from Runs.put.
DuplicatesByRunsOnly ==
  \A i, j \in 1..Len(threads) :
    i < j /\ threads[i].id = threads[j].id => threads[j].via = "run"

\* No cron is left behind for a thread without a record, as long as the handlers of
\* deletions do not suspend.
NoOrphanCron == \A t \in cronThreads : HasThread(t)

=============================================================================
