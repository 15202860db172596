--------------------------- MODULE RecordsProofs ----------------------------
(***************************************************************************)
(* What MCRecords promises of the thread records of both runtimes, of the  *)
(* crons that belong to them and of encrypted records, for every value of  *)
(* the constants.  Each inductive invariant is about one component, and is *)
(* kept by the steps of the others because they leave its variables alone. *)
(***************************************************************************)
EXTENDS MCRecords, FiniteSetTheorems, SequenceTheorems, WellFoundedInduction, TLAPS

\* A step of MCRecords is a step of a component or none.
LEMMA StepsOfComponents ==
  ASSUME [Next]_recordVars
  PROVE  [ThreadStoreNext]_tsVars /\ [CronStoreNext]_csVars /\ [GrpcThreadsNext]_gtVars
<1>1. CASE Next
  BY <1>1 DEF Next, Others
<1>2. CASE UNCHANGED recordVars
  BY <1>2 DEF recordVars
<1> QED BY <1>1, <1>2

\* A set of indexes has a least one.
Less == {pair \in Nat \X Nat : pair[1] < pair[2]}

\* A set of natural numbers that is not empty has a least element.
LEMMA LeastIndex ==
  ASSUME NEW S, S \subseteq Nat, S # {}
  PROVE  \E i \in S : \A j \in S : i <= j
<1>1. IsWellFoundedOn(Less, Nat)
  BY NatLessThanWellFounded DEF OpToRel, Less
<1>2. PICK i \in S : \A j \in S : <<j, i>> \notin Less
  BY <1>1, WFMin
<1>3. \A j \in S : ~ (j < i)
  BY <1>2 DEF Less
<1> QED BY <1>3

(***************************************************************************)
(* The thread records of the in-memory store                               *)
(***************************************************************************)
\* The local variables of a request in progress: whoever indexes the list has an index.
RequestOK(r) ==
  /\ r.user \in Users /\ r.id \in ThreadIds
  /\ r.op \in {"patch", "delete"} => r.idx \in Nat
  /\ r.op = "delete" => r.todo \in Seq(ThreadIds)

\* A deletion that does not suspend finds the record where it found it.
IndexInv ==
  "delete" \notin Suspending =>
    \A q \in Requests : req[q].op = "delete" =>
      req[q].idx = 0 \/ (req[q].idx \in 1..Len(threads) /\ threads[req[q].idx].id = req[q].id)

CronsInv == "delete" \notin Suspending => NoOrphanCron

ThreadsInv ==
  /\ threads \in Seq(ThreadRecord)
  /\ cronThreads \subseteq ThreadIds
  /\ req = [q \in Requests |-> req[q]]
  /\ \A q \in Requests : req[q] # Idle => RequestOK(req[q])
  /\ OnlyOwnersWrite /\ DuplicatesByRunsOnly
  /\ IndexInv /\ CronsInv

\* next(...) over the list finds the thread when there is one.
LEMMA FirstIndexFinds ==
  ASSUME NEW t, HasThread(t), threads \in Seq(ThreadRecord)
  PROVE  FirstIndex(t) \in 1..Len(threads) /\ threads[FirstIndex(t)].id = t
<1>1. Positions(t) \subseteq Nat /\ Positions(t) # {}
  BY DEF Positions, HasThread
<1>2. \E i \in Positions(t) : \A j \in Positions(t) : i <= j
  BY <1>1, LeastIndex
<1>3. FirstIndex(t) \in Positions(t)
  BY <1>2 DEF FirstIndex
<1> QED BY <1>3 DEF Positions

\* What a deletion has found when it awaits its handler.
LEMMA LocalsFind ==
  ASSUME NEW list \in Seq(ThreadRecord), NEW u \in Users, NEW t \in ThreadIds,
         NEW todo \in Seq(ThreadIds)
  PROVE  LET l == Locals(list, u, t, todo) IN
         /\ l.op = "delete" /\ l.id = t /\ RequestOK(l)
         /\ l.idx = 0 \/ (l.idx \in 1..Len(list) /\ list[l.idx].id = t)
<1> DEFINE at == {i \in 1..Len(list) : list[i].id = t}
           idx == IF at = {} THEN 0 ELSE CHOOSE i \in at : \A j \in at : i <= j
           l == Locals(list, u, t, todo)
<1>1. idx \in {0} \cup at
  <2>1. at \subseteq Nat
    OBVIOUS
  <2>2. CASE at # {}
    <3>1. \E i \in at : \A j \in at : i <= j
      BY <2>1, <2>2, LeastIndex
    <3> QED BY <2>2, <3>1
  <2> QED BY <2>2
<1>2. l.op = "delete" /\ l.user = u /\ l.id = t /\ l.idx = idx /\ l.todo = todo
  BY DEF Locals
<1> HIDE DEF idx, l
<1>3. idx \in Nat /\ (idx = 0 \/ (idx \in 1..Len(list) /\ list[idx].id = t))
  BY <1>1
<1>4. RequestOK(l)
  BY <1>2, <1>3 DEF RequestOK
<1> QED BY <1>2, <1>3, <1>4 DEF l

\* The records behind the one that is removed move up by one.
LEMMA PopMovesUp ==
  ASSUME NEW list \in Seq(ThreadRecord), NEW i \in 1..Len(list)
  PROVE  /\ Pop(list, i) \in Seq(ThreadRecord)
         /\ Len(Pop(list, i)) = Len(list) - 1
         /\ \A j \in 1..Len(list) - 1 : Pop(list, i)[j] = IF j < i THEN list[j] ELSE list[j + 1]
<1>1. /\ SubSeq(list, 1, i - 1) \in Seq(ThreadRecord) /\ Len(SubSeq(list, 1, i - 1)) = i - 1
      /\ \A j \in 1..i - 1 : SubSeq(list, 1, i - 1)[j] = list[j]
  BY SubSeqProperties
<1>2. /\ SubSeq(list, i + 1, Len(list)) \in Seq(ThreadRecord)
      /\ Len(SubSeq(list, i + 1, Len(list))) = Len(list) - i
      /\ \A j \in 1..Len(list) - i : SubSeq(list, i + 1, Len(list))[j] = list[i + j]
  BY SubSeqProperties
<1> DEFINE front == SubSeq(list, 1, i - 1)
           back == SubSeq(list, i + 1, Len(list))
<1>3. Pop(list, i) = front \o back
  BY DEF Pop
<1> HIDE DEF front, back
<1>4. /\ front \o back \in Seq(ThreadRecord) /\ Len(front \o back) = Len(front) + Len(back)
      /\ \A j \in 1..Len(front) + Len(back) :
           (front \o back)[j] = IF j <= Len(front) THEN front[j] ELSE back[j - Len(front)]
  BY <1>1, <1>2, ConcatProperties DEF front, back
<1>5. Len(front) = i - 1 /\ Len(back) = Len(list) - i
  BY <1>1, <1>2 DEF front, back
<1>6. Len(front \o back) = Len(list) - 1
  BY <1>4, <1>5
<1>7. ASSUME NEW j \in 1..Len(list) - 1
      PROVE  (front \o back)[j] = IF j < i THEN list[j] ELSE list[j + 1]
  <2>1. CASE j < i
    BY <1>1, <1>4, <1>5, <2>1 DEF front
  <2>2. CASE ~ (j < i)
    <3>1. j - (i - 1) \in 1..Len(list) - i /\ i + (j - (i - 1)) = j + 1
      BY <2>2
    <3>2. (front \o back)[j] = back[j - (i - 1)]
      BY <1>4, <1>5, <2>2
    <3>3. back[j - (i - 1)] = list[j + 1]
      BY <1>2, <3>1 DEF back
    <3> QED BY <2>2, <3>2, <3>3
  <2> QED BY <2>1, <2>2
<1> QED BY <1>3, <1>4, <1>6, <1>7

\* At first there is no thread and no request.
LEMMA ThreadsStart == ThreadStoreInit => ThreadsInv
<1> SUFFICES ASSUME ThreadStoreInit PROVE ThreadsInv
  OBVIOUS
<1>1. threads = <<>> /\ cronThreads = {} /\ Idle.op = "none" /\ \A q \in Requests : req[q] = Idle
  BY DEF ThreadStoreInit, Idle
<1> QED BY <1>1 DEF ThreadStoreInit, ThreadsInv, OnlyOwnersWrite, DuplicatesByRunsOnly, IndexInv, CronsInv, NoOrphanCron

\* A request begins: nobody else is at a deletion that does not suspend.
LEMMA BeginKeeps ==
  ASSUME ThreadsInv, NEW q \in Requests, NEW locals, Begin(q, locals), RequestOK(locals),
         locals.op = "delete" =>
           locals.idx = 0 \/ (locals.idx \in 1..Len(threads) /\ threads[locals.idx].id = locals.id)
  PROVE  ThreadsInv'
<1>1. req' = [req EXCEPT ![q] = locals] /\ UNCHANGED <<threads, cronThreads>>
  BY DEF Begin
<1>2. req' = [p \in Requests |-> req'[p]] /\ \A p \in Requests : req'[p] = IF p = q THEN locals ELSE req[p]
  BY <1>1 DEF ThreadsInv
<1>3. IndexInv'
  BY <1>1, <1>2 DEF ThreadsInv, IndexInv
<1> QED BY <1>1, <1>2, <1>3 DEF ThreadsInv, OnlyOwnersWrite, DuplicatesByRunsOnly, CronsInv, NoOrphanCron, HasThread, Positions

\* A request of another kind ends: there is no deletion in progress that does not suspend.
LEMMA FinishKeeps ==
  ASSUME ThreadsInv, NEW q \in Requests, NEW op, op # "delete", Finish(q, op)
  PROVE  /\ req' = [p \in Requests |-> req'[p]]
         /\ \A p \in Requests : req'[p] # Idle => RequestOK(req'[p])
         /\ IndexInv'
<1>1. req[q].op = op /\ Turn(q) /\ req' = [req EXCEPT ![q] = Idle]
  BY DEF Finish
<1>2. req' = [p \in Requests |-> req'[p]] /\ \A p \in Requests : req'[p] = IF p = q THEN Idle ELSE req[p]
  BY <1>1 DEF ThreadsInv
<1>3. "delete" \notin Suspending => \A p \in Requests : req[p].op # "delete"
  BY <1>1 DEF Turn, Suspended, Event, Idle
<1>4. IndexInv'
  BY <1>2, <1>3 DEF IndexInv, Idle
<1> QED BY <1>2, <1>4 DEF ThreadsInv

\* A record is appended by the user it belongs to, and of a thread that has none unless
\* Runs.put appends it.
LEMMA AppendKeeps ==
  ASSUME ThreadsInv, NEW t \in ThreadIds, NEW u \in Users, NEW via \in {"put", "copy", "run"},
         AppendRecord(t, u, u, via), ~ HasThread(t) \/ via = "run", UNCHANGED cronThreads
  PROVE  /\ threads' \in Seq(ThreadRecord)
         /\ OnlyOwnersWrite' /\ DuplicatesByRunsOnly' /\ CronsInv'
<1> DEFINE rec == [id |-> t, owner |-> u, by |-> u, via |-> via]
<1>1. rec \in ThreadRecord /\ threads' = Append(threads, rec) /\ threads \in Seq(ThreadRecord)
  BY DEF AppendRecord, ThreadRecord, ThreadsInv
<1>2. rec.id = t /\ rec.owner = u /\ rec.by = u /\ rec.via = via
  OBVIOUS
<1> HIDE DEF rec
<1>3. /\ threads' \in Seq(ThreadRecord) /\ Len(threads') = Len(threads) + 1
      /\ \A i \in 1..Len(threads) : threads'[i] = threads[i]
      /\ threads'[Len(threads) + 1] = rec
  BY <1>1, AppendProperties
<1>4. OnlyOwnersWrite'
  BY <1>1, <1>2, <1>3 DEF ThreadsInv, OnlyOwnersWrite
<1>5. DuplicatesByRunsOnly'
  BY <1>1, <1>2, <1>3 DEF ThreadsInv, DuplicatesByRunsOnly, HasThread, Positions
<1>6. CronsInv'
  BY <1>1, <1>3 DEF ThreadsInv, CronsInv, NoOrphanCron, HasThread, Positions
<1> QED BY <1>3, <1>4, <1>5, <1>6

\* The rest of Threads.delete, behind its wait, keeps the invariant.
LEMMA DeleteKeeps ==
  ASSUME ThreadsInv, NEW q \in Requests, FinishDelete(q)
  PROVE  ThreadsInv'
<1>1. /\ req[q].op = "delete" /\ Turn(q) /\ RequestOK(req[q])
      /\ req' = [req EXCEPT ![q] = AfterDelete(q, threads')]
      /\ threads \in Seq(ThreadRecord)
  BY DEF FinishDelete, ThreadsInv, Idle
<1>2. \/ threads' = threads /\ cronThreads' \in {cronThreads, cronThreads \ {req[q].id}}
      \/ /\ req[q].idx \in 1..Len(threads) /\ threads' = Pop(threads, req[q].idx)
         /\ cronThreads' = cronThreads \ {req[q].id}
  BY <1>1 DEF FinishDelete, RequestOK
<1>3. /\ threads' \in Seq(ThreadRecord) /\ cronThreads' \subseteq ThreadIds
      /\ OnlyOwnersWrite' /\ DuplicatesByRunsOnly' /\ CronsInv'
  <2>1. CASE threads' = threads /\ cronThreads' \in {cronThreads, cronThreads \ {req[q].id}}
    BY <2>1 DEF ThreadsInv, OnlyOwnersWrite, DuplicatesByRunsOnly, CronsInv, NoOrphanCron, HasThread, Positions
  <2>2. CASE /\ req[q].idx \in 1..Len(threads) /\ threads' = Pop(threads, req[q].idx)
             /\ cronThreads' = cronThreads \ {req[q].id}
    <3> DEFINE i == req[q].idx
    <3>1. /\ threads' \in Seq(ThreadRecord) /\ Len(threads') = Len(threads) - 1
          /\ \A j \in 1..Len(threads) - 1 : threads'[j] = IF j < i THEN threads[j] ELSE threads[j + 1]
      BY <1>1, <2>2, PopMovesUp
    <3>2. i \in 1..Len(threads)
      BY <2>2
    <3>3. "delete" \notin Suspending => threads[i].id = req[q].id
      BY <1>1, <2>2 DEF ThreadsInv, IndexInv
    <3> HIDE DEF i
    <3>4. OnlyOwnersWrite'
      BY <1>1, <3>1, <3>2 DEF ThreadsInv, OnlyOwnersWrite
    <3>5. DuplicatesByRunsOnly'
      <4>1. SUFFICES ASSUME NEW j \in 1..Len(threads'), NEW k \in 1..Len(threads'), j < k,
                            threads'[j].id = threads'[k].id
                     PROVE  threads'[k].via = "run"
        BY DEF DuplicatesByRunsOnly
      <4>2. PICK m, n \in 1..Len(threads) : m < n /\ threads'[j] = threads[m] /\ threads'[k] = threads[n]
        <5>1. CASE k < i
          BY <1>1, <3>1, <3>2, <4>1, <5>1
        <5>2. CASE j < i /\ ~ (k < i)
          BY <1>1, <3>1, <3>2, <4>1, <5>2
        <5>3. CASE ~ (j < i)
          BY <1>1, <3>1, <3>2, <4>1, <5>3
        <5> QED BY <3>1, <3>2, <4>1, <5>1, <5>2, <5>3
      <4> QED BY <4>1, <4>2 DEF ThreadsInv, DuplicatesByRunsOnly
    <3>6. CronsInv'
      <4>1. SUFFICES ASSUME "delete" \notin Suspending, NEW t \in cronThreads, t # req[q].id
                     PROVE  \E j \in 1..Len(threads') : threads'[j].id = t
        BY <2>2 DEF CronsInv, NoOrphanCron, HasThread, Positions
      <4>2. PICK k \in 1..Len(threads) : threads[k].id = t
        BY <4>1 DEF ThreadsInv, CronsInv, NoOrphanCron, HasThread, Positions
      <4>3. CASE k < i
        BY <1>1, <3>1, <3>2, <4>2, <4>3
      <4>4. CASE k > i
        <5>1. k - 1 \in 1..Len(threads') /\ ~ (k - 1 < i) /\ k - 1 + 1 = k
          BY <1>1, <3>1, <3>2, <4>4
        <5> QED BY <1>1, <3>1, <4>2, <5>1
      <4>5. k # i
        BY <3>3, <4>1, <4>2
      <4> QED BY <3>2, <4>3, <4>4, <4>5
    <3> QED BY <2>2, <3>1, <3>4, <3>5, <3>6 DEF ThreadsInv
  <2> QED BY <1>2, <2>1, <2>2
<1> DEFINE after == AfterDelete(q, threads')
<1>4. \/ after = Idle
      \/ /\ after.op = "delete" /\ RequestOK(after)
         /\ after.idx = 0 \/ (after.idx \in 1..Len(threads') /\ threads'[after.idx].id = after.id)
  <2>1. CASE req[q].todo = <<>> \/ threads' = <<>>
    BY <2>1 DEF AfterDelete
  <2>2. CASE ~ (req[q].todo = <<>> \/ threads' = <<>>)
    <3>1. req[q].todo \in Seq(ThreadIds) /\ req[q].user \in Users
      BY <1>1 DEF RequestOK
    <3>2. Head(req[q].todo) \in ThreadIds /\ Tail(req[q].todo) \in Seq(ThreadIds)
      BY <2>2, <3>1
    <3>3. \A list \in Seq(ThreadRecord) :
            LET l == Locals(list, req[q].user, Head(req[q].todo), Tail(req[q].todo)) IN
            /\ l.op = "delete" /\ l.id = Head(req[q].todo) /\ RequestOK(l)
            /\ l.idx = 0 \/ (l.idx \in 1..Len(list) /\ list[l.idx].id = Head(req[q].todo))
      BY <3>1, <3>2, LocalsFind
    <3>4. after = Locals(threads', req[q].user, Head(req[q].todo), Tail(req[q].todo))
      BY <2>2 DEF AfterDelete
    <3> HIDE DEF after
    <3> QED BY <1>3, <3>3, <3>4
  <2> QED BY <2>1, <2>2
<1> HIDE DEF after
<1>5. req' = [p \in Requests |-> req'[p]] /\ \A p \in Requests : req'[p] = IF p = q THEN after ELSE req[p]
  BY <1>1 DEF ThreadsInv, after
<1>6. \A p \in Requests : req'[p] # Idle => RequestOK(req'[p])
  BY <1>4, <1>5 DEF ThreadsInv
<1>7. IndexInv'
  <2>1. "delete" \notin Suspending => \A p \in Requests : req[p].op = "delete" => p = q
    BY <1>1 DEF Turn, Suspended, Event, Idle
  <2>2. Idle.op # "delete"
    BY DEF Idle
  <2> QED BY <1>4, <1>5, <2>1, <2>2 DEF IndexInv
<1> QED BY <1>3, <1>5, <1>6, <1>7 DEF ThreadsInv

\* No step of the thread store leaves the invariant.
LEMMA ThreadsStep == ThreadsInv /\ [ThreadStoreNext]_tsVars => ThreadsInv'
<1> SUFFICES ASSUME ThreadsInv, [ThreadStoreNext]_tsVars PROVE ThreadsInv'
  OBVIOUS
<1>0. threads \in Seq(ThreadRecord)
  BY DEF ThreadsInv
<1>1. ASSUME NEW q \in Requests, NEW u \in Users, NEW t \in ThreadIds,
             BeginPut(q, u, t) \/ BeginCopy(q, u, t) \/ BeginPatch(q, u, t) \/ BeginRun(q, u, t)
      PROVE  ThreadsInv'
  <2>1. CASE BeginPut(q, u, t)
    BY <2>1, BeginKeeps DEF BeginPut, RequestOK
  <2>2. CASE BeginCopy(q, u, t)
    BY <2>2, BeginKeeps DEF BeginCopy, RequestOK
  <2>3. CASE BeginPatch(q, u, t)
    BY <1>0, <2>3, BeginKeeps, FirstIndexFinds DEF BeginPatch, RequestOK
  <2>4. CASE BeginRun(q, u, t)
    BY <2>4, BeginKeeps DEF BeginRun, RequestOK
  <2> QED BY <1>1, <2>1, <2>2, <2>3, <2>4
<1>2. ASSUME NEW q \in Requests, NEW u \in Users, NEW t \in ThreadIds, BeginDelete(q, u, t)
      PROVE  ThreadsInv'
  <2>1. <<>> \in Seq(ThreadIds) /\ Begin(q, Locals(threads, u, t, <<>>))
    BY <1>2 DEF BeginDelete
  <2> QED BY <1>0, <2>1, LocalsFind, BeginKeeps
<1>3. ASSUME NEW q \in Requests, NEW u \in Users, NEW s \in ThreadIds, NEW t \in ThreadIds,
             BeginPrune(q, u, <<s, t>>)
      PROVE  ThreadsInv'
  <2>1. /\ Head(<<s, t>>) = s /\ Tail(<<s, t>>) \in Seq(ThreadIds)
        /\ Begin(q, Locals(threads, u, Head(<<s, t>>), Tail(<<s, t>>)))
    BY <1>3 DEF BeginPrune
  <2> QED BY <1>0, <2>1, LocalsFind, BeginKeeps
<1>4. ASSUME NEW q \in Requests, FinishPut(q) PROVE ThreadsInv'
  <2>1. Finish(q, "put") /\ RequestOK(req[q]) /\ UNCHANGED cronThreads
    BY <1>4 DEF FinishPut, Finish, ThreadsInv, Idle
  <2>2. /\ threads' \in Seq(ThreadRecord)
        /\ OnlyOwnersWrite' /\ DuplicatesByRunsOnly' /\ CronsInv'
    <3>1. CASE UNCHANGED threads
      BY <2>1, <3>1 DEF ThreadsInv, OnlyOwnersWrite, DuplicatesByRunsOnly, CronsInv, NoOrphanCron, HasThread, Positions
    <3>2. CASE ~ HasThread(req[q].id) /\ AppendRecord(req[q].id, req[q].user, req[q].user, "put")
      BY <2>1, <3>2, AppendKeeps DEF RequestOK
    <3> QED BY <1>4, <3>1, <3>2 DEF FinishPut
  <2> QED BY <2>1, <2>2, FinishKeeps DEF ThreadsInv
<1>5. ASSUME NEW q \in Requests, FinishCopy(q) PROVE ThreadsInv'
  <2>1. Finish(q, "copy") /\ RequestOK(req[q]) /\ UNCHANGED cronThreads
    BY <1>5 DEF FinishCopy, Finish, ThreadsInv, Idle
  <2>2. /\ threads' \in Seq(ThreadRecord)
        /\ OnlyOwnersWrite' /\ DuplicatesByRunsOnly' /\ CronsInv'
    <3>1. CASE UNCHANGED threads
      BY <2>1, <3>1 DEF ThreadsInv, OnlyOwnersWrite, DuplicatesByRunsOnly, CronsInv, NoOrphanCron, HasThread, Positions
    <3>2. CASE ~ (UNCHANGED threads)
      <4>1. PICK t \in ThreadIds : ~ HasThread(t) /\ AppendRecord(t, req[q].user, req[q].user, "copy")
        BY <1>5, <3>2 DEF FinishCopy, FilterMatch, Unused
      <4> QED BY <2>1, <4>1, AppendKeeps DEF RequestOK
    <3> QED BY <3>1, <3>2
  <2> QED BY <2>1, <2>2, FinishKeeps DEF ThreadsInv
<1>6. ASSUME NEW q \in Requests, FinishPatch(q) PROVE ThreadsInv'
  <2> DEFINE i == req[q].idx
             u == req[q].user
  <2>1. Finish(q, "patch") /\ RequestOK(req[q]) /\ UNCHANGED cronThreads /\ i \in Nat /\ u \in Users
    BY <1>6 DEF FinishPatch, Finish, ThreadsInv, Idle, RequestOK
  <2>2. \/ threads' = threads
        \/ i \in 1..Len(threads) /\ threads[i].owner = u /\ threads' = [threads EXCEPT ![i].by = u]
    BY <1>0, <1>6, <2>1 DEF FinishPatch, FilterMatch
  <2> HIDE DEF i, u
  <2>3. /\ threads' \in Seq(ThreadRecord) /\ Len(threads') = Len(threads)
        /\ \A j \in 1..Len(threads) :
             /\ threads'[j].id = threads[j].id /\ threads'[j].via = threads[j].via
             /\ threads'[j].by = threads'[j].owner
    <3>1. CASE threads' = threads
      BY <1>0, <3>1 DEF ThreadsInv, OnlyOwnersWrite
    <3>2. CASE i \in 1..Len(threads) /\ threads[i].owner = u /\ threads' = [threads EXCEPT ![i].by = u]
      <4> DEFINE rec == [threads[i] EXCEPT !.by = u]
      <4>1. threads[i] \in ThreadRecord
        BY <1>0, <3>2
      <4>2. rec \in ThreadRecord /\ rec.id = threads[i].id /\ rec.via = threads[i].via /\ rec.by = u /\ rec.owner = u
        BY <2>1, <3>2, <4>1 DEF ThreadRecord
      <4>3. threads' = [threads EXCEPT ![i] = rec]
        BY <3>2
      <4> HIDE DEF rec
      <4>4. /\ threads' \in Seq(ThreadRecord) /\ Len(threads') = Len(threads)
            /\ \A j \in 1..Len(threads) : threads'[j] = IF j = i THEN rec ELSE threads[j]
        BY <1>0, <3>2, <4>2, <4>3, ExceptSeq
      <4> QED BY <4>2, <4>4 DEF ThreadsInv, OnlyOwnersWrite
    <3> QED BY <2>2, <3>1, <3>2
  <2>4. OnlyOwnersWrite' /\ DuplicatesByRunsOnly' /\ CronsInv'
    BY <2>1, <2>3 DEF ThreadsInv, OnlyOwnersWrite, DuplicatesByRunsOnly, CronsInv, NoOrphanCron, HasThread, Positions
  <2> QED BY <2>1, <2>3, <2>4, FinishKeeps DEF ThreadsInv
<1>7. ASSUME NEW q \in Requests, FinishRun(q) PROVE ThreadsInv'
  <2>1. Finish(q, "run") /\ RequestOK(req[q]) /\ UNCHANGED cronThreads
    BY <1>7 DEF FinishRun, Finish, ThreadsInv, Idle
  <2>2. /\ threads' \in Seq(ThreadRecord)
        /\ OnlyOwnersWrite' /\ DuplicatesByRunsOnly' /\ CronsInv'
    <3>1. CASE UNCHANGED threads
      BY <2>1, <3>1 DEF ThreadsInv, OnlyOwnersWrite, DuplicatesByRunsOnly, CronsInv, NoOrphanCron, HasThread, Positions
    <3>2. CASE AppendRecord(req[q].id, req[q].user, req[q].user, "run")
      BY <2>1, <3>2, AppendKeeps DEF RequestOK
    <3> QED BY <1>7, <3>1, <3>2 DEF FinishRun
  <2> QED BY <2>1, <2>2, FinishKeeps DEF ThreadsInv
<1>8. ASSUME NEW u \in Users, NEW t \in ThreadIds, PutThreadCron(u, t) PROVE ThreadsInv'
  BY <1>8 DEF PutThreadCron, ThreadsInv, OnlyOwnersWrite, DuplicatesByRunsOnly, IndexInv, CronsInv, NoOrphanCron, HasThread, Positions
<1>9. CASE UNCHANGED tsVars
  BY <1>9 DEF tsVars, ThreadsInv, OnlyOwnersWrite, DuplicatesByRunsOnly, IndexInv, CronsInv, NoOrphanCron, HasThread, Positions
<1> QED BY <1>1, <1>2, <1>3, <1>4, <1>5, <1>6, <1>7, <1>8, <1>9, DeleteKeeps DEF ThreadStoreNext

(***************************************************************************)
(* The threads behind gRPC                                                 *)
(***************************************************************************)
CallPlaces == {"idle", "call", "validate", "batch", "deleting", "files", "answered", "refused", "failed"}
CallType ==
  [op : {"none", "look", "delete", "copy", "prune", "keep_latest"}, pc : CallPlaces,
   who : CoreUsers \cup {"nobody"}, ids : Seq(CoreIds), base : Nat, left : SUBSET Nat,
   clean : SUBSET Nat, count : Nat, hit : SUBSET Nat, new : CoreIds \cup {"none"}]

\* What a prune has deleted is nowhere, and was counted or waits for its checkpoints to go.
PruneOK(r, cores) ==
  /\ IsFiniteSet(r.hit) /\ IsFiniteSet(r.clean) /\ r.left \cap r.clean = {}
  /\ \A n \in r.hit : \A i \in CoreIds : cores[i] # n
  /\ r.count + Cardinality(r.clean) = Cardinality(r.hit)
  /\ r.pc \in {"validate", "batch", "deleting", "answered", "refused"}
  /\ r.pc \in {"validate", "refused"} => r.hit = {}
  /\ r.pc # "deleting" => r.clean = {}

CallOK(r, filtered, cores, owners) ==
  /\ r \in CallType
  /\ r.pc = "call" => Len(r.ids) = 1
  /\ \A n \in r.hit : n \in 1..Len(owners) /\ (filtered => owners[n] = r.who)
  /\ r.op = "prune" => PruneOK(r, cores)

CoreOK(cores, owners) ==
  /\ owners \in Seq(CoreUsers)
  /\ cores \in [CoreIds -> 0..Len(owners)]
  /\ \A i, j \in CoreIds : i # j => cores[i] = 0 \/ cores[i] # cores[j]

CoreInv ==
  /\ CoreOK(core, ownerOf)
  /\ asked \in [Callers -> CallType]
  /\ \A c \in Callers : CallOK(asked[c], guarded, core, ownerOf)

\* A thread leaves its id, or a new one takes a free id: nothing else changes for the calls.
Left(i) == core' = [core EXCEPT ![i] = 0] /\ ownerOf' = ownerOf
Made(i, u) ==
  /\ core[i] = 0 /\ core' = [core EXCEPT ![i] = Len(ownerOf) + 1]
  /\ ownerOf' = Append(ownerOf, u)
CoreMoves == UNCHANGED <<core, ownerOf>> \/ \E i \in CoreIds : Left(i) \/ \E u \in CoreUsers : Made(i, u)

\* Core keeps its types, and nobody but the owner of a thread changes.
LEMMA MovesKeep ==
  ASSUME CoreOK(core, ownerOf), CoreMoves
  PROVE  /\ CoreOK(core', ownerOf')
         /\ \A n \in 1..Len(ownerOf) : n \in 1..Len(ownerOf') /\ ownerOf'[n] = ownerOf[n]
         /\ \A n \in 1..Len(ownerOf) :
              (\A i \in CoreIds : core[i] # n) => \A i \in CoreIds : core'[i] # n
<1>1. CASE UNCHANGED <<core, ownerOf>>
  BY <1>1 DEF CoreOK
<1>2. CASE \E i \in CoreIds : Left(i)
  BY <1>2 DEF CoreOK, Left
<1>3. ASSUME NEW i \in CoreIds, NEW u \in CoreUsers, Made(i, u)
      PROVE  /\ CoreOK(core', ownerOf')
             /\ \A n \in 1..Len(ownerOf) : n \in 1..Len(ownerOf') /\ ownerOf'[n] = ownerOf[n]
             /\ \A n \in 1..Len(ownerOf) :
                  (\A j \in CoreIds : core[j] # n) => \A j \in CoreIds : core'[j] # n
  <2>1. /\ ownerOf' \in Seq(CoreUsers) /\ Len(ownerOf') = Len(ownerOf) + 1
        /\ \A n \in 1..Len(ownerOf) : ownerOf'[n] = ownerOf[n]
    BY <1>3, AppendProperties DEF Made, CoreOK
  <2>2. Len(ownerOf) \in Nat
    BY DEF CoreOK
  <2> QED BY <1>3, <2>1, <2>2 DEF Made, CoreOK
<1> QED BY <1>1, <1>2, <1>3 DEF CoreMoves

\* Calls do not notice.
LEMMA CallsStay ==
  ASSUME CoreOK(core, ownerOf), CoreMoves, NEW r, CallOK(r, guarded, core, ownerOf)
  PROVE  CallOK(r, guarded, core', ownerOf')
BY MovesKeep DEF CallOK, PruneOK

\* One call goes on, and the others stand behind what Core has done.
LEMMA BecomeKeeps ==
  ASSUME CoreInv, CoreMoves, UNCHANGED guarded, NEW c \in Callers, NEW r, Become(c, r),
         CallOK(r, guarded, core', ownerOf')
  PROVE  CoreInv'
<1>1. CoreOK(core', ownerOf')
  BY MovesKeep DEF CoreInv
<1>2. asked' = [asked EXCEPT ![c] = r]
  BY DEF Become
<1>3. asked' \in [Callers -> CallType]
  BY <1>2 DEF CoreInv, CallOK
<1>4. ASSUME NEW d \in Callers PROVE CallOK(asked'[d], guarded', core', ownerOf')
  <2>1. CallOK(asked[d], guarded, core', ownerOf')
    BY CallsStay DEF CoreInv
  <2>2. asked'[d] = IF d = c THEN r ELSE asked[d]
    BY <1>2 DEF CoreInv
  <2> QED BY <2>1, <2>2
<1> QED BY <1>1, <1>3, <1>4 DEF CoreInv

\* A caller without a call.
LEMMA NoCallIs ==
  /\ NoCall \in CallType
  /\ NoCall.op = "none" /\ NoCall.pc = "idle" /\ NoCall.base = 0 /\ NoCall.count = 0
  /\ NoCall.clean = {} /\ NoCall.hit = {} /\ NoCall.left = {} /\ NoCall.new = "none"
<1>1. <<>> \in Seq(CoreIds)
  OBVIOUS
<1> QED BY <1>1 DEF NoCall, CallType, CallPlaces

\* What End leaves of a call.
Ended(r, pc) == [NoCall EXCEPT !.op = r.op, !.who = r.who, !.pc = pc, !.count = r.count, !.hit = r.hit]

\* A call that has ended keeps what it was about.
LEMMA CallEnds ==
  ASSUME NEW r \in CallType, NEW pc \in CallPlaces
  PROVE  /\ Ended(r, pc) \in CallType
         /\ Ended(r, pc).op = r.op /\ Ended(r, pc).who = r.who /\ Ended(r, pc).pc = pc
         /\ Ended(r, pc).count = r.count /\ Ended(r, pc).hit = r.hit /\ Ended(r, pc).clean = {}
<1>1. NoCall \in CallType /\ NoCall.clean = {}
  BY NoCallIs
<1>2. Ended(r, pc) \in CallType
  BY <1>1 DEF Ended, CallType
<1>3. /\ Ended(r, pc).op = r.op /\ Ended(r, pc).who = r.who /\ Ended(r, pc).pc = pc
      /\ Ended(r, pc).count = r.count /\ Ended(r, pc).hit = r.hit /\ Ended(r, pc).clean = {}
  BY <1>1 DEF Ended, CallType
<1> QED BY <1>2, <1>3

\* A call ends, with the threads it touched.
LEMMA EndKeeps ==
  ASSUME CoreInv, CoreMoves, UNCHANGED guarded, NEW c \in Callers,
         NEW pc \in {"answered", "refused", "failed"}, NEW r \in CallType,
         End(c, r, pc),
         \A n \in r.hit : n \in 1..Len(ownerOf) /\ (guarded => ownerOf[n] = r.who),
         r.op = "prune" => PruneOK(r, core) /\ r.clean = {} /\ pc # "failed" /\ (pc = "refused" => r.hit = {})
  PROVE  CoreInv'
<1> DEFINE e == Ended(r, pc)
<1>1. Become(c, e)
  BY DEF End, Ended
<1>2. /\ e \in CallType
      /\ e.op = r.op /\ e.who = r.who /\ e.pc = pc /\ e.count = r.count /\ e.hit = r.hit /\ e.clean = {}
  BY CallEnds DEF CallPlaces
<1> HIDE DEF e
<1>3. CallOK(e, guarded, core, ownerOf)
  BY <1>2 DEF CallOK, PruneOK
<1>4. CallOK(e, guarded, core', ownerOf')
  BY <1>3, CallsStay DEF CoreInv
<1> QED BY <1>1, <1>4, BecomeKeeps

\* At first nobody has called.
LEMMA CoreStart == GrpcThreadsInit => CoreInv
<1> SUFFICES ASSUME GrpcThreadsInit PROVE CoreInv
  OBVIOUS
<1>1. NoCall \in CallType /\ NoCall.pc = "idle" /\ NoCall.hit = {} /\ NoCall.op = "none"
  BY NoCallIs
<1>2. CoreOK(core, ownerOf)
  BY DEF GrpcThreadsInit, CoreOK
<1>3. asked = [c \in Callers |-> NoCall]
  BY DEF GrpcThreadsInit
<1> QED BY <1>1, <1>2, <1>3 DEF CoreInv, CallOK

\* Filters let a user see threads of that user.
LEMMA SeesOwn ==
  ASSUME CoreOK(core, ownerOf), NEW u, NEW i \in CoreIds, Sees(u, i)
  PROVE  core[i] \in 1..Len(ownerOf) /\ core[i] \in Nat /\ (guarded => ownerOf[core[i]] = u)
BY DEF CoreOK, Sees

\* A call for one thread that Core let the user see.
LEMMA HitIs ==
  ASSUME NEW r \in CallType, NEW n \in Nat, NEW j \in CoreIds
  PROVE  LET a == [r EXCEPT !.hit = {n}]
             d == [r EXCEPT !.hit = {n}, !.pc = "files"]
             f == [r EXCEPT !.hit = {n}, !.pc = "files", !.new = j] IN
         /\ a \in CallType /\ a.hit = {n} /\ a.op = r.op /\ a.who = r.who
         /\ d \in CallType /\ d.hit = {n} /\ d.op = r.op /\ d.who = r.who /\ d.pc = "files"
         /\ f \in CallType /\ f.hit = {n} /\ f.op = r.op /\ f.who = r.who /\ f.pc = "files"
BY DEF CallType, CallPlaces

\* The gather goes on, or is over when nothing is left of it.
LEMMA GathersOn ==
  ASSUME NEW r \in CallType
  PROVE  /\ GatherEnds(r) \in CallType
         /\ GatherEnds(r).pc \in {"batch", "deleting"}
         /\ GatherEnds(r).pc # "deleting" => GatherEnds(r).clean = {}
         /\ GatherEnds(r).left = r.left /\ GatherEnds(r).hit = r.hit /\ GatherEnds(r).clean = r.clean
         /\ GatherEnds(r).count = r.count /\ GatherEnds(r).op = r.op /\ GatherEnds(r).who = r.who
BY DEF GatherEnds, CallType, CallPlaces

\* No step of Core or of a caller leaves the invariant.
LEMMA CoreStep == CoreInv /\ [GrpcThreadsNext]_gtVars => CoreInv'
<1> SUFFICES ASSUME CoreInv, [GrpcThreadsNext]_gtVars PROVE CoreInv'
  OBVIOUS
<1>0. CoreOK(core, ownerOf)
  BY DEF CoreInv
<1>1. ASSUME NEW u \in CoreUsers, NEW i \in CoreIds, CreateThread(u, i) PROVE CoreInv'
  <2>1. CoreMoves /\ UNCHANGED <<guarded, asked>>
    BY <1>1 DEF CreateThread, CoreMoves, Made
  <2>2. CoreOK(core', ownerOf')
    BY <1>0, <2>1, MovesKeep
  <2>3. \A c \in Callers : CallOK(asked[c], guarded, core', ownerOf')
    BY <1>0, <2>1, CallsStay DEF CoreInv
  <2> QED BY <2>1, <2>2, <2>3 DEF CoreInv
<1>2. ASSUME NEW i \in CoreIds, WriteFile(i) PROVE CoreInv'
  BY <1>2 DEF WriteFile, CoreInv
<1>3. ASSUME NEW c \in Callers, NEW list \in PruneLists,
             NEW op \in {"look", "delete", "copy", "prune", "keep_latest"}, AskCore(c, op, list)
      PROVE  CoreInv'
  <2> DEFINE pc == IF list = <<>> THEN "answered"
                   ELSE IF op \in {"prune", "keep_latest"}
                   THEN (IF guarded THEN "validate" ELSE "batch") ELSE "call"
             left == IF guarded /\ op \in {"prune", "keep_latest"} THEN 1..Len(list) ELSE {}
             r == [NoCall EXCEPT !.op = op, !.who = UserOf[c], !.ids = list, !.pc = pc, !.left = left]
  <2>1. Become(c, r) /\ UNCHANGED <<guarded, core, ownerOf>>
    BY <1>3 DEF AskCore
  <2>2. list \in Seq(CoreIds) /\ UserOf[c] \in CoreUsers
    BY GrpcThreadsAssumption
  <2>3. pc \in CallPlaces /\ left \subseteq Nat
    BY <2>2 DEF CallPlaces
  <2>4. pc = "call" => Len(list) = 1
    BY <1>3 DEF AskCore
  <2>5. op = "prune" => pc \in {"validate", "batch", "answered"}
    OBVIOUS
  <2> HIDE DEF pc, left
  <2>6. r \in CallType
    BY <2>2, <2>3, NoCallIs DEF CallType
  <2>7. r.op = op /\ r.pc = pc /\ r.ids = list /\ r.count = 0 /\ r.hit = {} /\ r.clean = {}
    BY NoCallIs DEF CallType
  <2> HIDE DEF r
  <2>8. op = "prune" => PruneOK(r, core)
    BY <2>5, <2>7, FS_EmptySet DEF PruneOK
  <2>9. CallOK(r, guarded, core, ownerOf)
    BY <2>4, <2>6, <2>7, <2>8 DEF CallOK
  <2> QED BY <2>1, <2>9, BecomeKeeps DEF CoreMoves
<1>4. ASSUME NEW c \in Callers, LookOrPatch(c) \/ DeleteCall(c) PROVE CoreInv'
  <2> DEFINE r == asked[c]
             i == r.ids[1]
  <2>1. /\ r \in CallType /\ r.pc = "call" /\ r.op \in {"look", "delete"} /\ UNCHANGED guarded
        /\ CallOK(r, guarded, core, ownerOf)
    BY <1>4 DEF LookOrPatch, DeleteCall, CoreInv
  <2>2. i \in CoreIds
    BY <2>1 DEF CallOK, CallType
  <2>3. \/ /\ UNCHANGED <<core, ownerOf>> /\ End(c, r, "refused")
        \/ /\ UNCHANGED <<core, ownerOf>> \/ Left(i)
           /\ Sees(r.who, i)
           /\ \/ End(c, [r EXCEPT !.hit = {core[i]}], "answered")
              \/ Become(c, [r EXCEPT !.hit = {core[i]}, !.pc = "files"])
    BY <1>4 DEF LookOrPatch, DeleteCall, Left
  <2> HIDE DEF r, i
  <2>4. CoreMoves
    BY <2>2, <2>3 DEF CoreMoves
  <2>5. CASE End(c, r, "refused")
    BY <2>1, <2>4, <2>5, EndKeeps DEF CallOK
  <2>6. CASE Sees(r.who, i) /\ End(c, [r EXCEPT !.hit = {core[i]}], "answered")
    <3> DEFINE a == [r EXCEPT !.hit = {core[i]}]
    <3>1. core[i] \in 1..Len(ownerOf) /\ core[i] \in Nat /\ (guarded => ownerOf[core[i]] = r.who)
      BY <1>0, <2>2, <2>6, SeesOwn
    <3>2. a \in CallType /\ a.hit = {core[i]} /\ a.op = r.op /\ a.who = r.who
      BY <2>1, <2>2, <3>1, HitIs
    <3> HIDE DEF a
    <3>3. End(c, a, "answered")
      BY <2>6 DEF a
    <3> QED BY <2>1, <2>4, <3>1, <3>2, <3>3, EndKeeps
  <2>7. CASE Sees(r.who, i) /\ Become(c, [r EXCEPT !.hit = {core[i]}, !.pc = "files"])
    <3> DEFINE a == [r EXCEPT !.hit = {core[i]}, !.pc = "files"]
    <3>1. core[i] \in 1..Len(ownerOf) /\ core[i] \in Nat /\ (guarded => ownerOf[core[i]] = r.who)
      BY <1>0, <2>2, <2>7, SeesOwn
    <3>2. a \in CallType /\ a.hit = {core[i]} /\ a.op = r.op /\ a.who = r.who /\ a.pc = "files"
      BY <2>1, <2>2, <3>1, HitIs
    <3> HIDE DEF a
    <3>3. CallOK(a, guarded, core, ownerOf)
      BY <2>1, <3>1, <3>2 DEF CallOK
    <3>4. CallOK(a, guarded, core', ownerOf')
      BY <1>0, <2>4, <3>3, CallsStay
    <3>5. Become(c, a)
      BY <2>7 DEF a
    <3> QED BY <2>1, <2>4, <3>4, <3>5, BecomeKeeps
  <2> QED BY <2>3, <2>5, <2>6, <2>7
<1>5. ASSUME NEW c \in Callers, SearchCore(c) PROVE CoreInv'
  <2> DEFINE seen == {core[i] : i \in {j \in CoreIds : Sees(UserOf[c], j)}}
             r == [NoCall EXCEPT !.op = "look", !.who = UserOf[c], !.pc = "answered", !.hit = seen]
  <2>1. Become(c, r) /\ UNCHANGED <<guarded, core, ownerOf>>
    BY <1>5 DEF SearchCore
  <2>2. \A n \in seen : n \in 1..Len(ownerOf) /\ n \in Nat /\ (guarded => ownerOf[n] = UserOf[c])
    BY <1>0, SeesOwn
  <2> HIDE DEF seen
  <2>3. r \in CallType /\ r.op = "look" /\ r.pc = "answered" /\ r.who = UserOf[c] /\ r.hit = seen
    BY <2>2, NoCallIs, GrpcThreadsAssumption DEF CallType, CallPlaces
  <2> HIDE DEF r
  <2>4. CallOK(r, guarded, core, ownerOf)
    BY <2>2, <2>3 DEF CallOK
  <2> QED BY <2>1, <2>4, BecomeKeeps DEF CoreMoves
<1>6. ASSUME NEW c \in Callers, FilesFollow(c) PROVE CoreInv'
  <2> DEFINE r == asked[c]
  <2>1. /\ r \in CallType /\ r.pc = "files" /\ CallOK(r, guarded, core, ownerOf)
        /\ UNCHANGED <<guarded, core, ownerOf>>
        /\ End(c, r, "answered") \/ End(c, r, "failed")
    BY <1>6 DEF FilesFollow, CoreInv
  <2> HIDE DEF r
  <2>2. r.op # "prune"
    BY <2>1 DEF CallOK, PruneOK
  <2> QED BY <2>1, <2>2, EndKeeps DEF CoreMoves, CallOK
<1>7. ASSUME NEW c \in Callers, NextBatch(c) PROVE CoreInv'
  <2> DEFINE r == asked[c]
             batch == {k \in 1..Len(r.ids) : k > r.base /\ k <= r.base + BatchSize}
  <2>1. /\ r \in CallType /\ r.pc = "batch" /\ CallOK(r, guarded, core, ownerOf)
        /\ UNCHANGED <<guarded, core, ownerOf>>
    BY <1>7 DEF NextBatch, CoreInv
  <2>2. batch \subseteq Nat /\ Cardinality(batch) \in Nat
    <3>1. Len(r.ids) \in Nat
      BY <2>1 DEF CallType
    <3>2. IsFiniteSet(1..Len(r.ids))
      BY <3>1, FS_Interval
    <3>3. IsFiniteSet(batch)
      BY <3>2, FS_Subset
    <3> QED BY <3>3, FS_CardinalityType
  <2>3. \/ End(c, r, "answered")
        \/ r.op = "prune" /\ Become(c, [r EXCEPT !.pc = "deleting", !.left = batch, !.base = @ + BatchSize])
        \/ r.op = "keep_latest" /\ Become(c, [r EXCEPT !.base = @ + BatchSize, !.count = @ + Cardinality(batch)])
        \/ r.op = "keep_latest" /\ Become(c, [r EXCEPT !.base = @ + BatchSize])
    BY <1>7 DEF NextBatch
  <2> HIDE DEF r, batch
  <2>4. r.base + BatchSize \in Nat /\ r.count + Cardinality(batch) \in Nat
    BY <2>1, <2>2, GrpcThreadsAssumption DEF CallType
  <2>5. CASE End(c, r, "answered")
    BY <2>1, <2>5, EndKeeps DEF CoreMoves, CallOK, PruneOK
  <2>6. CASE r.op = "prune" /\ Become(c, [r EXCEPT !.pc = "deleting", !.left = batch, !.base = @ + BatchSize])
    <3> DEFINE a == [r EXCEPT !.pc = "deleting", !.left = batch, !.base = r.base + BatchSize]
    <3>1. /\ a \in CallType /\ a.pc = "deleting" /\ a.hit = r.hit /\ a.op = r.op /\ a.who = r.who
          /\ a.clean = r.clean /\ a.count = r.count
      BY <2>1, <2>2, <2>4 DEF CallType, CallPlaces
    <3>2. Become(c, a)
      BY <2>6
    <3> HIDE DEF a
    <3>3. CallOK(a, guarded, core, ownerOf)
      BY <2>1, <3>1 DEF CallOK, PruneOK
    <3> QED BY <2>1, <3>2, <3>3, BecomeKeeps DEF CoreMoves
  <2>7. CASE r.op = "keep_latest" /\ Become(c, [r EXCEPT !.base = @ + BatchSize, !.count = @ + Cardinality(batch)])
    <3> DEFINE a == [r EXCEPT !.base = r.base + BatchSize, !.count = r.count + Cardinality(batch)]
    <3>1. a \in CallType /\ a.pc = r.pc /\ a.hit = r.hit /\ a.op = r.op /\ a.who = r.who
      BY <2>1, <2>4 DEF CallType
    <3>2. Become(c, a)
      BY <2>7
    <3> HIDE DEF a
    <3>3. CallOK(a, guarded, core, ownerOf)
      BY <2>1, <2>7, <3>1 DEF CallOK
    <3> QED BY <2>1, <3>2, <3>3, BecomeKeeps DEF CoreMoves
  <2>8. CASE r.op = "keep_latest" /\ Become(c, [r EXCEPT !.base = @ + BatchSize])
    <3> DEFINE a == [r EXCEPT !.base = r.base + BatchSize]
    <3>1. a \in CallType /\ a.pc = r.pc /\ a.hit = r.hit /\ a.op = r.op /\ a.who = r.who
      BY <2>1, <2>4 DEF CallType
    <3>2. Become(c, a)
      BY <2>8
    <3> HIDE DEF a
    <3>3. CallOK(a, guarded, core, ownerOf)
      BY <2>1, <2>8, <3>1 DEF CallOK
    <3> QED BY <2>1, <3>2, <3>3, BecomeKeeps DEF CoreMoves
  <2> QED BY <2>3, <2>5, <2>6, <2>7, <2>8
<1>8. ASSUME NEW c \in Callers, NEW j \in CoreIds, CopyCall(c, j) PROVE CoreInv'
  <2> DEFINE r == asked[c]
             i == r.ids[1]
  <2>1. /\ r \in CallType /\ r.pc = "call" /\ r.op = "copy" /\ UNCHANGED guarded
        /\ CallOK(r, guarded, core, ownerOf)
    BY <1>8 DEF CopyCall, CoreInv
  <2>2. i \in CoreIds
    BY <2>1 DEF CallOK, CallType
  <2>3. \/ UNCHANGED <<core, ownerOf>> /\ End(c, r, "refused")
        \/ /\ Sees(r.who, i) /\ Made(j, ownerOf[core[i]])
           /\ \/ End(c, [r EXCEPT !.hit = {core[i]}], "answered")
              \/ Become(c, [r EXCEPT !.hit = {core[i]}, !.pc = "files", !.new = j])
    BY <1>8 DEF CopyCall, Made
  <2> HIDE DEF r, i
  <2>4. CASE UNCHANGED <<core, ownerOf>> /\ End(c, r, "refused")
    BY <2>1, <2>4, EndKeeps DEF CallOK, CoreMoves
  <2>5. CASE /\ Sees(r.who, i) /\ Made(j, ownerOf[core[i]])
             /\ \/ End(c, [r EXCEPT !.hit = {core[i]}], "answered")
                \/ Become(c, [r EXCEPT !.hit = {core[i]}, !.pc = "files", !.new = j])
    <3>1. core[i] \in 1..Len(ownerOf) /\ core[i] \in Nat /\ (guarded => ownerOf[core[i]] = r.who)
      BY <1>0, <2>2, <2>5, SeesOwn
    <3>2. CoreMoves
      <4>1. ownerOf[core[i]] \in CoreUsers
        BY <1>0, <3>1 DEF CoreOK
      <4> QED BY <2>5, <4>1 DEF CoreMoves
    <3> DEFINE a == [r EXCEPT !.hit = {core[i]}]
               f == [r EXCEPT !.hit = {core[i]}, !.pc = "files", !.new = j]
    <3>3. /\ a \in CallType /\ a.hit = {core[i]} /\ a.op = r.op /\ a.who = r.who
          /\ f \in CallType /\ f.hit = {core[i]} /\ f.op = r.op /\ f.who = r.who /\ f.pc = "files"
      BY <2>1, <3>1 DEF CallType, CallPlaces
    <3>4. End(c, a, "answered") \/ Become(c, f)
      BY <2>5
    <3> HIDE DEF a, f
    <3>5. CallOK(f, guarded, core, ownerOf)
      BY <2>1, <3>1, <3>3 DEF CallOK
    <3>6. CallOK(f, guarded, core', ownerOf')
      BY <1>0, <3>2, <3>5, CallsStay
    <3>7. CASE End(c, a, "answered")
      BY <2>1, <3>1, <3>2, <3>3, <3>7, EndKeeps
    <3>8. CASE Become(c, f)
      BY <2>1, <3>2, <3>6, <3>8, BecomeKeeps
    <3> QED BY <3>4, <3>7, <3>8
  <2> QED BY <2>3, <2>4, <2>5
<1>9. ASSUME NEW c \in Callers, NEW k \in DOMAIN asked[c].ids, ValidateAccess(c, k) PROVE CoreInv'
  <2> DEFINE r == asked[c]
             pc == IF r.left = {k} THEN "batch" ELSE "validate"
             a == [r EXCEPT !.left = r.left \ {k}, !.pc = pc]
  <2>1. /\ r \in CallType /\ r.pc = "validate" /\ CallOK(r, guarded, core, ownerOf)
        /\ UNCHANGED <<guarded, core, ownerOf>>
        /\ Become(c, a) \/ End(c, r, "refused")
    BY <1>9 DEF ValidateAccess, CoreInv
  <2>2. pc \in {"batch", "validate"}
    OBVIOUS
  <2> HIDE DEF r, pc
  <2>3. CASE End(c, r, "refused")
    BY <2>1, <2>3, EndKeeps DEF CoreMoves, CallOK, PruneOK
  <2>4. CASE Become(c, a)
    <3>1. /\ a \in CallType /\ a.pc = pc /\ a.hit = r.hit /\ a.op = r.op /\ a.who = r.who
          /\ a.clean = r.clean /\ a.count = r.count
      BY <2>1, <2>2 DEF CallType, CallPlaces
    <3> HIDE DEF a
    <3>2. CallOK(a, guarded, core, ownerOf)
      BY <2>1, <2>2, <3>1 DEF CallOK, PruneOK
    <3> QED BY <2>1, <2>4, <3>2, BecomeKeeps DEF CoreMoves
  <2> QED BY <2>1, <2>3, <2>4
<1>10. ASSUME NEW c \in Callers, NEW k \in DOMAIN asked[c].ids, DeleteOne(c, k) PROVE CoreInv'
  <2> DEFINE r == asked[c]
             i == r.ids[k]
             n == core[i]
             more == IF custom THEN {k} ELSE {}
             one == IF custom THEN 0 ELSE 1
             hitting == [r EXCEPT !.left = r.left \ {k}, !.hit = r.hit \cup {n},
                                  !.clean = r.clean \cup more, !.count = r.count + one]
             missing == [r EXCEPT !.left = r.left \ {k}, !.count = Counted(r)]
  <2>1. /\ r \in CallType /\ r.pc = "deleting" /\ k \in r.left /\ CallOK(r, guarded, core, ownerOf)
        /\ UNCHANGED guarded /\ k \in Nat
    BY <1>10 DEF DeleteOne, CoreInv, CallType
  <2>2. i \in CoreIds
    BY <2>1 DEF CallType
  <2>3. \/ Sees(r.who, i) /\ Left(i) /\ Become(c, GatherEnds(hitting))
        \/ UNCHANGED <<core, ownerOf>> /\ Become(c, GatherEnds(missing))
    BY <1>10 DEF DeleteOne, MayDelete, Left
  <2>4. /\ more \in {{}, {k}} /\ one \in {0, 1}
        /\ (more = {} /\ one = 1) \/ (more = {k} /\ one = 0)
    <3>1. CASE custom
      BY <3>1
    <3>2. CASE ~ custom
      BY <3>2
    <3> QED BY <3>1, <3>2
  <2> HIDE DEF r, i, more, one
  <2>5. CASE Sees(r.who, i) /\ Left(i) /\ Become(c, GatherEnds(hitting))
    <3>1. n \in 1..Len(ownerOf) /\ n \in Nat /\ (guarded => ownerOf[n] = r.who)
      BY <1>0, <2>2, <2>5, SeesOwn
    <3>2. CoreMoves
      BY <2>2, <2>5 DEF CoreMoves
    <3>0. /\ r.left \ {k} \in SUBSET Nat /\ r.hit \cup {n} \in SUBSET Nat
          /\ r.clean \cup more \in SUBSET Nat /\ r.count + one \in Nat
      BY <2>1, <2>4, <3>1 DEF CallType
    <3>3. /\ hitting \in CallType /\ hitting.left = r.left \ {k} /\ hitting.hit = r.hit \cup {n}
          /\ hitting.clean = r.clean \cup more /\ hitting.count = r.count + one
          /\ hitting.op = r.op /\ hitting.who = r.who
      BY <2>1, <3>0 DEF CallType
    <3>4. \A j \in CoreIds : core'[j] # n
      BY <1>0, <2>2, <2>5, <3>1 DEF Left, CoreOK
    <3>5. \A m \in 1..Len(ownerOf) : m \in 1..Len(ownerOf') /\ ownerOf'[m] = ownerOf[m]
      BY <1>0, <3>2, MovesKeep
    <3>6. \A m \in r.hit : m \in 1..Len(ownerOf') /\ (guarded => ownerOf'[m] = r.who)
      BY <2>1, <3>5 DEF CallOK
    <3>7. r.op = "prune" => PruneOK(r, core')
      BY <1>0, <2>1, <3>2, CallsStay DEF CallOK
    <3>8. ASSUME r.op = "prune"
          PROVE  /\ IsFiniteSet(r.hit \cup {n}) /\ IsFiniteSet(r.clean \cup more)
                 /\ r.count + one + Cardinality(r.clean \cup more) = Cardinality(r.hit \cup {n})
      <4>1. PruneOK(r, core)
        BY <2>1, <3>8 DEF CallOK
      <4>2. n \notin r.hit /\ k \notin r.clean
        BY <2>1, <2>2, <4>1 DEF PruneOK
      <4>3. /\ IsFiniteSet(r.hit \cup {n}) /\ Cardinality(r.hit \cup {n}) = Cardinality(r.hit) + 1
            /\ IsFiniteSet(r.clean \cup {k}) /\ Cardinality(r.clean \cup {k}) = Cardinality(r.clean) + 1
            /\ r.clean \cup {} = r.clean
        BY <4>1, <4>2, FS_AddElement DEF PruneOK
      <4>4. Cardinality(r.hit) \in Nat /\ Cardinality(r.clean) \in Nat /\ r.count \in Nat
        BY <2>1, <4>1, FS_CardinalityType DEF PruneOK, CallType
      <4>5. CASE more = {} /\ one = 1
        BY <4>1, <4>3, <4>4, <4>5 DEF PruneOK
      <4>6. CASE more = {k} /\ one = 0
        BY <4>1, <4>3, <4>4, <4>6 DEF PruneOK
      <4> QED BY <2>4, <4>5, <4>6
    <3> HIDE DEF hitting, n
    <3> DEFINE a == GatherEnds(hitting)
    <3>9. /\ a \in CallType /\ a.pc \in {"batch", "deleting"} /\ (a.pc # "deleting" => a.clean = {})
          /\ a.left = hitting.left /\ a.hit = hitting.hit /\ a.clean = hitting.clean
          /\ a.count = hitting.count /\ a.op = hitting.op /\ a.who = hitting.who
      BY <3>3, GathersOn
    <3> HIDE DEF a
    <3>10. r.op = "prune" => PruneOK(a, core')
      <4>1. a.left \cap a.clean = {} \/ r.op # "prune"
        BY <2>4, <3>3, <3>7, <3>9 DEF PruneOK
      <4> QED BY <3>3, <3>4, <3>7, <3>8, <3>9, <4>1 DEF PruneOK
    <3>11. CallOK(a, guarded, core', ownerOf')
      BY <3>1, <3>3, <3>5, <3>6, <3>9, <3>10 DEF CallOK
    <3>12. Become(c, a)
      BY <2>5 DEF a
    <3> QED BY <2>1, <3>2, <3>11, <3>12, BecomeKeeps
  <2>6. CASE UNCHANGED <<core, ownerOf>> /\ Become(c, GatherEnds(missing))
    <3>1. /\ missing \in CallType /\ missing.left = r.left \ {k} /\ missing.hit = r.hit
          /\ missing.clean = r.clean /\ missing.count = r.count /\ missing.op = r.op /\ missing.who = r.who
      BY <2>1 DEF CallType, Counted
    <3> HIDE DEF missing
    <3> DEFINE a == GatherEnds(missing)
    <3>2. /\ a \in CallType /\ a.pc \in {"batch", "deleting"} /\ (a.pc # "deleting" => a.clean = {})
          /\ a.left = missing.left /\ a.hit = missing.hit /\ a.clean = missing.clean
          /\ a.count = missing.count /\ a.op = missing.op /\ a.who = missing.who
      BY <3>1, GathersOn
    <3>3. Become(c, a)
      BY <2>6
    <3> HIDE DEF a
    <3>4. CallOK(a, guarded, core, ownerOf)
      BY <2>1, <3>1, <3>2 DEF CallOK, PruneOK
    <3> QED BY <2>1, <2>6, <3>3, <3>4, BecomeKeeps DEF CoreMoves
  <2> QED BY <2>3, <2>5, <2>6
<1>11. ASSUME NEW c \in Callers, NEW k \in DOMAIN asked[c].ids, CleanOne(c, k) PROVE CoreInv'
  <2> DEFINE r == asked[c]
             cleaned == [r EXCEPT !.clean = r.clean \ {k}, !.count = r.count + 1]
  <2>1. /\ r \in CallType /\ r.pc = "deleting" /\ k \in r.clean /\ CallOK(r, guarded, core, ownerOf)
        /\ UNCHANGED <<guarded, core, ownerOf>> /\ Become(c, GatherEnds(cleaned))
    BY <1>11 DEF CleanOne, CoreInv
  <2> HIDE DEF r
  <2>0. r.clean \ {k} \in SUBSET Nat /\ r.count + 1 \in Nat
    BY <2>1 DEF CallType
  <2>2. /\ cleaned \in CallType /\ cleaned.left = r.left /\ cleaned.hit = r.hit
        /\ cleaned.clean = r.clean \ {k} /\ cleaned.count = r.count + 1
        /\ cleaned.op = r.op /\ cleaned.who = r.who
    BY <2>0, <2>1 DEF CallType
  <2> HIDE DEF cleaned
  <2> DEFINE a == GatherEnds(cleaned)
  <2>3. /\ a \in CallType /\ a.pc \in {"batch", "deleting"} /\ (a.pc # "deleting" => a.clean = {})
        /\ a.left = cleaned.left /\ a.hit = cleaned.hit /\ a.clean = cleaned.clean
        /\ a.count = cleaned.count /\ a.op = cleaned.op /\ a.who = cleaned.who
    BY <2>2, GathersOn
  <2>4. Become(c, a)
    BY <2>1
  <2> HIDE DEF a
  <2>5. ASSUME r.op = "prune" PROVE PruneOK(a, core)
    <3>1. PruneOK(r, core)
      BY <2>1, <2>5 DEF CallOK
    <3>2. /\ IsFiniteSet(r.clean \ {k}) /\ Cardinality(r.clean \ {k}) = Cardinality(r.clean) - 1
          /\ Cardinality(r.clean) \in Nat /\ Cardinality(r.hit) \in Nat /\ r.count \in Nat
      BY <2>1, <3>1, FS_RemoveElement, FS_CardinalityType DEF PruneOK, CallType
    <3>3. r.count + 1 + Cardinality(r.clean \ {k}) = Cardinality(r.hit)
      BY <3>1, <3>2 DEF PruneOK
    <3> QED BY <2>2, <2>3, <3>1, <3>2, <3>3 DEF PruneOK
  <2>6. CallOK(a, guarded, core, ownerOf)
    BY <2>1, <2>2, <2>3, <2>5 DEF CallOK
  <2> QED BY <2>1, <2>4, <2>6, BecomeKeeps DEF CoreMoves
<1>12. CASE UNCHANGED gtVars
  BY <1>12 DEF gtVars, CoreInv
<1> QED BY <1>1, <1>2, <1>3, <1>4, <1>5, <1>6, <1>7, <1>8, <1>9, <1>10, <1>11, <1>12 DEF GrpcThreadsNext

(***************************************************************************)
(* Assistants, their versions and the crons                                *)
(***************************************************************************)
Version == [asst : AssistantIds, version : Nat, config : Configs]

\* A record of the list of crons, or of one of its predecessors.
CronRecord(r) ==
  r \in [live : BOOLEAN, enabled : BOOLEAN, asst : AssistantIds, thread : BOOLEAN,
         sched : {r.sched}, next : {r.next}]

\* The versions of an assistant are numbered from one, and there are some while it is known.
Numbered(a) == \E n \in Nat : VersionsOf(a) = 1..n /\ (Known(a) <=> n > 0)

Unambiguous ==
  \A v, w \in versions : v.asst = w.asst /\ v.version = w.version => v = w

NamesItsContent(a) ==
  Known(a) => \E v \in versions : v.asst = a /\ v.version = assistant[a].version
                                             /\ v.config = assistant[a].config

AssistantsInv ==
  /\ assistant = [a \in AssistantIds |-> assistant[a]]
  /\ versions \subseteq Version
  /\ \A a \in AssistantIds : Numbered(a) /\ NamesItsContent(a)
  /\ Unambiguous
  /\ cron = [c \in CronIds |-> cron[c]]
  /\ \A c \in CronIds : cron[c] = NoCron \/ CronRecord(cron[c])
  /\ CronHasAssistant

\* A record with a configuration is an assistant.
LEMMA SomeAssistant ==
  ASSUME NEW n, NEW f PROVE [version |-> n, config |-> f] # NoAssistant
<1>1. "config" \in DOMAIN [version |-> n, config |-> f] /\ "config" \notin DOMAIN [version |-> 0]
  OBVIOUS
<1> QED BY <1>1 DEF NoAssistant

\* The versions of an assistant are numbered from 1 on without a gap.
LEMMA VersionNumbers ==
  ASSUME AssistantsInv, NEW a \in AssistantIds
  PROVE  /\ VersionsOf(a) = 1..Cardinality(VersionsOf(a))
         /\ Known(a) => Latest(a) \in Nat \ {0} /\ VersionsOf(a) = 1..Latest(a)
<1>1. PICK n \in Nat : VersionsOf(a) = 1..n /\ (Known(a) <=> n > 0)
  BY DEF AssistantsInv, Numbered
<1>2. Cardinality(1..n) = n
  BY FS_Interval
<1>3. n > 0 => Latest(a) = n
  BY <1>1 DEF Latest
<1> QED BY <1>1, <1>2, <1>3

\* At first there are no assistants.
LEMMA AssistantsStart == CronStoreInit => AssistantsInv
<1> SUFFICES ASSUME CronStoreInit PROVE AssistantsInv
  OBVIOUS
<1>1. /\ versions = {} /\ assistant = [a \in AssistantIds |-> NoAssistant]
      /\ cron = [c \in CronIds |-> NoCron] /\ NoCron.live = FALSE
  BY DEF CronStoreInit, NoCron
<1>2. \A a \in AssistantIds : VersionsOf(a) = 1..0 /\ ~ Known(a)
  BY <1>1 DEF VersionsOf, Known
<1> QED BY <1>1, <1>2 DEF AssistantsInv, Numbered, NamesItsContent, Unambiguous, CronHasAssistant

\* A version is added: the next one of its assistant.
LEMMA VersionAdded ==
  ASSUME AssistantsInv, NEW a \in AssistantIds, NEW f \in Configs, NEW n \in Nat \ {0},
         VersionsOf(a) = 1..n - 1,
         assistant' = [assistant EXCEPT ![a] = [version |-> n, config |-> f]],
         versions' = versions \cup {[asst |-> a, version |-> n, config |-> f]},
         UNCHANGED cron
  PROVE  AssistantsInv'
<1> DEFINE new == [asst |-> a, version |-> n, config |-> f]
<1>1. new \in Version /\ new.asst = a /\ new.version = n /\ new.config = f
  BY DEF Version
<1>2. /\ assistant' = [b \in AssistantIds |-> assistant'[b]]
      /\ \A b \in AssistantIds : assistant'[b] = IF b = a THEN [version |-> n, config |-> f] ELSE assistant[b]
  BY DEF AssistantsInv
<1>3. versions' = versions \cup {new}
  OBVIOUS
<1> HIDE DEF new
<1>4. \A b \in AssistantIds : Known(b)' <=> Known(b) \/ b = a
  BY <1>2, SomeAssistant DEF Known
<1>5. \A b \in AssistantIds : Numbered(b)'
  <2>1. ASSUME NEW b \in AssistantIds, b # a PROVE VersionsOf(b)' = VersionsOf(b)
    BY <1>1, <1>3, <2>1 DEF VersionsOf
  <2>2. VersionsOf(a)' = VersionsOf(a) \cup {n}
    BY <1>1, <1>3 DEF VersionsOf
  <2>3. VersionsOf(a)' = 1..n
    BY <2>2
  <2> QED BY <1>4, <2>1, <2>3 DEF AssistantsInv, Numbered
<1>6. Unambiguous'
  <2>1. \A v \in versions : v.asst = a => v.version \in 1..n - 1
    BY DEF VersionsOf
  <2> QED BY <1>1, <1>3, <2>1 DEF AssistantsInv, Unambiguous
<1>7. \A b \in AssistantIds : NamesItsContent(b)'
  BY <1>1, <1>2, <1>3, <1>4 DEF AssistantsInv, NamesItsContent
<1>8. CronHasAssistant'
  <2>1. \A c \in CronIds : cron[c].live => cron[c].asst \in AssistantIds
    BY DEF AssistantsInv, CronRecord, NoCron
  <2> QED BY <1>4, <2>1 DEF AssistantsInv, CronHasAssistant
<1> QED BY <1>1, <1>2, <1>3, <1>5, <1>6, <1>7, <1>8 DEF AssistantsInv

\* What a deletion and the scheduler change of a cron leaves it a cron, of its assistant.
LEMMA CronChanges ==
  ASSUME NEW r, CronRecord(r), NEW next
  PROVE  /\ LET u == [r EXCEPT !.next = next] IN
            CronRecord(u) /\ u.live = r.live /\ u.thread = r.thread /\ u.asst = r.asst
         /\ LET u == [r EXCEPT !.live = FALSE] IN CronRecord(u) /\ u.live = FALSE
<1>1. [r EXCEPT !.next = next] \in
        [live : BOOLEAN, enabled : BOOLEAN, asst : AssistantIds, thread : BOOLEAN,
         sched : {r.sched}, next : {next}]
  BY DEF CronRecord
<1>2. [r EXCEPT !.live = FALSE] \in
        [live : BOOLEAN, enabled : BOOLEAN, asst : AssistantIds, thread : BOOLEAN,
         sched : {r.sched}, next : {r.next}]
  BY DEF CronRecord
<1> QED BY <1>1, <1>2 DEF CronRecord

\* No step of the crons and assistants leaves the invariant.
LEMMA AssistantsStep == AssistantsInv /\ [CronStoreNext]_csVars => AssistantsInv'
<1> SUFFICES ASSUME AssistantsInv, [CronStoreNext]_csVars PROVE AssistantsInv'
  OBVIOUS
<1>1. ASSUME NEW a \in AssistantIds, NEW f \in Configs, PutAssistant(a, f) PROVE AssistantsInv'
  <2>1. ~ Known(a) /\ 1 \in Nat \ {0}
    BY <1>1 DEF PutAssistant
  <2>2. VersionsOf(a) = 1..1 - 1
    BY <2>1 DEF AssistantsInv, Numbered
  <2> QED BY <1>1, <2>1, <2>2, VersionAdded DEF PutAssistant
<1>2. ASSUME NEW a \in AssistantIds, NEW f \in Configs, PatchAssistant(a, f) PROVE AssistantsInv'
  <2>1. Latest(a) \in Nat \ {0} /\ VersionsOf(a) = 1..Latest(a)
    BY <1>2, VersionNumbers DEF PatchAssistant
  <2>2. NextVersion(a) \in Nat \ {0} /\ VersionsOf(a) = 1..NextVersion(a) - 1
    BY <2>1 DEF NextVersion
  <2> QED BY <1>2, <2>2, VersionAdded DEF PatchAssistant
<1>3. ASSUME NEW a \in AssistantIds, NEW n \in 1..MaxVersion, SetLatest(a, n) PROVE AssistantsInv'
  <2>1. PICK v \in versions : /\ v.asst = a /\ v.version = n
                              /\ assistant' = [assistant EXCEPT ![a] = [version |-> n, config |-> v.config]]
    BY <1>3 DEF SetLatest
  <2>2. Known(a) /\ UNCHANGED <<versions, cron>>
    BY <1>3 DEF SetLatest
  <2>3. /\ assistant' = [b \in AssistantIds |-> assistant'[b]]
        /\ \A b \in AssistantIds : assistant'[b] = IF b = a THEN [version |-> n, config |-> v.config] ELSE assistant[b]
    BY <2>1 DEF AssistantsInv
  <2>4. \A b \in AssistantIds : Known(b)' <=> Known(b)
    BY <2>2, <2>3, SomeAssistant DEF Known
  <2>5. \A b \in AssistantIds : NamesItsContent(b)' /\ Numbered(b)'
    BY <2>1, <2>2, <2>3, <2>4 DEF AssistantsInv, NamesItsContent, Numbered, VersionsOf
  <2>6. CronHasAssistant'
    <3>1. \A c \in CronIds : cron[c].live => cron[c].asst \in AssistantIds
      BY DEF AssistantsInv, CronRecord, NoCron
    <3> QED BY <2>2, <2>4, <3>1 DEF AssistantsInv, CronHasAssistant
  <2> QED BY <2>2, <2>3, <2>5, <2>6 DEF AssistantsInv, Unambiguous
<1>4. ASSUME NEW a \in AssistantIds, FinishDeleteAssistant(a) PROVE AssistantsInv'
  <2>1. /\ assistant' = [assistant EXCEPT ![a] = NoAssistant]
        /\ versions' = {v \in versions : v.asst # a}
        /\ cron' = [c \in CronIds |-> IF cron[c].live /\ cron[c].asst = a THEN Removed(c) ELSE cron[c]]
    BY <1>4 DEF FinishDeleteAssistant
  <2>2. /\ assistant' = [b \in AssistantIds |-> assistant'[b]]
        /\ \A b \in AssistantIds : assistant'[b] = IF b = a THEN NoAssistant ELSE assistant[b]
    BY <2>1 DEF AssistantsInv
  <2>3. \A b \in AssistantIds : Known(b)' <=> Known(b) /\ b # a
    BY <2>2 DEF Known
  <2>4. \A b \in AssistantIds : Numbered(b)'
    <3>1. ASSUME NEW b \in AssistantIds, b # a PROVE VersionsOf(b)' = VersionsOf(b)
      BY <2>1, <3>1 DEF VersionsOf
    <3>2. VersionsOf(a)' = 1..0
      BY <2>1 DEF VersionsOf
    <3>3. ASSUME NEW b \in AssistantIds, b # a PROVE Numbered(b)'
      BY <2>3, <3>1, <3>3 DEF AssistantsInv, Numbered
    <3>4. Numbered(a)'
      BY <2>3, <3>2 DEF Numbered
    <3> QED BY <3>3, <3>4
  <2>5. \A b \in AssistantIds : NamesItsContent(b)'
    BY <2>1, <2>2, <2>3 DEF AssistantsInv, NamesItsContent
  <2>6. ASSUME NEW c \in CronIds
        PROVE  /\ cron'[c] = NoCron \/ CronRecord(cron'[c])
               /\ cron'[c].live /\ ~ cron'[c].thread => assistant'[cron'[c].asst] # NoAssistant
    <3>1. CASE cron[c].live /\ cron[c].asst = a
      <4>1. cron'[c] = [cron[c] EXCEPT !.live = FALSE] /\ CronRecord(cron[c])
        BY <2>1, <3>1 DEF Removed, AssistantsInv, NoCron
      <4>2. cron'[c].live = FALSE /\ CronRecord(cron'[c])
        BY <4>1 DEF CronRecord
      <4> QED BY <4>2
    <3>2. CASE ~ (cron[c].live /\ cron[c].asst = a)
      <4>1. cron'[c] = cron[c]
        BY <2>1, <3>2
      <4>2. cron[c].live => cron[c].asst \in AssistantIds
        BY DEF AssistantsInv, CronRecord, NoCron
      <4> QED BY <2>2, <3>2, <4>1, <4>2 DEF AssistantsInv, CronHasAssistant, Known
    <3> QED BY <3>1, <3>2
  <2>7. cron' = [c \in CronIds |-> cron'[c]]
    BY <2>1
  <2>8. CronHasAssistant'
    BY <2>6 DEF CronHasAssistant, Known
  <2> QED BY <2>1, <2>2, <2>4, <2>5, <2>6, <2>7, <2>8 DEF AssistantsInv, Unambiguous
\* One cron record changes, if there is one, and is not revived.
<1>5. ASSUME UNCHANGED <<assistant, versions>>, NEW c \in CronIds, NEW r,
             cron' = [cron EXCEPT ![c] = r], r = NoCron \/ CronRecord(r),
             r.live /\ ~ r.thread => Known(r.asst)
      PROVE  AssistantsInv'
  <2>1. cron' = [d \in CronIds |-> cron'[d]] /\ \A d \in CronIds : cron'[d] = IF d = c THEN r ELSE cron[d]
    BY <1>5 DEF AssistantsInv
  <2> QED BY <1>5, <2>1 DEF AssistantsInv, Numbered, VersionsOf, Known, NamesItsContent, Unambiguous, CronHasAssistant
<1>6. ASSUME NEW c \in CronIds, NEW a \in AssistantIds, NEW onThread \in BOOLEAN, NEW s \in Schedules,
             PutCron(c, a, onThread, s)
      PROVE  AssistantsInv'
  <2> DEFINE r == [live |-> TRUE, enabled |-> TRUE, asst |-> a, thread |-> onThread,
                   sched |-> s, next |-> NextDate(s, clock)]
  <2>1. CronRecord(r) /\ (~ r.thread => Known(r.asst))
    BY <1>6 DEF PutCron, CronRecord
  <2>2. UNCHANGED <<assistant, versions>> /\ cron' = [cron EXCEPT ![c] = r]
    BY <1>6 DEF PutCron
  <2> HIDE DEF r
  <2> QED BY <1>5, <2>1, <2>2
<1>7. ASSUME NEW c \in CronIds, NEW enabled \in BOOLEAN, NEW s \in Schedules, UpdateCron(c, enabled, s)
      PROVE  AssistantsInv'
  <2> DEFINE due == IF s # cron[c].sched THEN NextDate(s, clock) ELSE cron[c].next
             r == [cron[c] EXCEPT !.enabled = enabled, !.sched = s, !.next = due]
  <2>1. CronRecord(cron[c]) /\ UNCHANGED <<assistant, versions>>
    BY <1>7 DEF UpdateCron, AssistantsInv, NoCron
  <2>2. cron' = [cron EXCEPT ![c] = r]
    BY <1>7 DEF UpdateCron
  <2> HIDE DEF due
  <2>3. CronRecord(r) /\ r.live = cron[c].live /\ r.thread = cron[c].thread /\ r.asst = cron[c].asst
    <3>1. r \in [live : BOOLEAN, enabled : BOOLEAN, asst : AssistantIds, thread : BOOLEAN,
                 sched : {s}, next : {due}]
      BY <2>1 DEF CronRecord
    <3>2. r.live = cron[c].live /\ r.thread = cron[c].thread /\ r.asst = cron[c].asst
      BY <2>1 DEF CronRecord
    <3> QED BY <3>1, <3>2 DEF CronRecord
  <2> HIDE DEF r
  <2>4. r.live /\ ~ r.thread => Known(r.asst)
    BY <2>3 DEF AssistantsInv, CronHasAssistant
  <2> QED BY <1>5, <2>1, <2>2, <2>3, <2>4
<1>8. ASSUME NEW c \in CronIds, DeleteCron(c) PROVE AssistantsInv'
  <2> DEFINE r == [cron[c] EXCEPT !.live = FALSE]
  <2>1. CronRecord(cron[c]) /\ UNCHANGED <<assistant, versions>> /\ cron' = [cron EXCEPT ![c] = r]
    BY <1>8 DEF DeleteCron, Removed, AssistantsInv, NoCron
  <2>2. CronRecord(r) /\ r.live = FALSE
    BY <2>1, CronChanges
  <2> HIDE DEF r
  <2> QED BY <1>5, <2>1, <2>2
<1>9. CASE SetNextRunDate
  <2> DEFINE c == walk.id
             due == IF cron[c].live THEN NextDate(walk.sched, walk.now) ELSE cron[c].next
             r == [cron[c] EXCEPT !.next = due]
  <2>1. UNCHANGED <<assistant, versions>> /\ cron' = [cron EXCEPT ![c] = r]
    BY <1>9 DEF SetNextRunDate
  <2> HIDE DEF c, due
  <2>2. CASE c \notin CronIds
    <3>1. UNCHANGED <<assistant, versions, cron>>
      <4>1. cron = [d \in CronIds |-> cron[d]]
        BY DEF AssistantsInv
      <4> HIDE DEF r
      <4> QED BY <2>1, <2>2, <4>1
    <3> HIDE DEF r
    <3> QED BY <3>1 DEF AssistantsInv, Numbered, VersionsOf, Known, NamesItsContent, Unambiguous, CronHasAssistant
  <2>3. CASE c \in CronIds /\ CronRecord(cron[c])
    <3>1. CronRecord(r) /\ r.live = cron[c].live /\ r.thread = cron[c].thread /\ r.asst = cron[c].asst
      BY <2>3, CronChanges
    <3> HIDE DEF r
    <3>2. r.live /\ ~ r.thread => Known(r.asst)
      BY <2>3, <3>1 DEF AssistantsInv, CronHasAssistant
    <3> QED BY <1>5, <2>1, <2>3, <3>1, <3>2
  <2>4. CASE c \in CronIds /\ cron[c] = NoCron
    <3>1. r = NoCron
      BY <2>4 DEF NoCron
    <3>2. NoCron.live = FALSE
      BY DEF NoCron
    <3> HIDE DEF r
    <3> QED BY <1>5, <2>1, <2>4, <3>1, <3>2
  <2> QED BY <2>2, <2>3, <2>4 DEF AssistantsInv
<1>10. CASE \/ UNCHANGED csVars \/ Tick \/ StartPass \/ WalkOn \/ CreateCronRun
            \/ \E a \in AssistantIds : BeginDeleteAssistant(a)
  <2>1. UNCHANGED <<assistant, versions, cron>>
    BY <1>10 DEF csVars, Tick, StartPass, WalkOn, CreateCronRun, BeginDeleteAssistant
  <2> QED BY <2>1 DEF AssistantsInv, Numbered, VersionsOf, Known, NamesItsContent, Unambiguous, CronHasAssistant
<1> QED BY <1>1, <1>2, <1>3, <1>4, <1>6, <1>7, <1>8, <1>9, <1>10 DEF CronStoreNext

(***************************************************************************)
(* The theorems                                                            *)
(***************************************************************************)
\* No request writes or copies a thread of another user in memory, and behind gRPC none
\* touches one: for all users, requests, lists of ids and suspensions of the handlers.
THEOREM OwnersKept == Spec => []OwnersOnly
<1>1. Init => ThreadsInv /\ CoreInv
  BY ThreadsStart, CoreStart DEF Init
<1>2. ThreadsInv /\ CoreInv /\ [Next]_recordVars => ThreadsInv' /\ CoreInv'
  BY ThreadsStep, CoreStep, StepsOfComponents
<1>3. ThreadsInv /\ CoreInv => OwnersOnly
  BY DEF ThreadsInv, CoreInv, CallOK, OwnersOnly, OnlyOwnThreads
<1> QED BY <1>1, <1>2, <1>3, PTL DEF Spec

\* Threads are unique apart from what Runs.put appends, assistants have the content of the
\* version they name, and a prune behind gRPC answers what it did.
THEOREM RecordsAlwaysAgree == Spec => []RecordsAgree
<1>1. Init => ThreadsInv /\ AssistantsInv /\ CoreInv
  BY ThreadsStart, AssistantsStart, CoreStart DEF Init
<1>2. ThreadsInv /\ AssistantsInv /\ CoreInv /\ [Next]_recordVars => ThreadsInv' /\ AssistantsInv' /\ CoreInv'
  BY ThreadsStep, AssistantsStep, CoreStep, StepsOfComponents
<1>3. ThreadsInv /\ AssistantsInv /\ CoreInv => RecordsAgree
  <2>1. ThreadsInv => DuplicatesByRunsOnly
    BY DEF ThreadsInv
  <2>2. AssistantsInv => VersionsConsistent
    <3>1. SUFFICES ASSUME AssistantsInv PROVE VersionsConsistent
      OBVIOUS
    <3>2. \A a \in AssistantIds : VersionsOf(a) = 1..Cardinality(VersionsOf(a))
      BY <3>1, VersionNumbers
    <3> QED BY <3>1, <3>2 DEF AssistantsInv, VersionsConsistent, NamesItsContent, Unambiguous
  <2>3. CoreInv => PruneTellsWhatItDid
    <3>1. SUFFICES ASSUME CoreInv, NEW c \in Callers, asked[c].op = "prune",
                          asked[c].pc \in {"refused", "answered"}
                   PROVE  /\ asked[c].pc = "refused" => asked[c].hit = {}
                          /\ asked[c].pc = "answered" => asked[c].count = Cardinality(asked[c].hit)
      BY DEF PruneTellsWhatItDid
    <3>2. PruneOK(asked[c], core) /\ asked[c].count \in Nat
      BY <3>1 DEF CoreInv, CallOK, CallType
    <3>3. asked[c].clean = {} /\ Cardinality({}) = 0
      BY <3>1, <3>2, FS_EmptySet DEF PruneOK
    <3>4. Cardinality(asked[c].clean) = 0
      BY <3>3, Zenon
    <3> QED BY <3>1, <3>2, <3>4 DEF PruneOK
  <2> QED BY <2>1, <2>2, <2>3 DEF RecordsAgree
<1> QED BY <1>1, <1>2, <1>3, PTL DEF Spec

\* Deleting a thread or an assistant leaves no cron behind, whatever other requests do
\* meanwhile: the one thing to ask is that the handler of deletions does not suspend.
THEOREM CronsGoWithTheirs ==
  ASSUME "delete" \notin Suspending
  PROVE  Spec => []NoCronLeftBehind
<1>1. Init => ThreadsInv /\ AssistantsInv
  BY ThreadsStart, AssistantsStart DEF Init
<1>2. ThreadsInv /\ AssistantsInv /\ [Next]_recordVars => ThreadsInv' /\ AssistantsInv'
  BY ThreadsStep, AssistantsStep, StepsOfComponents
<1>3. ThreadsInv /\ AssistantsInv => NoCronLeftBehind
  BY DEF ThreadsInv, CronsInv, AssistantsInv, NoCronLeftBehind
<1> QED BY <1>1, <1>2, <1>3, PTL DEF Spec

(***************************************************************************)
(* Encrypted records                                                       *)
(***************************************************************************)
Form(d, k) == d.cells[k].form

\* Ciphertext comes with a marker, that of the deployment's encryptor with a context;
\* under each deployment there are the markers that it or its predecessors write.
DocOK(d, mode) ==
  /\ d \in Docs
  /\ \A k \in Keys : /\ Form(d, k) = "absent" => d.cells[k] = Absent
                     /\ Form(d, k) = "aes" => d.marker # "none" /\ mode \in {"aes", "both"}
                     /\ Form(d, k) = "custom" => d.marker \in Contexts
  /\ mode \in {"none", "blob"} => d.marker = "none"
  /\ mode = "aes" => d.marker \in {"none", "aes"}
  /\ mode = "custom" => d.marker # "aes"

\* The history of a record knows its marker and the writers of its cells.
EraOK(d, written) ==
  /\ IsFiniteSet(written)
  /\ d.marker # "none" => d.marker \in written
  /\ \A k \in Keys : /\ Form(d, k) = "aes" => "aes" \in written
                     /\ Form(d, k) = "custom" => d.cells[k].by \in written

RecordInv ==
  /\ deployed \in Deployments
  /\ doc = [x \in Records |-> doc[x]] /\ payload = [c \in CronNames |-> payload[c]]
  /\ eras = [x \in Records |-> eras[x]]
  /\ \A x \in Records : DocOK(doc[x], deployed) /\ EraOK(doc[x], eras[x])
  /\ \A c \in CronNames : DocOK(payload[c], deployed)

ContextInv ==
  /\ creator \in [CronNames -> Contexts \cup {"absent"}]
  /\ made.outcome = "run" =>
       /\ made.cron \in CronNames /\ creator[made.cron] # "absent"
       /\ made.ctx \in {Nobody, creator[made.cron]}

EncInv == RecordInv /\ ContextInv

\* The markers are told apart.
LEMMA Markers ==
  /\ "none" \notin Contexts /\ "aes" \notin Contexts /\ "absent" \notin Contexts /\ Nobody \in Contexts
  BY EncryptedRecordAssumption DEF Contexts, Nobody

\* A dictionary of plain cells, field by field.
LEMMA PlainDocIs ==
  ASSUME NEW ks \in SUBSET Keys
  PROVE  /\ PlainDoc(ks) \in Docs /\ PlainDoc(ks).marker = "none" /\ PlainDoc(ks).blob = Nobody
         /\ PlainDoc(ks).cells = [k \in Keys |-> IF k \in ks THEN Plain ELSE Absent]
<1>1. Plain \in Cells /\ Absent \in Cells
  BY Markers DEF Plain, Absent, Cells
<1>2. [k \in Keys |-> IF k \in ks THEN Plain ELSE Absent] \in [Keys -> Cells]
  BY <1>1
<1>3. EmptyDoc \in Docs /\ EmptyDoc.marker = "none" /\ EmptyDoc.blob = Nobody
  BY <1>1, Markers DEF EmptyDoc, Docs
<1> QED BY <1>2, <1>3 DEF PlainDoc, Docs

\* A record of each encryption, by its marker, blob context and cells.
LEMMA MarkedIs ==
  ASSUME NEW p \in Docs, NEW m \in {"none", "aes"} \cup Contexts, NEW cs \in [Keys -> Cells],
         NEW d, d = [p EXCEPT !.marker = m, !.cells = cs]
  PROVE  d \in Docs /\ d.marker = m /\ d.cells = cs
BY DEF Docs

\* It is in order under every deployment, whoever wrote.
LEMMA PlainDocOK ==
  ASSUME NEW ks \in SUBSET Keys, NEW mode
  PROVE  DocOK(PlainDoc(ks), mode) /\ EraOK(PlainDoc(ks), {})
<1>1. Plain.form = "plain" /\ Absent.form = "absent"
  BY DEF Plain, Absent
<1>2. \A k \in Keys : PlainDoc(ks).cells[k] \in {Plain, Absent}
  BY PlainDocIs
<1> QED BY <1>1, <1>2, PlainDocIs, FS_EmptySet DEF DocOK, EraOK, Form

\* What AesEncryptionInstance.encrypt_json stores, and its history.
LEMMA AesDocOK ==
  ASSUME NEW ks \in SUBSET Keys
  PROVE  /\ DocOK(AesEncrypted(ks), "aes")
         /\ EraOK(AesEncrypted(ks), IF ks \cap Allowed = {} THEN {} ELSE {"aes"})
<1> DEFINE m == IF ks \cap Allowed = {} THEN "none" ELSE "aes"
           cs == [k \in Keys |-> IF k \in ks \cap Allowed THEN [form |-> "aes", by |-> Nobody]
                                 ELSE PlainDoc(ks).cells[k]]
           d == AesEncrypted(ks)
<1>1. Plain \in Cells /\ Absent \in Cells /\ [form |-> "aes", by |-> Nobody] \in Cells
  BY Markers DEF Plain, Absent, Cells
<1>2. cs \in [Keys -> Cells] /\ m \in {"none", "aes"}
  BY <1>1, PlainDocIs
<1>3. d = [PlainDoc(ks) EXCEPT !.marker = m, !.cells = cs]
  BY DEF AesEncrypted
<1>4. d \in Docs /\ d.marker = m /\ d.cells = cs
  <2>1. PlainDoc(ks) \in Docs /\ m \in {"none", "aes"} \cup Contexts
    BY <1>2, PlainDocIs
  <2> HIDE DEF d, cs, m
  <2> QED BY <1>2, <1>3, <2>1 DEF Docs
<1>5. Plain.form = "plain" /\ Absent.form = "absent"
  BY DEF Plain, Absent
<1>6. \A k \in Keys : \/ cs[k] \in {Plain, Absent}
                      \/ cs[k] = [form |-> "aes", by |-> Nobody] /\ m = "aes"
  BY PlainDocIs
<1>7. {"aes"} # {} /\ IsFiniteSet({}) /\ IsFiniteSet({"aes"})
  BY FS_EmptySet, FS_Singleton
<1>8. DocOK(d, "aes")
  BY <1>2, <1>4, <1>5, <1>6 DEF DocOK, Form
<1>9. EraOK(d, IF ks \cap Allowed = {} THEN {} ELSE {"aes"})
  BY <1>4, <1>5, <1>6, <1>7 DEF EraOK, Form
<1> QED BY <1>8, <1>9

\* What the wrapper's encryptor stores under the context t, and its history.
LEMMA CustomDocOK ==
  ASSUME NEW ks \in SUBSET Keys, NEW t \in Contexts, NEW mode \in {"custom", "both"}
  PROVE  /\ DocOK(CustomEncrypted(ks, t), mode) /\ EraOK(CustomEncrypted(ks, t), {t})
         /\ CustomEncrypted(ks, t).marker = t
<1> DEFINE cs == [k \in Keys |-> IF k \in ToEncrypt(ks) THEN [form |-> "custom", by |-> t]
                                 ELSE PlainDoc(ks).cells[k]]
           d == CustomEncrypted(ks, t)
<1>1. Plain \in Cells /\ Absent \in Cells /\ [form |-> "custom", by |-> t] \in Cells
  BY Markers DEF Plain, Absent, Cells
<1>2. cs \in [Keys -> Cells]
  BY <1>1, PlainDocIs
<1>3. d = [PlainDoc(ks) EXCEPT !.marker = t, !.cells = cs]
  BY DEF CustomEncrypted
<1>4. d \in Docs /\ d.marker = t /\ d.cells = cs
  <2>1. PlainDoc(ks) \in Docs /\ t \in {"none", "aes"} \cup Contexts
    BY PlainDocIs
  <2> HIDE DEF d, cs
  <2> QED BY <1>2, <1>3, <2>1 DEF Docs
<1>5. Plain.form = "plain" /\ Absent.form = "absent"
  BY DEF Plain, Absent
<1>6. \A k \in Keys : cs[k] \in {Plain, Absent} \/ cs[k] = [form |-> "custom", by |-> t]
  <2>1. \A k \in Keys : PlainDoc(ks).cells[k] \in {Plain, Absent}
    BY PlainDocIs
  <2>2. \A k \in Keys : cs[k] = [form |-> "custom", by |-> t] \/ cs[k] = PlainDoc(ks).cells[k]
    OBVIOUS
  <2> HIDE DEF cs
  <2> QED BY <2>1, <2>2
<1>7. IsFiniteSet({t})
  BY FS_Singleton
<1>8. DocOK(d, mode)
  BY <1>4, <1>5, <1>6, Markers DEF DocOK, Form
<1>9. EraOK(d, {t})
  BY <1>4, <1>5, <1>6, <1>7 DEF EraOK, Form
<1> QED BY <1>4, <1>8, <1>9

\* What is merged has the markers and the history of both.
LEMMA MergeOK ==
  ASSUME NEW old, NEW new, NEW mode, NEW e, NEW f,
         DocOK(old, mode), DocOK(new, mode), EraOK(old, e), EraOK(new, f),
         new.marker = "aes" => mode = "aes"
  PROVE  DocOK(MergeJsonb(old, new), mode) /\ EraOK(MergeJsonb(old, new), e \cup f)
<1> DEFINE d == MergeJsonb(old, new)
<1>1. /\ d.marker = IF new.marker = "none" THEN old.marker ELSE new.marker
      /\ \A k \in Keys : d.cells[k] = IF new.cells[k] = Absent THEN old.cells[k] ELSE new.cells[k]
  BY DEF MergeJsonb
<1>2. d \in Docs
  BY DEF MergeJsonb, DocOK, Docs
<1> HIDE DEF d
<1>3. DocOK(d, mode)
  <2>1. ASSUME NEW k \in Keys
        PROVE  /\ Form(d, k) = "absent" => d.cells[k] = Absent
               /\ Form(d, k) = "aes" => d.marker # "none" /\ mode \in {"aes", "both"}
               /\ Form(d, k) = "custom" => d.marker \in Contexts
    <3>1. d.cells[k] = old.cells[k] \/ d.cells[k] = new.cells[k]
      BY <1>1
    <3>2. CASE d.cells[k] = old.cells[k]
      BY <1>1, <3>2, Markers DEF DocOK, Form, Docs
    <3>3. CASE d.cells[k] = new.cells[k]
      BY <1>1, <3>3, Markers DEF DocOK, Form, Docs
    <3> QED BY <3>1, <3>2, <3>3
  <2>2. /\ mode \in {"none", "blob"} => d.marker = "none"
        /\ mode = "aes" => d.marker \in {"none", "aes"}
        /\ mode = "custom" => d.marker # "aes"
    BY <1>1 DEF DocOK
  <2> QED BY <1>2, <2>1, <2>2 DEF DocOK
<1>4. IsFiniteSet(e \cup f)
  BY FS_Union DEF EraOK
<1>5. EraOK(d, e \cup f)
  BY <1>1, <1>4 DEF EraOK, Form
<1> QED BY <1>3, <1>5 DEF d

(***************************************************************************)
(* What a request stores, and what a reader is handed                      *)
(***************************************************************************)
\* What encrypt_json_if_needed stores is in order under its deployment.
LEMMA JsonOK ==
  ASSUME deployed \in Deployments, NEW ks \in SUBSET Keys, NEW t \in Contexts
  PROVE  /\ DocOK(EncryptJson(ks, t), deployed) /\ EraOK(EncryptJson(ks, t), EraOf(ks, t))
         /\ EncryptJson(ks, t).marker = "aes" => deployed = "aes"
<1>1. CASE deployed = "none"
  BY <1>1, PlainDocOK, PlainDocIs DEF EncryptJson, EraOf
<1>2. CASE deployed = "aes"
  BY <1>2, AesDocOK DEF EncryptJson, EraOf
<1>3. CASE deployed = "blob"
  <2>1. BlobContextKept(ks, t) = [PlainDoc(ks) EXCEPT !.blob = t]
    BY DEF BlobContextKept
  <2>2. /\ BlobContextKept(ks, t) \in Docs /\ BlobContextKept(ks, t).marker = PlainDoc(ks).marker
        /\ BlobContextKept(ks, t).cells = PlainDoc(ks).cells
    BY <2>1, PlainDocIs DEF Docs
  <2>3. DocOK(BlobContextKept(ks, t), "blob") /\ EraOK(BlobContextKept(ks, t), {})
    BY <2>2, PlainDocOK DEF DocOK, EraOK, Form
  <2> QED BY <1>3, <2>2, <2>3, PlainDocIs DEF EncryptJson, EraOf
<1>4. CASE deployed \in {"custom", "both"}
  BY <1>4, CustomDocOK, Markers DEF EncryptJson, EraOf
<1> QED BY <1>1, <1>2, <1>3, <1>4 DEF Deployments

\* So is what a request stores, with Core as well.
LEMMA EncryptedOK ==
  ASSUME deployed \in Deployments, NEW ks \in SUBSET Keys, NEW t \in Contexts
  PROVE  /\ DocOK(Encrypted(ks, t), deployed) /\ EraOK(Encrypted(ks, t), EraOf(ks, t))
         /\ Encrypted(ks, t).marker = "aes" => deployed = "aes"
<1>1. CASE ~ ByCore
  BY <1>1, JsonOK DEF Encrypted
<1>2. CASE ByCore
  <2> DEFINE secret == CustomEncrypted(ToEncrypt(ks), t)
             rest == PlainDoc(ks \ ToEncrypt(ks))
  <2>1. deployed \in {"custom", "both"} /\ Encrypted(ks, t) = MergeJsonb(secret, rest)
    BY <1>2 DEF ByCore, Encrypted, CoreEncryptJSON, EncryptFieldRecursive
  <2>2. ToEncrypt(ks) \in SUBSET Keys /\ ks \ ToEncrypt(ks) \in SUBSET Keys
    BY DEF ToEncrypt
  <2>3. DocOK(secret, deployed) /\ EraOK(secret, {t}) /\ secret.marker = t
    BY <2>1, <2>2, CustomDocOK
  <2>4. DocOK(rest, deployed) /\ EraOK(rest, {}) /\ rest.marker = "none"
    BY <2>2, PlainDocOK, PlainDocIs
  <2> HIDE DEF secret, rest
  <2>5. DocOK(MergeJsonb(secret, rest), deployed) /\ EraOK(MergeJsonb(secret, rest), {t} \cup {})
    BY <2>3, <2>4, MergeOK
  <2>6. MergeJsonb(secret, rest).marker = t
    BY <2>3, <2>4 DEF MergeJsonb
  <2>7. EraOf(ks, t) = {t} /\ {t} \cup {} = {t}
    BY <2>1 DEF EraOf
  <2> QED BY <2>1, <2>5, <2>6, <2>7, Markers
<1> QED BY <1>1, <1>2

\* Where the marker decides, what it does not announce is plain.
LEMMA RouteOK ==
  ASSUME NEW d, DocOK(d, deployed), deployed \in {"blob", "custom", "both"}
  PROVE  RoutedByMarker(d).served \subseteq {"plain"}
<1>1. \A f \in Forms(d) : \E k \in Keys : f = Form(d, k) /\ f \in {"plain", "aes", "custom"}
  BY DEF Forms, KeysOf, DocOK, Docs, Cells, Form
<1>2. CASE d.marker = "none"
  BY <1>1, <1>2, Markers DEF RoutedByMarker, Served, DocOK
<1>3. CASE d.marker = "aes"
  <2>1. Forms(d) \ {"aes"} \subseteq {"plain"}
    BY <1>1, <1>3, Markers DEF DocOK
  <2> QED BY <1>3, <2>1, Markers DEF RoutedByMarker, AesDecrypted, Served, Failed
<1>4. CASE d.marker \in Contexts
  <2>1. RoutedByMarker(d).served = {} \/ ("aes" \notin Forms(d) /\ RoutedByMarker(d).served = Forms(d) \ {"custom"})
    BY <1>4, Markers DEF RoutedByMarker, Served, Failed
  <2> QED BY <1>1, <2>1
<1> QED BY <1>2, <1>3, <1>4 DEF DocOK, Docs

\* Whoever decrypts, ciphertext is not in what the reader is handed.
LEMMA NeverServed ==
  ASSUME NEW d, DocOK(d, deployed), deployed \in Deployments
  PROVE  Decrypted(d).served \subseteq {"plain"}
<1>1. \A f \in Forms(d) : \E k \in Keys : f = Form(d, k) /\ f \in {"plain", "aes", "custom"}
  BY DEF Forms, KeysOf, DocOK, Docs, Cells, Form
<1>2. CASE ByCore
  BY <1>2, RouteOK DEF ByCore, Decrypted, CoreDecryptJSON, DecryptFieldRecursive
<1>3. CASE ~ ByCore /\ deployed = "none"
  <2>1. d.marker = "none" /\ Forms(d) \subseteq {"plain"}
    BY <1>1, <1>3, Markers DEF DocOK
  <2> QED BY <1>3, <2>1 DEF Decrypted, DecryptJson, Served
<1>4. CASE ~ ByCore /\ deployed = "aes"
  <2>1. Forms(d) \ {"aes"} \subseteq {"plain"}
    BY <1>1, <1>4, Markers DEF DocOK
  <2> QED BY <1>4, <2>1 DEF Decrypted, DecryptJson, AesDecrypted, Served
<1>5. CASE ~ ByCore /\ deployed \in {"blob", "custom", "both"}
  BY <1>5, RouteOK DEF Decrypted, DecryptJson
<1> QED BY <1>2, <1>3, <1>4, <1>5 DEF Deployments

\* One encryption in the history is one marker and one writer.
LEMMA OneEraReads ==
  ASSUME NEW d, NEW e, DocOK(d, deployed), EraOK(d, e), Cardinality(e) <= 1, deployed \in Deployments
  PROVE  Decrypted(d).ok
<1>1. \A a, b \in e : a = b
  <2>1. SUFFICES ASSUME NEW a \in e, NEW b \in e, a # b PROVE FALSE
    OBVIOUS
  <2>2. IsFiniteSet({a, b}) /\ Cardinality({a, b}) <= Cardinality(e)
    BY <2>1, FS_Subset DEF EraOK
  <2>3. Cardinality({a} \cup {b}) = Cardinality({a}) + 1 /\ Cardinality({a}) = 1 /\ IsFiniteSet({a})
    BY <2>1, FS_AddElement, FS_Singleton
  <2>4. {a} \cup {b} = {a, b}
    OBVIOUS
  <2>5. Cardinality({a, b}) = 2
    BY <2>3, <2>4
  <2>6. Cardinality(e) \in Nat
    BY FS_CardinalityType DEF EraOK
  <2> QED BY <2>2, <2>5, <2>6
<1>2. \A x : Served(x).ok
  BY DEF Served
<1>3. CASE d.marker = "none"
  BY <1>2, <1>3, Markers DEF Decrypted, CoreDecryptJSON, DecryptFieldRecursive, DecryptJson, RoutedByMarker, AesDecrypted, Deployments
<1>4. CASE d.marker = "aes"
  <2>1. deployed \in {"aes", "both"}
    BY <1>4, Markers DEF DocOK, Deployments
  <2> QED BY <1>2, <1>4, <2>1, Markers DEF Decrypted, CoreDecryptJSON, DecryptFieldRecursive, DecryptJson, RoutedByMarker, AesDecrypted, ByCore
<1>5. CASE d.marker \in Contexts
  <2>1. deployed \in {"custom", "both"}
    BY <1>5, Markers DEF DocOK, Deployments
  <2>2. d.marker \in e
    BY <1>5, Markers DEF EraOK
  <2>3. "aes" \notin Forms(d)
    BY <1>1, <1>5, <2>2, Markers DEF EraOK, Forms, KeysOf, Form
  <2>4. \A k \in KeysOf(d) : d.cells[k].form = "custom" => d.cells[k].by = d.marker
    BY <1>1, <2>2 DEF EraOK, KeysOf, Form
  <2>5. RoutedByMarker(d).ok
    BY <1>2, <1>5, <2>1, <2>3, <2>4, Markers DEF RoutedByMarker
  <2> QED BY <2>1, <2>5 DEF Decrypted, CoreDecryptJSON, DecryptFieldRecursive, DecryptJson
<1> QED BY <1>3, <1>4, <1>5 DEF DocOK, Docs

(***************************************************************************)
(* The invariant holds of every reachable state                            *)
(***************************************************************************)
\* The empty store is in order.
LEMMA EncStart == EncInit => EncInv
<1> SUFFICES ASSUME EncInit PROVE EncInv
  OBVIOUS
<1>1. EmptyDoc = PlainDoc({})
  BY DEF PlainDoc, EmptyDoc
<1>2. \A mode : DocOK(EmptyDoc, mode) /\ EraOK(EmptyDoc, {})
  BY <1>1, PlainDocOK
<1>3. RecordInv
  <2>1. \A x \in Records : doc[x] = EmptyDoc /\ eras[x] = {}
    BY DEF EncInit
  <2>2. \A c \in CronNames : payload[c] = EmptyDoc
    BY DEF EncInit
  <2>3. /\ deployed \in Deployments
        /\ doc = [x \in Records |-> doc[x]] /\ payload = [c \in CronNames |-> payload[c]]
        /\ eras = [x \in Records |-> eras[x]]
    BY DEF EncInit
  <2> QED BY <1>2, <2>1, <2>2, <2>3 DEF RecordInv
<1>4. ContextInv
  BY DEF EncInit, ContextInv
<1> QED BY <1>3, <1>4 DEF EncInv

\* A request that leaves one record in order leaves them all in order.
LEMMA OneRecordSaved ==
  ASSUME RecordInv, NEW x \in Records, NEW d, NEW e, DocOK(d, deployed), EraOK(d, e),
         deployed' = deployed, doc' = [doc EXCEPT ![x] = d], eras' = [eras EXCEPT ![x] = e],
         \/ payload' = payload
         \/ \E c \in CronNames : \E p : DocOK(p, deployed) /\ payload' = [payload EXCEPT ![c] = p]
  PROVE  RecordInv'
<1>1. /\ doc' = [y \in Records |-> doc'[y]] /\ eras' = [y \in Records |-> eras'[y]]
      /\ \A y \in Records : doc'[y] = (IF y = x THEN d ELSE doc[y])
      /\ \A y \in Records : eras'[y] = (IF y = x THEN e ELSE eras[y])
  BY DEF RecordInv
<1>2. \A y \in Records : DocOK(doc'[y], deployed) /\ EraOK(doc'[y], eras'[y])
  BY <1>1 DEF RecordInv
<1>3. payload' = [c \in CronNames |-> payload'[c]] /\ \A c \in CronNames : DocOK(payload'[c], deployed)
  <2>1. CASE payload' = payload
    BY <2>1 DEF RecordInv
  <2>2. CASE \E c \in CronNames : \E p : DocOK(p, deployed) /\ payload' = [payload EXCEPT ![c] = p]
    BY <2>2 DEF RecordInv
  <2> QED BY <2>1, <2>2
<1>4. deployed' \in Deployments /\ deployed' = deployed
  BY DEF RecordInv
<1> HIDE DEF RecordInv
<1> QED BY <1>1, <1>2, <1>3, <1>4 DEF RecordInv

\* A record with what a request adds to it is in order.
LEMMA SavedOver ==
  ASSUME RecordInv, NEW x \in Records, NEW ks \in SUBSET Keys, NEW t \in Contexts
  PROVE  /\ DocOK(MergeJsonb(doc[x], Encrypted(ks, t)), deployed)
         /\ EraOK(MergeJsonb(doc[x], Encrypted(ks, t)), eras[x] \cup EraOf(ks, t))
BY EncryptedOK, MergeOK DEF RecordInv

\* A run's metadata is in order.
LEMMA RunMetadataOK ==
  ASSUME RecordInv, NEW ks \in SUBSET Keys, NEW t \in Contexts, PutRunMetadata(t, ks),
         deployed' = deployed, payload' = payload
  PROVE  RecordInv'
<1> DEFINE d == MergeJsonb(doc["assistant"], Encrypted(ks, t))
           e == eras["assistant"] \cup EraOf(ks, t)
<1>1. "run" \in Records /\ "assistant" \in Records
  BY DEF Records
<1>2. DocOK(d, deployed) /\ EraOK(d, e)
  BY <1>1, SavedOver
<1>3. doc' = [doc EXCEPT !["run"] = d] /\ eras' = [eras EXCEPT !["run"] = e]
  BY DEF PutRunMetadata
<1> HIDE DEF d, e
<1> QED BY <1>1, <1>2, <1>3, OneRecordSaved

\* The contexts are kept by all that touches neither creators nor firings.
LEMMA ContextStays ==
  ASSUME ContextInv, UNCHANGED <<creator, made>>
  PROVE  ContextInv'
BY DEF ContextInv

\* The markers of a deployment are also markers of those that may follow it.
LEMMA RedeployKeeps ==
  ASSUME EncInv, Redeploy
  PROVE  EncInv'
<1>1. PICK m \in Deployments : <<deployed, m>> \in Redeploys /\ deployed' = m
  BY DEF Redeploy
<1>2. \/ deployed = "none" /\ m \in {"aes", "blob", "custom"}
      \/ deployed = "aes" /\ m = "both"
      \/ deployed = "blob" /\ m = "custom"
  BY <1>1, EncryptedRecordAssumption DEF EncInv, RecordInv
<1>3. ASSUME NEW d, DocOK(d, deployed) PROVE DocOK(d, m)
  BY <1>2, <1>3, Markers DEF DocOK
<1>4. UNCHANGED <<doc, payload, eras, creator, made>>
  BY DEF Redeploy
<1>5. RecordInv'
  BY <1>1, <1>3, <1>4 DEF EncInv, RecordInv
<1> QED BY <1>4, <1>5, ContextStays DEF EncInv

\* A firing writes a run under the context it restored, or nothing.
LEMMA FireKeeps ==
  ASSUME EncInv, NEW c \in CronNames, Fire(c)
  PROVE  EncInv'
<1>1. creator[c] \in Contexts /\ restored' = creator[c]
  BY DEF Fire, RestoredContext, EncInv, ContextInv
<1>2. deployed' = deployed /\ payload' = payload /\ creator' = creator
  BY DEF Fire
<1>3. CASE UNCHANGED <<doc, eras>> /\ made'.outcome # "run"
  BY <1>2, <1>3 DEF EncInv, RecordInv, ContextInv
<1>4. CASE /\ PutRunMetadata(restored', FiredMetadata(c))
           /\ made' = [outcome |-> "run", cron |-> c, ctx |-> WorkerContext(restored')]
  <2>1. FiredMetadata(c) \in SUBSET Keys
    BY DEF FiredMetadata, KeysOf
  <2>2. RecordInv'
    BY <1>1, <1>2, <1>4, <2>1, RunMetadataOK DEF EncInv
  <2>3. made'.cron = c /\ made'.ctx \in {Nobody, creator[c]}
    BY <1>1, <1>4 DEF WorkerContext
  <2>4. ContextInv'
    BY <1>2, <2>3 DEF EncInv, ContextInv, Fire
  <2> QED BY <2>2, <2>4 DEF EncInv
<1> QED BY <1>3, <1>4 DEF Fire

\* One step per request, and those of the scheduler and the deployments.
LEMMA EncStep == EncInv /\ [EncNext]_encVars => EncInv'
<1> SUFFICES ASSUME EncInv, [EncNext]_encVars PROVE EncInv'
  OBVIOUS
<1> USE DEF EncInv
<1>1. ASSUME NEW t \in Contexts, NEW ks \in SUBSET Keys, SaveAssistant(t, ks) PROVE EncInv'
  <2>1. "assistant" \in Records
    BY DEF Records
  <2>2. /\ doc' = [doc EXCEPT !["assistant"] = MergeJsonb(doc["assistant"], Encrypted(ks, t))]
        /\ eras' = [eras EXCEPT !["assistant"] = eras["assistant"] \cup EraOf(ks, t)]
        /\ UNCHANGED <<deployed, payload, creator, made>>
    BY <1>1 DEF SaveAssistant
  <2> QED BY <2>1, <2>2, SavedOver, OneRecordSaved, ContextStays
<1>2. ASSUME NEW t \in Contexts, NEW ks \in SUBSET Keys, PutItem(t, ks) PROVE EncInv'
  <2>1. "item" \in Records /\ deployed \in Deployments
    BY DEF Records, RecordInv
  <2>2. /\ doc' = [doc EXCEPT !["item"] = EncryptJson(ks, t)]
        /\ eras' = [eras EXCEPT !["item"] = EraOf(ks, t)]
        /\ UNCHANGED <<deployed, payload, creator, made>>
    BY <1>2 DEF PutItem
  <2> QED BY <2>1, <2>2, JsonOK, OneRecordSaved, ContextStays
<1>3. ASSUME NEW t \in Contexts, NEW ks \in SUBSET Keys, CreateRun(t, ks) PROVE EncInv'
  BY <1>3, RunMetadataOK, ContextStays DEF CreateRun
<1>4. ASSUME NEW t \in Contexts, NEW ks \in SUBSET Keys, NEW c \in CronNames, CreateCron(c, t, ks)
      PROVE  EncInv'
  <2>1. c \in Records /\ deployed \in Deployments
    BY DEF Records, RecordInv
  <2>2. /\ doc' = [doc EXCEPT ![c] = Encrypted(ks, t)] /\ payload' = [payload EXCEPT ![c] = Encrypted(ks, t)]
        /\ eras' = [eras EXCEPT ![c] = EraOf(ks, t)] /\ creator[c] = "absent"
        /\ creator' = [creator EXCEPT ![c] = t] /\ UNCHANGED <<deployed, made>>
    BY <1>4 DEF CreateCron
  <2>3. RecordInv'
    BY <2>1, <2>2, EncryptedOK, OneRecordSaved
  <2>4. ContextInv'
    BY <2>2, Markers DEF ContextInv
  <2> QED BY <2>3, <2>4
<1>5. ASSUME NEW t \in Contexts, NEW ks \in SUBSET Keys, NEW c \in CronNames, PatchCron(c, t, ks)
      PROVE  EncInv'
  <2>1. c \in Records /\ deployed \in Deployments
    BY DEF Records, RecordInv
  <2>2. /\ doc' = [doc EXCEPT ![c] = MergeJsonb(doc[c], Encrypted(ks, t))]
        /\ payload' = [payload EXCEPT ![c] = Encrypted(ks, t)]
        /\ eras' = [eras EXCEPT ![c] = eras[c] \cup EraOf(ks, t)]
        /\ UNCHANGED <<deployed, creator, made>>
    BY <1>5 DEF PatchCron
  <2>3. RecordInv'
    BY <2>1, <2>2, SavedOver, EncryptedOK, OneRecordSaved
  <2> QED BY <2>2, <2>3, ContextStays
<1>6. CASE UNCHANGED encVars
  BY <1>6, ContextStays DEF encVars, RecordInv
<1> QED BY <1>1, <1>2, <1>3, <1>4, <1>5, <1>6, FireKeeps, RedeployKeeps DEF EncNext

\* What EncInv says of the properties.
LEMMA EncInvSuffices == EncInv => CiphertextNeverServed /\ OneEraReadable /\ NoContextLeak
<1> SUFFICES ASSUME EncInv PROVE CiphertextNeverServed /\ OneEraReadable /\ NoContextLeak
  OBVIOUS
<1>1. CiphertextNeverServed
  BY NeverServed DEF EncInv, RecordInv, CiphertextNeverServed
<1>2. OneEraReadable
  BY OneEraReads DEF EncInv, RecordInv, OneEraReadable
<1>3. NoContextLeak
  BY DEF EncInv, ContextInv, NoContextLeak
<1> QED BY <1>1, <1>2, <1>3

\* A step of MCRecords is a step of the encrypted records or leaves them alone.
LEMMA StepsOfEncryption == [Next]_recordVars => [EncNext]_encVars /\ UNCHANGED focus
<1> SUFFICES ASSUME [Next]_recordVars PROVE [EncNext]_encVars /\ UNCHANGED focus
  OBVIOUS
<1> QED BY DEF Next, Others, recordVars, encVars

\* What is stored encrypted is never served as data, is readable for as long as one
\* encryption wrote it (decrypt_json_if_needed and the wrapper's decryptor), and a
\* cron's run works under its creator's context (cron_scheduler): for all tenants,
\* keys, allowlists, crons and numbers of requests.
THEOREM EncryptionAlwaysKept == Spec => []EncryptionKept
<1>1. Init => EncInv
  BY EncStart DEF Init
<1>2. EncInv /\ [Next]_recordVars => EncInv'
  BY EncStep, StepsOfEncryption
<1>3. EncInv => EncryptionKept
  BY EncInvSuffices DEF EncryptionKept
<1> QED BY <1>1, <1>2, <1>3, PTL DEF Spec
=============================================================================
