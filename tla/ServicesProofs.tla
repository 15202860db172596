--------------------------- MODULE ServicesProofs ---------------------------
(***************************************************************************)
(* What MCServices promises of the queue workers of the Postgres runtime,  *)
(* of the in-memory server over its restarts, of the cache and of a run    *)
(* behind gRPC, for every value of the constants, with the types of these  *)
(* and of the JavaScript processes.  Each inductive invariant is about one *)
(* component, and is kept by the steps of the others because they leave    *)
(* its variables alone.                                                    *)
(***************************************************************************)
EXTENDS MCServices, FiniteSetTheorems, SequenceTheorems, TLAPS

\* A step of MCServices is a step of a component or none.
LEMMA StepsOfComponents ==
  ASSUME [Next]_serviceVars
  PROVE  /\ [PgQueueNext]_pgQueueVars /\ [ServerNext]_slVars
         /\ [SwrNext]_swrVars /\ [SidecarNext]_sidecarVars
<1>1. CASE Next
  BY <1>1 DEF Next, Others
<1>2. CASE UNCHANGED serviceVars
  BY <1>2 DEF serviceVars
<1> QED BY <1>1, <1>2

(***************************************************************************)
(* The queue workers                                                       *)
(***************************************************************************)
Worker == [up : BOOLEAN, batch : Seq(Tooled), permits : Nat, tasks : SUBSET Tooled, active : Nat]

QueueTypes ==
  /\ entries \in [Tooled -> {"absent", "new"} \cup Workers]
  /\ executed \in [Tooled -> Nat]
  /\ workers \in [Workers -> Worker]

\* Entries that no consumer was given, or that are still in a batch, were not executed;
\* an entry has one place in one batch.
OnceInv ==
  /\ ExecutedAtMostOnce
  /\ \A r \in Tooled : entries[r] \notin Workers => executed[r] = 0
  /\ \A w \in Workers : \A i \in 1..Len(workers[w].batch) :
       /\ entries[workers[w].batch[i]] \in Workers
       /\ executed[workers[w].batch[i]] = 0
  /\ \A v, w \in Workers : \A i \in 1..Len(workers[v].batch), j \in 1..Len(workers[w].batch) :
       workers[v].batch[i] = workers[w].batch[j] => v = w /\ i = j

\* The semaphore: a task for every permit that was taken.
PermitInv ==
  \A w \in Workers : Cardinality(workers[w].tasks) + workers[w].permits <= Concurrency

QueueInv == QueueTypes /\ OnceInv /\ PermitInv

\* A worker that has begun, or is no more: no batch, no task, every permit.
LEMMA FreshWorkers ==
  \A x \in {NewWorker, NoWorker} :
    /\ x \in Worker /\ Len(x.batch) = 0
    /\ Cardinality(x.tasks) + x.permits = Concurrency
<1>1. /\ NewWorker \in Worker /\ NewWorker.batch = <<>>
      /\ NewWorker.tasks = {} /\ NewWorker.permits = Concurrency
  BY PgQueueAssumption DEF NewWorker, Worker
<1>2. /\ NoWorker \in Worker /\ NoWorker.batch = NewWorker.batch
      /\ NoWorker.tasks = NewWorker.tasks /\ NoWorker.permits = NewWorker.permits
  BY <1>1 DEF NoWorker, Worker
<1>3. Cardinality({}) + Concurrency = Concurrency
  BY FS_EmptySet, PgQueueAssumption
<1>4. Cardinality(NewWorker.tasks) = Cardinality({}) /\ Cardinality(NoWorker.tasks) = Cardinality({})
  BY <1>1, <1>2, Zenon
<1>5. Len(NewWorker.batch) = 0 /\ Len(NoWorker.batch) = 0
  BY <1>1, <1>2
<1>6. /\ Cardinality(NewWorker.tasks) + NewWorker.permits = Concurrency
      /\ Cardinality(NoWorker.tasks) + NoWorker.permits = Concurrency
  BY <1>1, <1>2, <1>3, <1>4
<1> QED BY <1>1, <1>2, <1>5, <1>6, Zenon

\* At first no entry has been read.
LEMMA QueueStart == PgQueueInit => QueueInv
<1> SUFFICES ASSUME PgQueueInit PROVE QueueInv
  OBVIOUS
<1>1. \A w \in Workers : workers[w] = NewWorker
  BY DEF PgQueueInit
<1>2. QueueTypes
  BY FreshWorkers DEF PgQueueInit, QueueTypes
<1>3. \A w \in Workers : /\ Len(workers[w].batch) = 0
                         /\ Cardinality(workers[w].tasks) + workers[w].permits = Concurrency
  BY <1>1, FreshWorkers
<1>4. OnceInv
  BY <1>3 DEF PgQueueInit, OnceInv, ExecutedAtMostOnce
<1>5. PermitInv
  BY <1>3, PgQueueAssumption DEF PermitInv
<1> QED BY <1>2, <1>4, <1>5 DEF QueueInv

\* Where batches only vanish and entries keep an owner, OnceInv is kept.
LEMMA BatchesKept ==
  ASSUME QueueTypes, OnceInv, executed' = executed,
         \A r \in Tooled : entries'[r] \in Workers <=> entries[r] \in Workers,
         \A v \in Workers : Len(workers'[v].batch) = 0 \/ workers'[v].batch = workers[v].batch
  PROVE  OnceInv'
<1>1. \A v \in Workers : workers[v].batch \in Seq(Tooled)
  BY DEF QueueTypes, Worker
<1>2. ExecutedAtMostOnce' /\ \A r \in Tooled : entries'[r] \notin Workers => executed'[r] = 0
  BY DEF OnceInv, ExecutedAtMostOnce
<1>3. ASSUME NEW v \in Workers, NEW i \in 1..Len(workers'[v].batch)
      PROVE  workers'[v].batch = workers[v].batch
  BY <1>3
<1>4. ASSUME NEW v \in Workers, NEW i \in 1..Len(workers'[v].batch)
      PROVE  entries'[workers'[v].batch[i]] \in Workers /\ executed'[workers'[v].batch[i]] = 0
  BY <1>1, <1>3 DEF OnceInv
<1>5. ASSUME NEW u \in Workers, NEW v \in Workers,
             NEW i \in 1..Len(workers'[u].batch), NEW j \in 1..Len(workers'[v].batch),
             workers'[u].batch[i] = workers'[v].batch[j]
      PROVE  u = v /\ i = j
  BY <1>3, <1>5 DEF OnceInv
<1> QED BY <1>2, <1>4, <1>5 DEF OnceInv

\* xreadgroup hands out entries that are nobody's.
LEMMA ReadGroupKeeps ==
  ASSUME QueueInv, NEW w \in Workers, ReadGroup(w)
  PROVE  QueueInv'
<1>1. PICK S \in SUBSET NewEntries :
        /\ entries' = [r \in Tooled |-> IF r \in S THEN w ELSE entries[r]]
        /\ \E q \in Orders(S) : workers' = [workers EXCEPT ![w].batch = q]
  BY DEF ReadGroup
<1>2. PICK q \in Orders(S) : workers' = [workers EXCEPT ![w].batch = q]
  BY <1>1
<1>3. S \subseteq Tooled /\ \A r \in S : entries[r] = "new" /\ executed[r] = 0
  BY PgQueueAssumption DEF NewEntries, QueueInv, OnceInv
<1>4. Cardinality(S) \in Nat
  BY <1>3, PgQueueAssumption, FS_Subset, FS_CardinalityType
<1>5. /\ q \in Seq(Tooled) /\ Len(q) = Cardinality(S)
      /\ \A i \in 1..Len(q) : q[i] \in S
      /\ \A i, j \in 1..Len(q) : q[i] = q[j] => i = j
  <2>1. q \in [1..Cardinality(S) -> S] /\ \A i, j \in DOMAIN q : q[i] = q[j] => i = j
    BY DEF Orders
  <2>2. q \in Seq(S) /\ Len(q) = Cardinality(S)
    BY <1>4, <2>1
  <2> QED BY <1>3, <2>1, <2>2
<1>6. executed' = executed
  BY DEF ReadGroup
<1>7. QueueTypes'
  BY <1>1, <1>2, <1>3, <1>5, <1>6 DEF QueueInv, QueueTypes, Worker
<1>8. \A v \in Workers : /\ workers'[v].batch = IF v = w THEN q ELSE workers[v].batch
                         /\ workers'[v].tasks = workers[v].tasks
                         /\ workers'[v].permits = workers[v].permits
  BY <1>2 DEF QueueInv, QueueTypes, Worker
<1>9. OnceInv'
  <2>1. ExecutedAtMostOnce'
    BY <1>6 DEF QueueInv, OnceInv, ExecutedAtMostOnce
  <2>2. \A r \in Tooled : entries'[r] \notin Workers => executed'[r] = 0
    BY <1>1, <1>6 DEF QueueInv, OnceInv
  <2>3. \A v \in Workers : \A i \in 1..Len(workers[v].batch) : workers[v].batch[i] \in Tooled \ S
    <3>1. \A v \in Workers : workers[v].batch \in Seq(Tooled)
      BY DEF QueueInv, QueueTypes, Worker
    <3> QED BY <3>1, <1>3, PgQueueAssumption DEF QueueInv, OnceInv
  <2>4. \A v \in Workers : \A i \in 1..Len(workers'[v].batch) :
          /\ entries'[workers'[v].batch[i]] \in Workers
          /\ executed'[workers'[v].batch[i]] = 0
    BY <1>1, <1>3, <1>5, <1>6, <1>8, <2>3 DEF QueueInv, OnceInv
  <2>5. \A u, v \in Workers : \A i \in 1..Len(workers'[u].batch), j \in 1..Len(workers'[v].batch) :
          workers'[u].batch[i] = workers'[v].batch[j] => u = v /\ i = j
    <3> SUFFICES ASSUME NEW u \in Workers, NEW v \in Workers,
                        NEW i \in 1..Len(workers'[u].batch), NEW j \in 1..Len(workers'[v].batch),
                        workers'[u].batch[i] = workers'[v].batch[j]
                 PROVE  u = v /\ i = j
      OBVIOUS
    <3>1. CASE u = w /\ v = w
      BY <3>1, <1>5, <1>8
    <3>2. CASE u # w /\ v # w
      <4>1. workers'[u].batch = workers[u].batch /\ workers'[v].batch = workers[v].batch
        BY <3>2, <1>8
      <4>2. i \in 1..Len(workers[u].batch) /\ j \in 1..Len(workers[v].batch)
            /\ workers[u].batch[i] = workers[v].batch[j]
        BY <4>1
      <4>3. \A x, y \in Workers : \A k \in 1..Len(workers[x].batch), l \in 1..Len(workers[y].batch) :
              workers[x].batch[k] = workers[y].batch[l] => x = y /\ k = l
        BY DEF QueueInv, OnceInv
      <4> QED BY <4>2, <4>3
    <3>3. CASE (u = w) # (v = w)
      BY <3>3, <1>5, <1>8, <2>3
    <3> QED BY <3>1, <3>2, <3>3
  <2> QED BY <2>1, <2>2, <2>4, <2>5 DEF OnceInv
<1>10. PermitInv'
  BY <1>8 DEF QueueInv, PermitInv
<1> QED BY <1>7, <1>9, <1>10 DEF QueueInv

\* A task is started for the first entry of the batch, which leaves it.
LEMMA StartTaskKeeps ==
  ASSUME QueueInv, NEW w \in Workers, StartTask(w)
  PROVE  QueueInv'
<1> DEFINE b == workers[w].batch
           e == Head(b)
<1>1. /\ workers' = [workers EXCEPT ![w].batch = Tail(b), ![w].permits = workers[w].permits - 1,
                                    ![w].tasks = workers[w].tasks \cup {e},
                                    ![w].active = workers[w].active + 1]
      /\ executed' = [executed EXCEPT ![e] = executed[e] + 1]
      /\ b # <<>> /\ workers[w].permits > 0 /\ entries' = entries
  BY DEF StartTask
<1>2. /\ workers[w] \in Worker /\ b \in Seq(Tooled)
      /\ workers[w].permits \in Nat /\ workers[w].active \in Nat /\ workers[w].tasks \subseteq Tooled
  BY DEF QueueInv, QueueTypes, Worker
<1>3. /\ e \in Tooled /\ e = b[1] /\ 1 \in 1..Len(b)
      /\ Tail(b) \in Seq(Tooled) /\ Len(Tail(b)) = Len(b) - 1
      /\ \A i \in 1..Len(Tail(b)) : Tail(b)[i] = b[i + 1] /\ i + 1 \in 1..Len(b)
  BY <1>1, <1>2, HeadTailProperties
<1>4. executed[e] = 0 /\ entries[e] \in Workers
  BY <1>3 DEF QueueInv, OnceInv
<1>5. \A v \in Workers : /\ workers'[v].batch = IF v = w THEN Tail(b) ELSE workers[v].batch
                         /\ workers'[v].tasks = IF v = w THEN workers[w].tasks \cup {e} ELSE workers[v].tasks
                         /\ workers'[v].permits = IF v = w THEN workers[w].permits - 1 ELSE workers[v].permits
  BY <1>1 DEF QueueInv, QueueTypes, Worker
<1>6. QueueTypes'
  <2>1. [workers[w] EXCEPT !.batch = Tail(b), !.permits = workers[w].permits - 1,
                           !.tasks = workers[w].tasks \cup {e}, !.active = workers[w].active + 1] \in Worker
    <3>1. workers[w].permits - 1 \in Nat /\ workers[w].active + 1 \in Nat /\ workers[w].tasks \cup {e} \subseteq Tooled
      BY <1>1, <1>2, <1>3
    <3> QED BY <1>2, <1>3, <3>1 DEF Worker
  <2>2. workers' \in [Workers -> Worker]
    BY <1>1, <2>1 DEF QueueInv, QueueTypes
  <2>3. executed' \in [Tooled -> Nat]
    BY <1>1, <1>3, <1>4 DEF QueueInv, QueueTypes
  <2> QED BY <1>1, <2>2, <2>3 DEF QueueInv, QueueTypes
<1>7. OnceInv'
  <2>1. ExecutedAtMostOnce'
    BY <1>1, <1>3, <1>4 DEF QueueInv, OnceInv, ExecutedAtMostOnce, QueueTypes
  <2>2. \A r \in Tooled : entries'[r] \notin Workers => executed'[r] = 0
    BY <1>1, <1>3, <1>4 DEF QueueInv, OnceInv, QueueTypes
  <2>3. \A v \in Workers : workers[v].batch \in Seq(Tooled)
    BY DEF QueueInv, QueueTypes, Worker
  <2>4. \A v \in Workers : \A i \in 1..Len(workers'[v].batch) :
          /\ workers'[v].batch[i] \in Tooled \ {e}
          /\ entries[workers'[v].batch[i]] \in Workers
          /\ executed[workers'[v].batch[i]] = 0
    <3> SUFFICES ASSUME NEW v \in Workers, NEW i \in 1..Len(workers'[v].batch)
                 PROVE  /\ workers'[v].batch[i] \in Tooled \ {e}
                        /\ entries[workers'[v].batch[i]] \in Workers
                        /\ executed[workers'[v].batch[i]] = 0
      OBVIOUS
    <3>1. PICK k \in 1..Len(workers[v].batch) :
            workers'[v].batch[i] = workers[v].batch[k] /\ (v = w => k # 1)
      <4>1. CASE v = w
        <5>1. i \in 1..Len(Tail(b)) /\ workers'[v].batch[i] = Tail(b)[i]
          BY <4>1, <1>5
        <5>2. workers'[v].batch[i] = b[i + 1] /\ i + 1 \in 1..Len(b) /\ i + 1 # 1
          BY <5>1, <1>3
        <5> QED BY <4>1, <5>2
      <4>2. CASE v # w
        BY <4>2, <1>5
      <4> QED BY <4>1, <4>2
    <3>2. workers[v].batch[k] # e
      BY <3>1, <1>3 DEF QueueInv, OnceInv
    <3> QED BY <3>1, <3>2, <2>3 DEF QueueInv, OnceInv
  <2>5. \A v \in Workers : \A i \in 1..Len(workers'[v].batch) :
          /\ entries'[workers'[v].batch[i]] \in Workers
          /\ executed'[workers'[v].batch[i]] = 0
    BY <1>1, <2>4 DEF QueueInv, QueueTypes
  <2>6. \A u, v \in Workers : \A i \in 1..Len(workers'[u].batch), j \in 1..Len(workers'[v].batch) :
          workers'[u].batch[i] = workers'[v].batch[j] => u = v /\ i = j
    <3> SUFFICES ASSUME NEW u \in Workers, NEW v \in Workers,
                        NEW i \in 1..Len(workers'[u].batch), NEW j \in 1..Len(workers'[v].batch),
                        workers'[u].batch[i] = workers'[v].batch[j]
                 PROVE  u = v /\ i = j
      OBVIOUS
    <3> DEFINE k == IF u = w THEN i + 1 ELSE i
               l == IF v = w THEN j + 1 ELSE j
    <3>1. k \in 1..Len(workers[u].batch) /\ workers'[u].batch[i] = workers[u].batch[k]
      BY <1>2, <1>3, <1>5
    <3>2. l \in 1..Len(workers[v].batch) /\ workers'[v].batch[j] = workers[v].batch[l]
      BY <1>2, <1>3, <1>5
    <3>3. i \in Int /\ j \in Int
      BY <1>2, <1>3, <1>5, <2>3
    <3> HIDE DEF k, l
    <3>4. workers[u].batch[k] = workers[v].batch[l]
      BY <3>1, <3>2
    <3>5. u = v /\ k = l
      BY <3>1, <3>2, <3>4 DEF QueueInv, OnceInv
    <3> QED BY <3>3, <3>5 DEF k, l
  <2> QED BY <2>1, <2>2, <2>5, <2>6 DEF OnceInv
<1>8. PermitInv'
  <2>1. IsFiniteSet(workers[w].tasks)
    BY <1>2, PgQueueAssumption, FS_Subset
  <2>2. /\ Cardinality(workers[w].tasks) \in Nat
        /\ Cardinality(workers[w].tasks \cup {e}) \in
             {Cardinality(workers[w].tasks), Cardinality(workers[w].tasks) + 1}
    BY <2>1, FS_AddElement, FS_CardinalityType
  <2>3. ASSUME NEW v \in Workers
        PROVE  Cardinality(workers'[v].tasks) + workers'[v].permits <= Concurrency
    <3>1. CASE v = w
      <4>1. Cardinality(workers'[w].tasks) = Cardinality(workers[w].tasks \cup {e})
        BY <1>5, Zenon
      <4>2. workers'[w].permits = workers[w].permits - 1
        BY <1>5
      <4>3. Cardinality(workers[w].tasks) + workers[w].permits <= Concurrency
        BY DEF QueueInv, PermitInv
      <4> HIDE DEF e
      <4> QED BY <3>1, <4>1, <4>2, <4>3, <1>2, <2>2, PgQueueAssumption
    <3>2. CASE v # w
      BY <3>2, <1>5 DEF QueueInv, PermitInv
    <3> QED BY <3>1, <3>2
  <2> QED BY <2>3 DEF PermitInv
<1> QED BY <1>6, <1>7, <1>8 DEF QueueInv

\* A task ends and gives its permit back.
LEMMA EndTaskKeeps ==
  ASSUME QueueInv, NEW w \in Workers, NEW e \in Tooled, EndTask(w, e)
  PROVE  QueueInv'
<1>1. /\ workers' = [workers EXCEPT ![w].permits = workers[w].permits + 1,
                                    ![w].tasks = workers[w].tasks \ {e}]
      /\ e \in workers[w].tasks /\ entries' = entries /\ executed' = executed
  BY DEF EndTask
<1>2. workers[w] \in Worker /\ workers[w].permits \in Nat /\ workers[w].tasks \subseteq Tooled
  BY DEF QueueInv, QueueTypes, Worker
<1>3. QueueTypes'
  BY <1>1, <1>2 DEF QueueInv, QueueTypes, Worker
<1>4. \A v \in Workers : /\ workers'[v].batch = workers[v].batch
                         /\ workers'[v].tasks = IF v = w THEN workers[w].tasks \ {e} ELSE workers[v].tasks
                         /\ workers'[v].permits = IF v = w THEN workers[w].permits + 1 ELSE workers[v].permits
  BY <1>1 DEF QueueInv, QueueTypes, Worker
<1>5. OnceInv'
  BY <1>1, <1>4, BatchesKept DEF QueueInv
<1>6. PermitInv'
  <2>1. IsFiniteSet(workers[w].tasks)
    BY <1>2, PgQueueAssumption, FS_Subset
  <2>2. /\ Cardinality(workers[w].tasks) \in Nat
        /\ Cardinality(workers[w].tasks \ {e}) = Cardinality(workers[w].tasks) - 1
    BY <1>1, <2>1, FS_RemoveElement, FS_CardinalityType
  <2>3. ASSUME NEW v \in Workers
        PROVE  Cardinality(workers'[v].tasks) + workers'[v].permits <= Concurrency
    <3>1. CASE v = w
      <4>1. Cardinality(workers'[w].tasks) = Cardinality(workers[w].tasks \ {e})
        BY <1>4, Zenon
      <4>2. workers'[w].permits = workers[w].permits + 1
        BY <1>4
      <4>3. Cardinality(workers[w].tasks) + workers[w].permits <= Concurrency
        BY DEF QueueInv, PermitInv
      <4> QED BY <3>1, <4>1, <4>2, <4>3, <1>2, <2>2, PgQueueAssumption
    <3>2. CASE v # w
      BY <3>2, <1>4 DEF QueueInv, PermitInv
    <3> QED BY <3>1, <3>2
  <2> QED BY <2>3 DEF PermitInv
<1> QED BY <1>3, <1>5, <1>6 DEF QueueInv

\* No step of the queue leaves the invariant.
LEMMA QueueStep == QueueInv /\ [PgQueueNext]_pgQueueVars => QueueInv'
<1> SUFFICES ASSUME QueueInv, [PgQueueNext]_pgQueueVars PROVE QueueInv'
  OBVIOUS
<1>1. ASSUME UNCHANGED <<entries, workers, executed>> PROVE QueueInv'
  BY <1>1 DEF QueueInv, QueueTypes, OnceInv, PermitInv, ExecutedAtMostOnce
<1>2. ASSUME NEW r \in PgRuns, PgSubmitRun(r) PROVE QueueInv'
  BY <1>1, <1>2 DEF PgSubmitRun
<1>3. ASSUME NEW r \in Tooled, EnqueueRun(r) PROVE QueueInv'
  <2>1. /\ entries' = [entries EXCEPT ![r] = "new"] /\ entries[r] = "absent"
        /\ workers' = workers /\ executed' = executed
    BY <1>3 DEF EnqueueRun
  <2>2. QueueTypes' /\ PermitInv'
    BY <2>1 DEF QueueInv, QueueTypes, PermitInv
  <2>3. \A w \in Workers : \A i \in 1..Len(workers[w].batch) : workers[w].batch[i] # r
    BY <2>1, PgQueueAssumption DEF QueueInv, OnceInv
  <2>4. \A w \in Workers : workers[w].batch \in Seq(Tooled)
    BY DEF QueueInv, QueueTypes, Worker
  <2>5. OnceInv'
    BY <2>1, <2>3, <2>4, PgQueueAssumption DEF QueueInv, QueueTypes, OnceInv, ExecutedAtMostOnce
  <2> QED BY <2>2, <2>5 DEF QueueInv
<1>4. ASSUME NEW w \in Workers, Consume(w) PROVE QueueInv'
  BY <1>4, ReadGroupKeeps, StartTaskKeeps, EndTaskKeeps DEF Consume
<1>5. ASSUME NEW w \in Workers, SweepStaleWorkers(w) PROVE QueueInv'
  <2>1. PICK o \in Workers : entries' = [r \in Tooled |-> IF entries[r] = o THEN w ELSE entries[r]]
    BY <1>5 DEF SweepStaleWorkers
  <2>2. workers' = workers /\ executed' = executed
    BY <1>5 DEF SweepStaleWorkers
  <2>3. \A r \in Tooled : entries'[r] \in Workers <=> entries[r] \in Workers
    BY <2>1
  <2>5. QueueTypes' /\ PermitInv'
    BY <2>1, <2>2 DEF QueueInv, QueueTypes, PermitInv
  <2>6. OnceInv'
    BY <2>2, <2>3, BatchesKept DEF QueueInv
  <2> QED BY <2>5, <2>6 DEF QueueInv
<1>6. ASSUME NEW w \in Workers, CrashWorker(w) PROVE QueueInv'
  <2>1. /\ workers' = [workers EXCEPT ![w] = NoWorker]
        /\ entries' = entries /\ executed' = executed
    BY <1>6 DEF CrashWorker
  <2>2. /\ NoWorker \in Worker /\ Len(NoWorker.batch) = 0
        /\ Cardinality(NoWorker.tasks) + NoWorker.permits = Concurrency
    BY FreshWorkers
  <2>3. \A v \in Workers : workers'[v] = IF v = w THEN NoWorker ELSE workers[v]
    BY <2>1 DEF QueueInv, QueueTypes
  <2>4. QueueTypes'
    BY <2>1, <2>2 DEF QueueInv, QueueTypes
  <2>5. OnceInv'
    BY <2>1, <2>2, <2>3, BatchesKept DEF QueueInv
  <2>6. PermitInv'
    BY <2>2, <2>3, PgQueueAssumption DEF QueueInv, PermitInv
  <2> QED BY <2>4, <2>5, <2>6 DEF QueueInv
<1>7. ASSUME NEW j \in Joiners, JoinStream(j) \/ Serve(j) \/ LeaveStream(j) PROVE QueueInv'
  BY <1>1, <1>7 DEF JoinStream, Serve, GetConnection, PollStatus, CancelOnDisconnect, LeaveStream
<1>8. CASE UNCHANGED pgQueueVars
  BY <1>1, <1>8 DEF pgQueueVars
<1> QED BY <1>2, <1>3, <1>4, <1>5, <1>6, <1>7, <1>8 DEF PgQueueNext

\* What the runs check of the queue: once each, within the semaphore.
LEMMA QueueSafe == QueueInv => ExecutedAtMostOnce /\ TasksWithinConcurrency
<1> SUFFICES ASSUME QueueInv PROVE TasksWithinConcurrency
  BY DEF QueueInv, OnceInv
<1> SUFFICES ASSUME NEW w \in Workers PROVE Cardinality(workers[w].tasks) <= Concurrency
  BY DEF TasksWithinConcurrency
<1>1. workers[w].permits \in Nat /\ workers[w].tasks \subseteq Tooled
  BY DEF QueueInv, QueueTypes, Worker
<1>2. Cardinality(workers[w].tasks) \in Nat
  BY <1>1, PgQueueAssumption, FS_Subset, FS_CardinalityType
<1> QED BY <1>1, <1>2, PgQueueAssumption DEF QueueInv, PermitInv

\* No entry of the Redis stream is executed twice and no worker has more tasks than its
\* semaphore allows, whatever crashes and whatever the sweep hands on: ReadGroup takes
\* entries that are nobody's, and only ReadGroup fills a batch.
THEOREM EntriesOnce == Spec => []EntriesExecutedOnce
<1>1. Init => QueueInv
  BY QueueStart DEF Init
<1>2. QueueInv /\ [Next]_serviceVars => QueueInv'
  BY QueueStep, StepsOfComponents
<1>3. QueueInv => EntriesExecutedOnce
  BY QueueSafe DEF EntriesExecutedOnce
<1> QED BY <1>1, <1>2, <1>3, PTL DEF Spec

(***************************************************************************)
(* The server over its restarts                                            *)
(***************************************************************************)
\* A worker belongs to a running run of a server that is not down, and what a file says
\* is running while the server is down has been cut off.
LifeInv ==
  /\ ServerTypeOK /\ StrandedOnlyIfCut /\ WrittenOutcomeStays
  /\ \A r \in ServerRuns : worker[r] # "none" => mem[r] = "running" /\ server # "down"
  /\ \A r \in ServerRuns : server = "down" /\ disk[r] = "running" => r \in cut

\* At first the server is down and the file is empty.
LEMMA LifeStart == ServerInit => LifeInv
  BY ServerAssumption DEF ServerInit, LifeInv, ServerTypeOK, StrandedOnlyIfCut, WrittenOutcomeStays,
       Statuses, AllNone

\* No step, crash or start of the server leaves the invariant.
LEMMA LifeStep == LifeInv /\ [ServerNext]_slVars => LifeInv'
<1> SUFFICES ASSUME LifeInv, [ServerNext]_slVars PROVE LifeInv'
  OBVIOUS
<1> USE DEF LifeInv, ServerTypeOK, StrandedOnlyIfCut, WrittenOutcomeStays, Statuses, AllNone
<1>1. CASE StartServer
  BY <1>1, ServerAssumption DEF StartServer
<1>2. CASE PassFails
  BY <1>2 DEF PassFails
<1>3. CASE SignalShutdown
  BY <1>3 DEF SignalShutdown
<1>4. CASE StopServer
  BY <1>4 DEF StopServer
<1>5. CASE Flush
  BY <1>5 DEF Flush
<1>6. CASE CloseServer
  BY <1>6 DEF CloseServer, Unfinished
<1>7. CASE Crash
  BY <1>7 DEF Crash
<1>8. ASSUME NEW r \in ServerRuns, SubmitRun(r) PROVE LifeInv'
  BY <1>8 DEF SubmitRun
<1>9. ASSUME NEW r \in ServerRuns, TakeRun(r) PROVE LifeInv'
  BY <1>9 DEF TakeRun
<1>10. ASSUME NEW r \in ServerRuns, WorkerOn(r) PROVE LifeInv'
  BY <1>10 DEF WorkerOn
<1>11. ASSUME NEW r \in ServerRuns, CancelWorker(r) PROVE LifeInv'
  BY <1>11 DEF CancelWorker
<1>12. CASE UNCHANGED slVars
  BY <1>12 DEF slVars
<1> QED BY <1>1, <1>2, <1>3, <1>4, <1>5, <1>6, <1>7, <1>8, <1>9, <1>10, <1>11, <1>12 DEF ServerNext

(***************************************************************************)
(* The cache                                                               *)
(***************************************************************************)
Entry == [by : {"none", "load", "write"}, began : Nat, at : Nat]
LoadPlaces == {"none", "loading", "lock", "write", "reread", "done"}
Load == [pc : LoadPlaces, epoch : Nat, began : Nat, ok : BOOLEAN]
CallerPlaces == {"new", "decide", "held", "wait", "lock", "write", "raised"}
CallerType == [pc : CallerPlaces, task : {0} \cup Loads, seen : Entry, n : Nat]
Busy(t) == load[t].pc \in {"loading", "lock", "write"}

CacheTypes ==
  /\ cached \in Entry /\ tick \in Nat
  /\ swrState \in [epoch : Nat, task : {0} \cup Loads]
  /\ lockedBy \in {0, 0 - 1} \cup Loads
  /\ load \in [Loads -> Load]
  /\ caller \in [Callers -> CallerType]
  /\ \A c \in Callers : caller[c].pc = "wait" => caller[c].task \in Loads
  /\ writes \in [begun : Nat, stored : Nat]

\* The epoch has grown since a load began by the writes that have begun since.
EpochInv ==
  \A t \in Loads : Busy(t) =>
    /\ swrState.task = t
    /\ swrState.epoch + load[t].began = load[t].epoch + writes.begun

\* The lock is with the load or the caller that writes, and no write begins while a load
\* that may still be stored has it.
LockInv ==
  /\ \A t \in Loads : load[t].pc = "write" => lockedBy = t /\ load[t].began = writes.begun
  /\ \A c \in Callers : caller[c].pc = "write" => lockedBy = 0 - 1 /\ caller[c].n <= writes.begun
  /\ \A c, d \in Callers : caller[c].pc = "write" /\ caller[d].pc = "write" => c = d
  /\ writes.stored <= writes.begun

CacheInv == CacheTypes /\ EpochInv /\ LockInv /\ WriteOutlivesOlderLoad

\* The lock knows a load from a caller (-1) and from nobody (0).
LEMMA LoadNumbers == \A t \in Loads : t \in Nat /\ t # 0 /\ t # 0 - 1
  BY SwrAssumption DEF Loads

\* A caller that is done with one call, and what it may be on to.
LEMMA NextCall ==
  ASSUME NEW place \in CallerPlaces, NEW k \in {0} \cup Loads, NEW e \in Entry
  PROVE  /\ [NoCaller EXCEPT !.pc = place] \in CallerType
         /\ [NoCaller EXCEPT !.pc = place].pc = place
         /\ [NoCaller EXCEPT !.pc = place, !.task = k] \in CallerType
         /\ [NoCaller EXCEPT !.pc = place, !.task = k].pc = place
         /\ [NoCaller EXCEPT !.pc = place, !.task = k].task = k
         /\ [NoCaller EXCEPT !.pc = place, !.seen = e] \in CallerType
         /\ [NoCaller EXCEPT !.pc = place, !.seen = e].pc = place
<1>1. NoCaller = [pc |-> "new", task |-> 0, seen |-> NoEntry, n |-> 0] /\ NoEntry \in Entry
  BY DEF NoCaller, NoEntry, Entry
<1> QED BY <1>1 DEF CallerType

\* A load moves on, and remembers when it began.
LEMMA LoadMoves ==
  ASSUME CacheTypes, NEW t \in Loads, NEW place \in LoadPlaces,
         \/ load' = [load EXCEPT ![t].pc = place]
         \/ load' = [load EXCEPT ![t].pc = place, ![t].ok = FALSE]
  PROVE  /\ load' \in [Loads -> Load]
         /\ load'[t].pc = place
         /\ \A u \in Loads : u # t => load'[u].pc = load[u].pc
         /\ \A u \in Loads : load'[u].epoch = load[u].epoch /\ load'[u].began = load[u].began
<1>1. load \in [Loads -> Load] /\ load[t] \in Load
  BY DEF CacheTypes
<1>2. CASE load' = [load EXCEPT ![t].pc = place]
  <2>1. [load[t] EXCEPT !.pc = place] \in Load
    BY <1>1 DEF Load
  <2> QED BY <1>1, <1>2, <2>1 DEF Load
<1>3. CASE load' = [load EXCEPT ![t].pc = place, ![t].ok = FALSE]
  <2>1. [load[t] EXCEPT !.pc = place, !.ok = FALSE] \in Load
    BY <1>1 DEF Load
  <2> QED BY <1>1, <1>3, <2>1 DEF Load
<1> QED BY <1>2, <1>3

\* At first the key has no entry and nobody has called.
LEMMA CacheStart == SwrInit => CacheInv
<1> SUFFICES ASSUME SwrInit PROVE CacheInv
  OBVIOUS
<1>1. NoEntry \in Entry /\ NoEntry.by = "none" /\ NoCaller \in CallerType /\ NoCaller.pc = "new"
  BY DEF NoEntry, NoCaller, Entry, CallerType, CallerPlaces
<1>2. CacheTypes
  BY <1>1 DEF SwrInit, CacheTypes, Load, LoadPlaces
<1>3. EpochInv /\ LockInv /\ WriteOutlivesOlderLoad
  BY <1>1 DEF SwrInit, EpochInv, LockInv, WriteOutlivesOlderLoad, Busy
<1> QED BY <1>2, <1>3 DEF CacheInv

\* Cleaning up the state of the key does not touch one with a load.
LEMMA CleanedKeeps ==
  ASSUME NEW state \in [epoch : Nat, task : {0} \cup Loads], NEW calls, NEW loads
  PROVE  /\ Cleaned(state, calls, loads) \in [epoch : Nat, task : {0} \cup Loads]
         /\ state.task # 0 => Cleaned(state, calls, loads) = state
         /\ Cleaned(state, calls, loads).task = state.task
  BY DEF Cleaned

\* A load is started only when none is busy, with the epoch and the writes of the moment.
LEMMA EnsureLoadKeeps ==
  ASSUME CacheInv, NEW c \in Callers, NEW then \in {"held", "wait"}, EnsureLoad(c, then),
         caller[c].pc \notin {"lock", "write"},
         UNCHANGED <<cached, lockedBy, writes, tick>>
  PROVE  CacheInv'
<1> USE DEF CacheInv
<1>1. PICK t \in Loads :
        /\ swrState' = [swrState EXCEPT !.task = t]
        /\ caller' = [caller EXCEPT ![c] = [NoCaller EXCEPT !.pc = then, !.task = IF then = "wait" THEN t ELSE 0]]
        /\ \/ t = swrState.task /\ load' = load
           \/ /\ swrState.task = 0 \/ load[swrState.task].pc = "done"
              /\ load[t].pc = "none"
              /\ load' = [load EXCEPT ![t] = [pc |-> "loading", epoch |-> swrState.epoch,
                                             began |-> writes.begun, ok |-> TRUE]]
  BY DEF EnsureLoad
<1>2. CacheTypes'
  <2>1. /\ [NoCaller EXCEPT !.pc = then, !.task = IF then = "wait" THEN t ELSE 0] \in CallerType
        /\ [NoCaller EXCEPT !.pc = then, !.task = IF then = "wait" THEN t ELSE 0].pc = then
        /\ [NoCaller EXCEPT !.pc = then, !.task = IF then = "wait" THEN t ELSE 0].task = IF then = "wait" THEN t ELSE 0
    BY NextCall DEF CallerPlaces, CacheTypes, NoCaller
  <2>2. /\ caller' \in [Callers -> CallerType]
        /\ \A d \in Callers : caller'[d].pc = "wait" => caller'[d].task \in Loads
    BY <1>1, <2>1 DEF CacheTypes
  <2>3. load' \in [Loads -> Load]
    <3>1. [pc |-> "loading", epoch |-> swrState.epoch, began |-> writes.begun, ok |-> TRUE] \in Load
      BY DEF CacheTypes, Load, LoadPlaces
    <3> QED BY <1>1, <3>1 DEF CacheTypes
  <2> QED BY <1>1, <2>2, <2>3 DEF CacheTypes
<1>3. swrState'.task = t /\ swrState'.epoch = swrState.epoch
  BY <1>1 DEF CacheTypes
<1>4. EpochInv'
  <2>1. CASE t = swrState.task /\ load' = load
    BY <1>3, <2>1 DEF EpochInv, Busy
  <2>2. CASE t # swrState.task \/ load' # load
    <3>1. \A u \in Loads : ~ Busy(u)
      BY <1>1, <2>2, LoadNumbers DEF EpochInv, Busy
    <3>2. \A u \in Loads : load'[u] = IF u = t THEN [pc |-> "loading", epoch |-> swrState.epoch,
                                                    began |-> writes.begun, ok |-> TRUE] ELSE load[u]
      BY <1>1, <2>2 DEF CacheTypes
    <3> QED BY <1>3, <3>1, <3>2 DEF EpochInv, Busy, CacheTypes
  <2> QED BY <2>1, <2>2
<1>5. LockInv' /\ WriteOutlivesOlderLoad'
  BY <1>1 DEF LockInv, WriteOutlivesOlderLoad, CacheTypes, NoCaller
<1> QED BY <1>2, <1>4, <1>5

\* A load that neither takes nor holds the lock goes on.
LEMMA LoadGoesOn ==
  ASSUME CacheInv, NEW t \in Loads, NEW place \in {"lock", "done"},
         load[t].pc = "loading" \/ place = "done",
         \/ load' = [load EXCEPT ![t].pc = place]
         \/ load' = [load EXCEPT ![t].pc = place, ![t].ok = FALSE],
         UNCHANGED <<cached, swrState, lockedBy, caller, writes, tick>>
  PROVE  CacheInv'
<1>1. /\ load' \in [Loads -> Load]
      /\ load'[t].pc = place
      /\ \A u \in Loads : u # t => load'[u].pc = load[u].pc
      /\ \A u \in Loads : load'[u].epoch = load[u].epoch /\ load'[u].began = load[u].began
  BY LoadMoves DEF CacheInv, LoadPlaces
<1>2. CacheTypes'
  BY <1>1 DEF CacheInv, CacheTypes
<1>3. EpochInv'
  BY <1>1 DEF CacheInv, EpochInv, Busy
<1>4. LockInv'
  BY <1>1 DEF CacheInv, LockInv
<1>5. WriteOutlivesOlderLoad'
  BY DEF CacheInv, WriteOutlivesOlderLoad
<1> QED BY <1>2, <1>3, <1>4, <1>5 DEF CacheInv

\* No step of the cache leaves the invariant.
LEMMA CacheStep == CacheInv /\ [SwrNext]_swrVars => CacheInv'
<1> SUFFICES ASSUME CacheInv, [SwrNext]_swrVars PROVE CacheInv'
  OBVIOUS
<1> USE DEF CacheInv
<1>1. ASSUME NEW c \in Callers, Lookup(c) PROVE CacheInv'
  BY <1>1 DEF Lookup, CacheTypes, EpochInv, LockInv, WriteOutlivesOlderLoad, Busy, NoCaller, NoEntry, Entry, CallerType, CallerPlaces, Load
<1>2. ASSUME NEW c \in Callers, Decide(c) PROVE CacheInv'
  <2>1. Status(caller[c].seen) \in {"miss", "fresh", "stale", "expired"}
    BY DEF Status
  <2>2. \/ /\ caller' = [caller EXCEPT ![c] = [NoCaller EXCEPT !.pc = "held"]]
           /\ UNCHANGED <<load, swrState>>
        \/ EnsureLoad(c, "held") \/ EnsureLoad(c, "wait")
    BY <1>2, <2>1 DEF Decide
  <2>3. caller[c].pc = "decide" /\ UNCHANGED <<cached, lockedBy, writes, tick>>
    BY <1>2 DEF Decide
  <2>4. CASE caller' = [caller EXCEPT ![c] = [NoCaller EXCEPT !.pc = "held"]] /\ UNCHANGED <<load, swrState>>
    BY <2>3, <2>4 DEF CacheTypes, EpochInv, LockInv, WriteOutlivesOlderLoad, Busy, NoCaller, NoEntry, Entry, CallerType, CallerPlaces, Load
  <2> QED BY <2>2, <2>3, <2>4, EnsureLoadKeeps
<1>3. ASSUME NEW c \in Callers, Resume(c) PROVE CacheInv'
  BY <1>3 DEF Resume, CacheTypes, EpochInv, LockInv, WriteOutlivesOlderLoad, Busy, NoCaller, NoEntry, Entry, CallerType, CallerPlaces, Load
<1>4. ASSUME NEW c \in Callers, Revalidate(c) PROVE CacheInv'
  BY <1>4, EnsureLoadKeeps DEF Revalidate
<1>5. ASSUME NEW c \in Callers, Mutate(c) PROVE CacheInv'
  BY <1>5 DEF Mutate, CacheTypes, CallerType, CallerPlaces, EpochInv, LockInv, WriteOutlivesOlderLoad, Busy
<1>6. ASSUME NEW c \in Callers, LockWrite(c) PROVE CacheInv'
  <2>1. /\ caller' = [caller EXCEPT ![c].pc = "write", ![c].n = writes.begun + 1]
        /\ writes' = [writes EXCEPT !.begun = writes.begun + 1]
        /\ swrState' = [swrState EXCEPT !.epoch = swrState.epoch + 1]
        /\ lockedBy = 0 /\ lockedBy' = 0 - 1 /\ UNCHANGED <<cached, load, tick>>
    BY <1>6 DEF LockWrite
  <2>2. CacheTypes'
    <3>1. writes.begun + 1 \in Nat /\ swrState.epoch + 1 \in Nat /\ caller[c] \in CallerType
      BY DEF CacheTypes
    <3>2. [caller[c] EXCEPT !.pc = "write", !.n = writes.begun + 1] \in CallerType
      BY <3>1 DEF CallerType, CallerPlaces
    <3>3. caller' = [caller EXCEPT ![c] = [caller[c] EXCEPT !.pc = "write", !.n = writes.begun + 1]]
      BY <2>1
    <3>4. caller' \in [Callers -> CallerType] /\ \A d \in Callers : caller'[d].pc = "wait" => caller'[d].task \in Loads
      BY <3>2, <3>3 DEF CacheTypes
    <3> QED BY <2>1, <3>1, <3>4 DEF CacheTypes
  <2>3. EpochInv'
    <3>1. /\ swrState'.epoch = swrState.epoch + 1 /\ swrState'.task = swrState.task
          /\ writes'.begun = writes.begun + 1 /\ swrState.epoch \in Nat /\ writes.begun \in Nat
      BY <2>1 DEF CacheTypes
    <3>2. \A t \in Loads : load[t].epoch \in Nat /\ load[t].began \in Nat
      BY DEF CacheTypes, Load
    <3> QED BY <2>1, <3>1, <3>2 DEF EpochInv, Busy
  <2>4. \A t \in Loads : load[t].pc # "write"
    BY <2>1, LoadNumbers DEF LockInv
  <2>5. \A d \in Callers : caller[d].pc # "write"
    BY <2>1 DEF LockInv
  <2>6. LockInv' /\ WriteOutlivesOlderLoad'
    BY <2>1, <2>4, <2>5 DEF CacheTypes, LockInv, WriteOutlivesOlderLoad
  <2> QED BY <2>2, <2>3, <2>6
<1>7. ASSUME NEW c \in Callers, Write(c) \/ CancelWriter(c) PROVE CacheInv'
  <2>1. PICK pc \in {"held", "raised"} : caller' = [caller EXCEPT ![c] = [NoCaller EXCEPT !.pc = pc]]
    BY <1>7 DEF Write, CancelWriter
  <2>2. swrState' = Cleaned(swrState, caller', load) /\ load' = load /\ tick' = tick
    BY <1>7 DEF Write, CancelWriter
  <2>3. lockedBy' = IF caller[c].pc = "write" THEN 0 ELSE lockedBy
    BY <1>7 DEF Write, CancelWriter
  <2>4. \/ UNCHANGED <<cached, writes>>
        \/ /\ caller[c].pc = "write" /\ cached' = [by |-> "write", began |-> 0, at |-> tick]
           /\ writes' = [writes EXCEPT !.stored = caller[c].n]
    BY <1>7 DEF Write, CancelWriter
  <2>5. swrState' \in [epoch : Nat, task : {0} \cup Loads] /\ (swrState.task # 0 => swrState' = swrState)
    BY <2>2, CleanedKeeps DEF CacheTypes
  <2>6. CacheTypes'
    BY <2>1, <2>2, <2>3, <2>4, <2>5 DEF CacheTypes, NoCaller, NoEntry, Entry, CallerType, CallerPlaces, Load
  <2>7. writes'.begun = writes.begun
    BY <2>4 DEF CacheTypes
  <2>8. EpochInv'
    BY <2>2, <2>5, <2>7, LoadNumbers DEF EpochInv, Busy
  <2>9. caller[c].pc = "write" => \A t \in Loads : load[t].pc # "write"
    BY LoadNumbers DEF LockInv
  <2>10. \A d \in Callers : caller'[d].pc = "write" => d # c /\ caller'[d] = caller[d] /\ caller[c].pc # "write"
    BY <2>1 DEF LockInv, CacheTypes, NoCaller
  <2>11. writes'.stored <= writes'.begun
    BY <2>4 DEF LockInv, CacheTypes
  <2>12. LockInv'
    BY <2>2, <2>3, <2>7, <2>9, <2>10, <2>11 DEF LockInv
  <2>13. WriteOutlivesOlderLoad'
    BY <2>4 DEF WriteOutlivesOlderLoad
  <2> QED BY <2>6, <2>8, <2>12, <2>13
<1>8. ASSUME NEW c \in Callers, CancelWaiter(c) PROVE CacheInv'
  <2> DEFINE t == caller[c].task
  <2>1. /\ t \in Loads /\ load' = [load EXCEPT ![t].pc = "done", ![t].ok = FALSE]
        /\ lockedBy' = IF lockedBy = t THEN 0 ELSE lockedBy
        /\ \/ UNCHANGED cached
           \/ load[t].pc = "write" /\ cached' = [by |-> "load", began |-> load[t].began, at |-> tick]
        /\ caller' = [caller EXCEPT ![c] = [NoCaller EXCEPT !.pc = "raised"]]
        /\ UNCHANGED <<swrState, writes, tick>>
    BY <1>8 DEF CancelWaiter, CacheTypes
  <2> HIDE DEF t
  <2>2. CacheTypes'
    <3>1. caller' \in [Callers -> CallerType] /\ \A d \in Callers : caller'[d].pc = "wait" => caller'[d].task \in Loads
      <4>1. [NoCaller EXCEPT !.pc = "raised"] \in CallerType /\ [NoCaller EXCEPT !.pc = "raised"].pc = "raised"
        BY NextCall DEF CallerPlaces, CacheTypes
      <4> QED BY <2>1, <4>1 DEF CacheTypes
    <3>2. load' \in [Loads -> Load]
      BY <2>1, LoadMoves DEF LoadPlaces
    <3>3. cached' \in Entry
      <4>1. load[t].began \in Nat /\ tick \in Nat /\ cached \in Entry
        BY <2>1 DEF CacheTypes, Load
      <4> QED BY <2>1, <4>1 DEF Entry
    <3> QED BY <2>1, <3>1, <3>2, <3>3 DEF CacheTypes
  <2>3. /\ load'[t].pc = "done"
        /\ \A u \in Loads : u # t => load'[u].pc = load[u].pc
        /\ \A u \in Loads : load'[u].epoch = load[u].epoch /\ load'[u].began = load[u].began
    BY <2>1, LoadMoves DEF LoadPlaces
  <2>4. EpochInv'
    BY <2>1, <2>3 DEF CacheTypes, EpochInv, Busy
  <2>5. LockInv'
    BY <2>1, <2>3, LoadNumbers DEF CacheTypes, LockInv, NoCaller
  <2>6. WriteOutlivesOlderLoad'
    BY <2>1 DEF CacheTypes, LockInv, WriteOutlivesOlderLoad
  <2> QED BY <2>2, <2>4, <2>5, <2>6
<1>9. ASSUME NEW t \in Loads, LoadStep(t) PROVE CacheInv'
  <2>1. CASE LoaderReturns(t)
    <3>1. /\ load[t].pc = "loading" /\ load' = [load EXCEPT ![t].pc = "lock"]
          /\ UNCHANGED <<cached, swrState, lockedBy, caller, writes, tick>>
      BY <2>1 DEF LoaderReturns
    <3> QED BY <3>1, LoadGoesOn
  <2>2. CASE LoaderFails(t)
    <3>1. /\ load[t].pc = "loading" /\ load' = [load EXCEPT ![t].pc = "done", ![t].ok = FALSE]
          /\ UNCHANGED <<cached, swrState, lockedBy, caller, writes, tick>>
      BY <2>2 DEF LoaderFails
    <3> QED BY <3>1, LoadGoesOn
  <2>3. CASE Reread(t)
    <3>1. /\ load[t].pc = "reread" /\ load' = [load EXCEPT ![t].pc = "done"]
          /\ UNCHANGED <<cached, swrState, lockedBy, caller, writes, tick>>
      BY <2>3 DEF Reread
    <3> QED BY <3>1, LoadGoesOn
  <2>4. CASE StoreLoaded(t)
    <3>1. /\ load[t].pc = "lock" /\ lockedBy = 0 /\ UNCHANGED <<cached, caller, writes, tick>>
          /\ \/ load' = [load EXCEPT ![t].pc = "reread"] /\ lockedBy' = 0
             \/ /\ load[t].epoch = swrState.epoch
                /\ load' = [load EXCEPT ![t].pc = "write"] /\ lockedBy' = t
          /\ swrState' = Cleaned(swrState, caller, load')
      BY <2>4 DEF StoreLoaded
    <3>2. swrState.task = t /\ swrState' = swrState
      BY <3>1, LoadNumbers, CleanedKeeps DEF EpochInv, Busy, CacheTypes
    <3>3. CacheTypes' /\ EpochInv' /\ WriteOutlivesOlderLoad'
      <4>1. PICK place \in {"reread", "write"} :
              load' = [load EXCEPT ![t].pc = place] /\ lockedBy' \in {0, t}
        BY <3>1
      <4>2. /\ load' \in [Loads -> Load]
            /\ load'[t].pc = place
            /\ \A u \in Loads : u # t => load'[u].pc = load[u].pc
            /\ \A u \in Loads : load'[u].epoch = load[u].epoch /\ load'[u].began = load[u].began
        BY <4>1, LoadMoves DEF LoadPlaces
      <4>3. CacheTypes'
        BY <3>1, <3>2, <4>1, <4>2 DEF CacheTypes
      <4>4. EpochInv'
        BY <3>1, <3>2, <4>2 DEF EpochInv, Busy
      <4> QED BY <3>1, <4>3, <4>4 DEF WriteOutlivesOlderLoad
    <3>4. load[t].epoch = swrState.epoch => load[t].began = writes.begun
      <4>1. swrState.epoch + load[t].began = load[t].epoch + writes.begun
        BY <3>1 DEF EpochInv, Busy
      <4>2. swrState.epoch \in Nat /\ load[t].began \in Nat /\ writes.begun \in Nat
        BY DEF CacheTypes, Load
      <4> QED BY <4>1, <4>2
    <3>5. LockInv'
      <4>1. \A u \in Loads : load[u].pc # "write"
        BY <3>1, LoadNumbers DEF LockInv
      <4>2. \A c \in Callers : caller[c].pc # "write"
        BY <3>1 DEF LockInv
      <4>3. \A u \in Loads : load'[u].pc = "write" => u = t /\ lockedBy' = t /\ load'[t].began = writes.begun
        BY <3>1, <3>4, <4>1, LoadMoves DEF LoadPlaces
      <4> QED BY <3>1, <4>2, <4>3 DEF LockInv
    <3> QED BY <3>3, <3>5
  <2>5. CASE LoadWrites(t)
    <3>1. /\ load[t].pc = "write" /\ cached' = [by |-> "load", began |-> load[t].began, at |-> tick]
          /\ lockedBy' = 0 /\ load' = [load EXCEPT ![t].pc = "done"]
          /\ swrState' = Cleaned(swrState, caller, load') /\ UNCHANGED <<caller, writes, tick>>
      BY <2>5 DEF LoadWrites
    <3>2. swrState.task = t /\ swrState' = swrState
      BY <3>1, LoadNumbers, CleanedKeeps DEF EpochInv, Busy, CacheTypes
    <3>3. CacheTypes' /\ EpochInv'
      <4>1. cached' \in Entry
        <5>1. load[t].began \in Nat /\ tick \in Nat
          BY DEF CacheTypes, Load
        <5> QED BY <3>1, <5>1 DEF Entry
      <4> QED BY <3>1, <3>2, <4>1, LoadMoves DEF LoadPlaces, CacheTypes, EpochInv, Busy
    <3>4. lockedBy = t /\ load[t].began = writes.begun
      BY <3>1 DEF LockInv
    <3>5. LockInv' /\ WriteOutlivesOlderLoad'
      BY <3>1, <3>4, LoadNumbers, LoadMoves DEF LoadPlaces, CacheTypes, LockInv, WriteOutlivesOlderLoad
    <3> QED BY <3>3, <3>5
  <2>6. CASE LoadCallback(t)
    <3>1. /\ load[t].pc = "done" /\ swrState.task = t
          /\ swrState' = Cleaned([swrState EXCEPT !.task = 0], caller, load)
          /\ UNCHANGED <<cached, lockedBy, load, caller, writes, tick>>
      BY <2>6 DEF LoadCallback
    <3>2. swrState' \in [epoch : Nat, task : {0} \cup Loads]
      BY <3>1, CleanedKeeps DEF CacheTypes
    <3>3. \A u \in Loads : ~ Busy(u)
      BY <3>1 DEF EpochInv, Busy
    <3>4. EpochInv' /\ CacheTypes'
      BY <3>1, <3>2, <3>3 DEF EpochInv, Busy, CacheTypes
    <3>5. LockInv' /\ WriteOutlivesOlderLoad'
      BY <3>1 DEF LockInv, WriteOutlivesOlderLoad
    <3> QED BY <3>4, <3>5
  <2> QED BY <1>9, <2>1, <2>2, <2>3, <2>4, <2>5, <2>6 DEF LoadStep
<1>10. CASE Evict \/ Tick
  BY <1>10 DEF Evict, Tick, CacheTypes, EpochInv, LockInv, WriteOutlivesOlderLoad, Busy, NoEntry, Entry
<1>11. CASE UNCHANGED swrVars
  BY <1>11 DEF swrVars, CacheTypes, EpochInv, LockInv, WriteOutlivesOlderLoad, Busy
<1> QED BY <1>1, <1>2, <1>3, <1>4, <1>5, <1>6, <1>7, <1>8, <1>9, <1>10, <1>11 DEF SwrNext

\* A restart loses no run that it could have kept and repeats no success that was written,
\* and a value written to the cache is not replaced by an older one: for all runs, starts,
\* callers, loads and time windows.
THEOREM WritesStay == Spec => []WrittenStays
<1>1. Init => LifeInv /\ CacheInv
  BY LifeStart, CacheStart DEF Init
<1>2. LifeInv /\ CacheInv /\ [Next]_serviceVars => LifeInv' /\ CacheInv'
  BY LifeStep, CacheStep, StepsOfComponents
<1>3. LifeInv /\ CacheInv => WrittenStays
  BY DEF LifeInv, CacheInv, WrittenStays
<1> QED BY <1>1, <1>2, <1>3, PTL DEF Spec

(***************************************************************************)
(* A run behind gRPC                                                       *)
(***************************************************************************)
Stations == {"idle", "enter", "exec", "publish", "tellError", "drain", "settle", "markDone", "teardown"}
Signals == {"none", "retry", "interrupt", "rollback"}
Exceptions == Signals \cup {"error", "timeout", "cancelled"}
\* The names of events: a mode, or one that is written out in the code.
Names == STRING \cup {"messages", "messages/metadata", "messages/partial", "updates", "values"}
Events == SUBSET (Nat \X Names)
Proc == [pc : Stations, attempt : Nat, at : Nat, signal : Signals, exc : Exceptions,
         listening : BOOLEAN, queue : Seq(Events)]

CoreRecord == [st : Final \cup {"pending", "running"}, attempt : Nat, beat : SUBSET Processes,
               cancel : {"none", "interrupt", "rollback"}, ended : BOOLEAN]

\* A process is not further than the checkpoints; what it publishes has gone before it
\* settles, inline at once; without an exception it settles when the graph is through.
ProcOK(p, saved, short) ==
  /\ p.at <= saved
  /\ Len(p.queue) <= QueueSize
  /\ p.pc \in {"idle", "enter", "settle", "markDone", "teardown"} => p.queue = <<>>
  /\ ~ job.async /\ p.pc # "publish" => p.queue = <<>>
  /\ p.pc = "publish" => ~ job.async /\ Len(p.queue) = 1
  /\ p.pc = "tellError" => p.exc # "none"
  /\ p.pc \in {"drain", "settle"} /\ p.exc = "none" => saved = Len(job.plan) \/ short

AttemptInv ==
  /\ job \in Jobs
  /\ core \in CoreRecord
  /\ ckpt \in 0..Len(job.plan) /\ faults \in 0..MaxFaults /\ cutShort \in BOOLEAN
  /\ cutShort => faults # 0
  /\ proc \in [Processes -> Proc]
  /\ \A w \in Processes : ProcOK(proc[w], ckpt, cutShort)
  /\ SuccessIsComplete

\* Without a fault the run has one process at most, which keeps its heartbeat until it
\* has settled the run, and is not asked to try again.
Working == {"exec", "publish", "tellError", "drain", "settle"}
OneAttempt ==
  /\ \A v, w \in Processes : proc[v].pc # "idle" /\ proc[w].pc # "idle" => v = w
  /\ \A w \in Processes : /\ proc[w].signal # "retry"
                          /\ proc[w].exc \in {"none", "error", "interrupt", "rollback"}
  /\ core.st = "pending" => \A w \in Processes : proc[w].pc = "idle"
  /\ core.st = "running" => \E w \in Processes : \/ proc[w].pc = "enter"
                                                 \/ proc[w].pc \in Working /\ w \in core.beat
  /\ core.st = "success" => \A w \in Processes : proc[w].pc \in {"idle", "markDone", "teardown"}

\* A pause that is checkpointed has been told, or is about to be.
Told(n, events) == \E e \in {"updates", "values"} : <<n, e>> \in events
PausesTold ==
  \A n \in 1..ckpt : job.plan[n] = "pause" =>
    \/ Told(n, heard)
    \/ \E w \in Processes : \E i \in 1..Len(proc[w].queue) : Told(n, proc[w].queue[i])

GrpcInv == AttemptInv /\ (faults = 0 => OneAttempt /\ PausesTold)

\* One process goes to q; the run at the Core server, the checkpoints and the faults
\* may move with it.
Becomes(w, q) ==
  /\ proc' = [proc EXCEPT ![w] = q] /\ q \in Proc /\ ProcOK(q, ckpt', cutShort')
  /\ job' = job /\ core' \in CoreRecord /\ faults' \in 0..MaxFaults
  /\ ckpt' \in 0..Len(job.plan) /\ ckpt <= ckpt'
  /\ cutShort' \in BOOLEAN /\ (cutShort => cutShort') /\ (cutShort' => faults' # 0)
  /\ core'.st = "success" => core.st = "success" \/ ckpt = Len(job.plan) \/ cutShort

\* A step of one process keeps what holds of every attempt.
LEMMA ProcessStep ==
  ASSUME AttemptInv, NEW w \in Processes, NEW q, Becomes(w, q)
  PROVE  /\ AttemptInv'
         /\ \A v \in Processes : proc'[v] = IF v = w THEN q ELSE proc[v]
<1> USE DEF Becomes
<1>1. \A v \in Processes : proc'[v] = IF v = w THEN q ELSE proc[v]
  BY DEF AttemptInv
<1>2. proc' \in [Processes -> Proc] /\ Len(job.plan) \in Nat /\ ckpt \in Nat /\ ckpt' \in Nat
  BY GrpcRunAssumption DEF AttemptInv
<1>3. ASSUME NEW v \in Processes PROVE ProcOK(proc[v], ckpt', cutShort')
  <2>1. proc[v].at \in Nat /\ ProcOK(proc[v], ckpt, cutShort)
    BY DEF AttemptInv, Proc
  <2>2. ckpt = Len(job.plan) => ckpt' = Len(job.plan)
    BY <1>2
  <2> QED BY <1>2, <2>1, <2>2 DEF ProcOK
<1>4. \A v \in Processes : ProcOK(proc'[v], ckpt', cutShort')
  BY <1>1, <1>3
<1>5. SuccessIsComplete'
  BY <1>2 DEF AttemptInv, SuccessIsComplete
<1>6. job' \in Jobs /\ core' \in CoreRecord
  BY DEF AttemptInv
<1> QED BY <1>1, <1>2, <1>4, <1>5, <1>6 DEF AttemptInv, ProcOK

\* Without faults: a process that goes on with its attempt.
LEMMA AttemptGoesOn ==
  ASSUME OneAttempt, NEW w \in Processes, NEW q, core' = core,
         \A v \in Processes : proc'[v] = IF v = w THEN q ELSE proc[v],
         q.pc = proc[w].pc \/ (proc[w].pc \in Working /\ q.pc \in Working),
         q.signal # "retry", q.exc \in {"none", "error", "interrupt", "rollback"}
  PROVE  OneAttempt'
<1>1. \A v \in Processes : proc'[v].pc = "idle" <=> proc[v].pc = "idle"
  BY DEF Working
<1>2. \A u, v \in Processes : proc'[u].pc # "idle" /\ proc'[v].pc # "idle" => u = v
  BY <1>1 DEF OneAttempt
<1>3. core.st = "running" => \E v \in Processes : \/ proc'[v].pc = "enter"
                                                  \/ proc'[v].pc \in Working /\ v \in core.beat
  BY DEF OneAttempt, Working
<1>4. core.st = "success" => \A v \in Processes : proc'[v].pc \in {"idle", "markDone", "teardown"}
  BY DEF OneAttempt, Working
<1> QED BY <1>1, <1>2, <1>3, <1>4 DEF OneAttempt

\* What is heard stays heard, and what is to be published is published or kept.
LEMMA PausesStayTold ==
  ASSUME PausesTold, NEW w \in Processes, NEW q, job' = job, ckpt' = ckpt, heard \subseteq heard',
         \A v \in Processes : proc'[v] = IF v = w THEN q ELSE proc[v],
         \A i \in 1..Len(proc[w].queue) : \/ proc[w].queue[i] \subseteq heard'
                                           \/ \E j \in 1..Len(q.queue) : q.queue[j] = proc[w].queue[i]
  PROVE  PausesTold'
<1> SUFFICES ASSUME NEW n \in 1..ckpt, job.plan[n] = "pause", ~ Told(n, heard')
             PROVE  \E v \in Processes : \E i \in 1..Len(proc'[v].queue) : Told(n, proc'[v].queue[i])
  BY DEF PausesTold
<1>1. ~ Told(n, heard)
  BY DEF Told
<1>2. PICK v \in Processes : \E i \in 1..Len(proc[v].queue) : Told(n, proc[v].queue[i])
  BY <1>1 DEF PausesTold
<1>3. PICK i \in 1..Len(proc[v].queue) : Told(n, proc[v].queue[i])
  BY <1>2
<1>4. CASE v = w
  <2>1. ~ (proc[w].queue[i] \subseteq heard')
    BY <1>3, <1>4 DEF Told
  <2> QED BY <1>3, <1>4, <2>1
<1>5. CASE v # w
  BY <1>3, <1>5
<1> QED BY <1>4, <1>5

\* What AttemptInv says of one process.
LEMMA ProcessHas ==
  ASSUME AttemptInv, NEW w \in Processes
  PROVE  /\ proc[w] \in Proc /\ ProcOK(proc[w], ckpt, cutShort)
         /\ Len(job.plan) \in Nat /\ ckpt \in Nat /\ ckpt <= Len(job.plan)
         /\ proc[w].at \in Nat /\ proc[w].queue \in Seq(Events) /\ proc[w].attempt \in Nat
         /\ faults \in Nat /\ MaxFaults \in Nat
         /\ job \in Jobs /\ core \in CoreRecord /\ faults \in 0..MaxFaults /\ ckpt \in 0..Len(job.plan)
         /\ cutShort \in BOOLEAN /\ (cutShort => faults # 0)
BY GrpcRunAssumption DEF AttemptInv, Proc

\* The run is handed out.
LEMMA NextRunKeeps ==
  ASSUME GrpcInv, NEW w \in Processes, NextRun(w)
  PROVE  GrpcInv'
<1> DEFINE n == core.attempt + 1
           q == [NoProc EXCEPT !.pc = "enter", !.attempt = n]
<1>1. /\ proc' = [proc EXCEPT ![w] = q] /\ proc[w].pc = "idle" /\ core.st = "pending"
      /\ core' = [core EXCEPT !.st = "running", !.attempt = n]
      /\ UNCHANGED <<job, ckpt, heard, faults, cutShort>>
  BY DEF NextRun
<1>2. AttemptInv /\ core \in CoreRecord /\ n \in Nat
  BY DEF GrpcInv, AttemptInv, CoreRecord
<1> HIDE DEF n
<1>3. NoProc \in Proc
  <2>1. <<>> \in Seq(Events)
    OBVIOUS
  <2> HIDE DEF Events
  <2> QED BY <2>1 DEF NoProc, Proc, Stations, Signals, Exceptions
<1>4. q \in Proc
  BY <1>2, <1>3 DEF Proc, Stations
<1>5. q.pc = "enter" /\ q.at = 0 /\ q.queue = <<>> /\ q.signal = "none" /\ q.exc = "none"
  BY <1>3 DEF NoProc, Proc
<1>6. core' \in CoreRecord /\ core'.st = "running"
  <2>1. "running" \in Final \cup {"pending", "running"}
    OBVIOUS
  <2> QED BY <1>1, <1>2, <2>1 DEF CoreRecord
<1> HIDE DEF q
<1>7. ProcOK(q, ckpt, cutShort)
  BY <1>2, <1>5, ProcessHas, GrpcRunAssumption DEF ProcOK
<1>8. Becomes(w, q)
  BY <1>1, <1>2, <1>4, <1>6, <1>7, ProcessHas DEF Becomes
<1>9. AttemptInv' /\ \A v \in Processes : proc'[v] = IF v = w THEN q ELSE proc[v]
  BY <1>2, <1>8, ProcessStep
<1>10. ASSUME faults = 0 PROVE OneAttempt' /\ PausesTold'
  <2>1. OneAttempt'
    BY <1>1, <1>5, <1>6, <1>9, <1>10 DEF GrpcInv, OneAttempt
  <2>2. proc[w].queue = <<>>
    BY <1>1, <1>2, ProcessHas DEF ProcOK
  <2>3. PausesTold'
    BY <1>1, <1>9, <1>10, <2>2, PausesStayTold DEF GrpcInv
  <2> QED BY <2>1, <2>3
<1> QED BY <1>1, <1>9, <1>10 DEF GrpcInv

\* The run is entered, or failed at once.
LEMMA EnterKeeps ==
  ASSUME GrpcInv, NEW w \in Processes, Enter(w)
  PROVE  GrpcInv'
<1> DEFINE q == IF proc[w].attempt > MaxRetries
                THEN [proc[w] EXCEPT !.pc = "settle", !.exc = "error", !.listening = TRUE]
                ELSE [proc[w] EXCEPT !.pc = "exec", !.at = ckpt, !.listening = TRUE]
<1>1. /\ proc' = [proc EXCEPT ![w] = q] /\ proc[w].pc = "enter"
      /\ core' = [core EXCEPT !.beat = core.beat \cup {w}]
      /\ UNCHANGED <<job, ckpt, heard, faults, cutShort>>
  BY DEF Enter, StartGraph
<1>a. AttemptInv
  BY DEF GrpcInv
<1>2. /\ q \in Proc /\ q.pc \in Working /\ q.queue = proc[w].queue /\ q.signal = proc[w].signal
      /\ q.exc \in {proc[w].exc, "error"} /\ q.at \in {proc[w].at, ckpt} /\ q.pc \in {"settle", "exec"}
      /\ q.pc = "settle" => q.exc = "error"
  BY <1>a, ProcessHas DEF Proc, Stations, Signals, Exceptions, Working
<1>3. core' \in CoreRecord /\ core'.st = core.st /\ core'.beat = core.beat \cup {w}
  BY <1>1 DEF GrpcInv, AttemptInv, CoreRecord
<1> HIDE DEF q
<1>4. ProcOK(q, ckpt, cutShort)
  BY <1>1, <1>2, <1>a, ProcessHas DEF ProcOK
<1>5. Becomes(w, q)
  BY <1>1, <1>2, <1>3, <1>4, <1>a, ProcessHas DEF Becomes
<1>6. AttemptInv' /\ \A v \in Processes : proc'[v] = IF v = w THEN q ELSE proc[v]
  BY <1>5, <1>a, ProcessStep
<1>7. ASSUME faults = 0 PROVE OneAttempt' /\ PausesTold'
  <2>1. OneAttempt'
    <3>1. OneAttempt /\ q.pc # "idle" /\ w \in core'.beat
      BY <1>2, <1>3, <1>7 DEF GrpcInv, Working
    <3>2. \A v \in Processes : proc'[v].pc = "idle" <=> proc[v].pc = "idle"
      BY <1>1, <1>6, <3>1
    <3>3. core.st \notin {"pending", "success"}
      BY <1>1, <3>1 DEF OneAttempt
    <3>4. /\ proc'[w].pc \in Working
          /\ \A v \in Processes : /\ proc'[v].signal # "retry"
                                  /\ proc'[v].exc \in {"none", "error", "interrupt", "rollback"}
      BY <1>2, <1>6, <3>1 DEF OneAttempt
    <3> QED BY <1>3, <3>1, <3>2, <3>3, <3>4 DEF OneAttempt
  <2>2. PausesTold'
    BY <1>1, <1>2, <1>6, <1>7, PausesStayTold DEF GrpcInv
  <2> QED BY <2>1, <2>2
<1> QED BY <1>1, <1>6, <1>7 DEF GrpcInv

\* A process without a run.
LEMMA NoProcFits ==
  /\ NoProc \in Proc /\ \A saved \in Nat, short \in BOOLEAN : ProcOK(NoProc, saved, short)
  /\ NoProc.pc = "idle" /\ NoProc.queue = <<>> /\ NoProc.signal = "none" /\ NoProc.exc = "none"
<1>1. NoProc \in Proc
  <2>1. <<>> \in Seq(Events)
    OBVIOUS
  <2> HIDE DEF Events
  <2> QED BY <2>1 DEF NoProc, Proc, Stations, Signals, Exceptions
<1>2. /\ NoProc.pc = "idle" /\ NoProc.queue = <<>> /\ NoProc.signal = "none" /\ NoProc.exc = "none"
      /\ NoProc.at = 0
  BY DEF NoProc
<1> QED BY <1>1, <1>2, GrpcRunAssumption DEF ProcOK

\* A step that is a failure, or follows one.
LEMMA FaultKeeps ==
  ASSUME GrpcInv, NEW w \in Processes, NEW q, Becomes(w, q), faults' # 0
  PROVE  GrpcInv'
BY ProcessStep DEF GrpcInv

\* A step of an attempt that goes on, at the same checkpoint.
LEMMA QuietKeeps ==
  ASSUME GrpcInv, NEW w \in Processes, NEW q, Becomes(w, q), core' = core, ckpt' = ckpt, faults' = faults,
         heard \subseteq heard',
         q.pc = proc[w].pc \/ (proc[w].pc \in Working /\ q.pc \in Working),
         faults = 0 => q.signal # "retry" /\ q.exc \in {"none", "error", "interrupt", "rollback"},
         \A i \in 1..Len(proc[w].queue) : \/ proc[w].queue[i] \subseteq heard'
                                           \/ \E j \in 1..Len(q.queue) : q.queue[j] = proc[w].queue[i]
  PROVE  GrpcInv'
<1>1. AttemptInv' /\ \A v \in Processes : proc'[v] = IF v = w THEN q ELSE proc[v]
  BY ProcessStep DEF GrpcInv
<1>2. ASSUME faults = 0 PROVE OneAttempt'
  BY <1>1, <1>2, AttemptGoesOn DEF GrpcInv
<1>3. ASSUME faults = 0 PROVE PausesTold'
  <2>1. job' = job /\ PausesTold
    BY <1>3 DEF Becomes, GrpcInv
  <2> QED BY <1>1, <2>1, PausesStayTold
<1> QED BY <1>1, <1>2, <1>3 DEF GrpcInv

\* A signal is heard.
LEMMA HearSignalKeeps ==
  ASSUME GrpcInv, NEW w \in Processes, HearSignal(w)
  PROVE  GrpcInv'
<1> DEFINE q == SetDone(proc[w], core.cancel)
<1>a. AttemptInv
  BY DEF GrpcInv
<1>1. proc' = [proc EXCEPT ![w] = q] /\ core.cancel \in {"interrupt", "rollback"} /\ UNCHANGED <<job, core, ckpt, heard, faults, cutShort>>
  BY <1>a, ProcessHas DEF HearSignal, CoreRecord
<1>2. /\ q \in Proc /\ q.pc = proc[w].pc /\ q.queue = proc[w].queue /\ q.exc = proc[w].exc /\ q.at = proc[w].at
      /\ q.signal \in {proc[w].signal, "interrupt", "rollback"}
  BY <1>1, <1>a, ProcessHas DEF Proc, SetDone, Signals
<1> HIDE DEF q
<1>3. Becomes(w, q)
  <2>1. ProcOK(q, ckpt, cutShort)
    BY <1>2, <1>a, ProcessHas DEF ProcOK
  <2> QED BY <1>1, <1>2, <1>a, <2>1, ProcessHas DEF Becomes
<1>4. faults = 0 => q.signal # "retry" /\ q.exc \in {"none", "error", "interrupt", "rollback"}
  BY <1>2 DEF GrpcInv, OneAttempt
<1> QED BY <1>1, <1>2, <1>3, <1>4, QuietKeeps

\* The stream of signals breaks.
LEMMA StreamBreaksKeeps ==
  ASSUME GrpcInv, NEW w \in Processes, StreamBreaks(w)
  PROVE  GrpcInv'
<1> DEFINE q == SetDone(proc[w], "retry")
<1>a. AttemptInv
  BY DEF GrpcInv
<1>1. /\ proc' = [proc EXCEPT ![w] = q] /\ core' = [core EXCEPT !.beat = @ \ {w}]
      /\ faults < MaxFaults /\ faults' = faults + 1 /\ UNCHANGED <<job, ckpt, heard, cutShort>>
  BY DEF StreamBreaks
<1>2. q \in Proc /\ q.pc = proc[w].pc /\ q.queue = proc[w].queue /\ q.exc = proc[w].exc /\ q.at = proc[w].at
  BY <1>1, <1>a, ProcessHas DEF Proc, SetDone, Signals
<1> HIDE DEF q
<1>3. core' \in CoreRecord /\ core'.st = core.st
  BY <1>1, <1>a, ProcessHas DEF CoreRecord
<1>4. ProcOK(q, ckpt, cutShort)
  BY <1>2, <1>a, ProcessHas DEF ProcOK
<1>5. Becomes(w, q) /\ faults' # 0
  BY <1>1, <1>2, <1>3, <1>4, <1>a, ProcessHas DEF Becomes
<1> QED BY <1>5, FaultKeeps

\* The stream of signals ends.
LEMMA StreamClosesKeeps ==
  ASSUME GrpcInv, NEW w \in Processes, StreamCloses(w)
  PROVE  GrpcInv'
<1> DEFINE q == [proc[w] EXCEPT !.listening = FALSE]
<1>a. AttemptInv
  BY DEF GrpcInv
<1>1. /\ proc' = [proc EXCEPT ![w] = q] /\ core' = [core EXCEPT !.beat = @ \ {w}]
      /\ faults < MaxFaults /\ faults' = faults + 1 /\ UNCHANGED <<job, ckpt, heard, cutShort>>
  BY DEF StreamCloses
<1>2. q \in Proc /\ q.pc = proc[w].pc /\ q.queue = proc[w].queue /\ q.exc = proc[w].exc /\ q.at = proc[w].at
  BY <1>1, <1>a, ProcessHas DEF Proc
<1> HIDE DEF q
<1>3. core' \in CoreRecord /\ core'.st = core.st
  BY <1>1, <1>a, ProcessHas DEF CoreRecord
<1>4. ProcOK(q, ckpt, cutShort)
  BY <1>2, <1>a, ProcessHas DEF ProcOK
<1>5. Becomes(w, q) /\ faults' # 0
  BY <1>1, <1>2, <1>3, <1>4, <1>a, ProcessHas DEF Becomes
<1> QED BY <1>5, FaultKeeps

\* The graph is through.
LEMMA GraphEndsKeeps ==
  ASSUME GrpcInv, NEW w \in Processes, GraphEnds(w)
  PROVE  GrpcInv'
<1> DEFINE q == [proc[w] EXCEPT !.pc = "drain"]
<1>a. AttemptInv
  BY DEF GrpcInv
<1>1. /\ proc' = [proc EXCEPT ![w] = q] /\ proc[w].pc = "exec" /\ proc[w].at = Len(job.plan)
      /\ UNCHANGED <<job, core, ckpt, heard, faults, cutShort>>
  BY DEF GraphEnds
<1>2. /\ q \in Proc /\ q.pc = "drain" /\ q.queue = proc[w].queue /\ q.exc = proc[w].exc /\ q.at = proc[w].at
      /\ q.signal = proc[w].signal
  BY <1>1, <1>a, ProcessHas DEF Proc, Stations
<1> HIDE DEF q
<1>3. Becomes(w, q)
  <2>1. ProcOK(q, ckpt, cutShort)
    BY <1>1, <1>2, <1>a, ProcessHas DEF ProcOK
  <2> QED BY <1>1, <1>2, <1>a, <2>1, ProcessHas DEF Becomes
<1>4. faults = 0 => q.signal # "retry" /\ q.exc \in {"none", "error", "interrupt", "rollback"}
  BY <1>2 DEF GrpcInv, OneAttempt
<1> QED BY <1>1, <1>2, <1>3, <1>4, QuietKeeps DEF Working

\* A signal is raised in the attempt.
LEMMA AbortedKeeps ==
  ASSUME GrpcInv, NEW w \in Processes, Aborted(w)
  PROVE  GrpcInv'
<1> DEFINE q == [proc[w] EXCEPT !.pc = "tellError", !.exc = proc[w].signal]
<1>a. AttemptInv
  BY DEF GrpcInv
<1>1. /\ proc' = [proc EXCEPT ![w] = q] /\ proc[w].pc = "exec" /\ proc[w].signal # "none"
      /\ UNCHANGED <<job, core, ckpt, heard, faults, cutShort>>
  BY DEF Aborted
<1>2. /\ q \in Proc /\ q.pc = "tellError" /\ q.queue = proc[w].queue /\ q.exc = proc[w].signal /\ q.at = proc[w].at
      /\ q.signal = proc[w].signal
  BY <1>1, <1>a, ProcessHas DEF Proc, Stations, Exceptions
<1> HIDE DEF q
<1>3. Becomes(w, q)
  <2>1. ProcOK(q, ckpt, cutShort)
    BY <1>1, <1>2, <1>a, ProcessHas DEF ProcOK
  <2> QED BY <1>1, <1>2, <1>a, <2>1, ProcessHas DEF Becomes
<1>4. faults = 0 => q.signal # "retry" /\ q.exc \in {"none", "error", "interrupt", "rollback"}
  BY <1>2, <1>a, ProcessHas DEF GrpcInv, OneAttempt, Proc, Signals
<1> QED BY <1>1, <1>2, <1>3, <1>4, QuietKeeps DEF Working

\* The graph fails, or its attempt is cancelled.
LEMMA GraphRaisesKeeps ==
  ASSUME GrpcInv, NEW w \in Processes, NEW exc \in {"error", "retry", "timeout", "cancelled"},
         GraphRaises(w, exc)
  PROVE  GrpcInv'
<1> DEFINE late == exc \in {"timeout", "cancelled"}
           left == IF job.async THEN proc[w].queue ELSE <<>>
           next == IF late THEN "drain" ELSE "tellError"
           q == [proc[w] EXCEPT !.exc = exc, !.queue = left, !.pc = next]
<1>a. AttemptInv
  BY DEF GrpcInv
<1>b. proc[w] \in Proc
  BY <1>a, ProcessHas
<1>1. /\ proc' = [proc EXCEPT ![w] = q] /\ proc[w].pc \in {"exec", "publish"}
      /\ faults < MaxFaults /\ faults' = faults + 1 /\ UNCHANGED <<job, core, ckpt, heard, cutShort>>
  BY <1>a DEF GraphRaises, AttemptInv
<1>2. left \in Seq(Events) /\ Len(left) <= QueueSize /\ (~ job.async => left = <<>>)
  BY <1>a, ProcessHas, GrpcRunAssumption DEF ProcOK
<1>3. next \in {"drain", "tellError"}
  OBVIOUS
<1> HIDE DEF left, next
<1>4. q \in Proc /\ q.pc = next /\ q.queue = left /\ q.exc = exc /\ q.at = proc[w].at
  <2>1. exc \in Exceptions /\ next \in Stations
    BY <1>3 DEF Exceptions, Signals, Stations
  <2> QED BY <1>b, <1>2, <2>1 DEF Proc
<1> HIDE DEF q
<1>5. ProcOK(q, ckpt, cutShort)
  BY <1>2, <1>3, <1>4, <1>a, ProcessHas DEF ProcOK
<1>6. Becomes(w, q) /\ faults' # 0
  BY <1>1, <1>4, <1>5, <1>a, ProcessHas DEF Becomes
<1> QED BY <1>6, FaultKeeps

\* What is published is a set of named events.
LEMMA ForwardedNames == \A mode \in STRING : Forwarded(mode) \subseteq Names
<1> SUFFICES ASSUME NEW mode \in STRING PROVE Forwarded(mode) \subseteq Names
  OBVIOUS
<1>1. CASE mode = "messages"
  <2>1. ProtocolNames(mode) = {}
    BY <1>1 DEF ProtocolNames
  <2>2. SharedNames(mode) \subseteq {"messages", "messages/metadata", "messages/partial"}
    BY <1>1 DEF SharedNames
  <2> QED BY <2>1, <2>2 DEF Forwarded, Names
<1>2. CASE mode = "pause"
  <2>1. ProtocolNames(mode) = {"updates"}
    BY <1>2 DEF ProtocolNames
  <2>2. SharedNames(mode) \subseteq {"updates", "values"}
    BY <1>2 DEF SharedNames
  <2> QED BY <2>1, <2>2 DEF Forwarded, Names
<1>3. CASE mode \notin {"messages", "pause"}
  <2>1. ProtocolNames(mode) = {mode} /\ SharedNames(mode) \subseteq {mode}
    BY <1>3 DEF ProtocolNames, SharedNames
  <2> QED BY <2>1 DEF Forwarded, Names
<1> QED BY <1>1, <1>2, <1>3

\* A pause is passed on, whatever the client asked for.
LEMMA PauseForwarded == Forwarded("pause") \cap {"updates", "values"} # {}
BY DEF Forwarded, ProtocolNames, SharedNames, OnlyInterruptUpdates

\* A step to a chunk of the graph: what is new to the checkpoints has been told or is
\* to be published.
LEMMA ChunkKeeps ==
  ASSUME GrpcInv, NEW w \in Processes, NEW q, Becomes(w, q), core' = core, faults' = faults, heard' = heard,
         ckpt' = IF proc[w].at + 1 > ckpt THEN proc[w].at + 1 ELSE ckpt,
         q.pc \in Working, proc[w].pc \in Working, q.signal = proc[w].signal, q.exc = proc[w].exc,
         \A i \in 1..Len(proc[w].queue) : \E j \in 1..Len(q.queue) : q.queue[j] = proc[w].queue[i],
         job.plan[proc[w].at + 1] = "pause" =>
           \E j \in 1..Len(q.queue) : Told(proc[w].at + 1, q.queue[j])
  PROVE  GrpcInv'
<1>1. AttemptInv' /\ AttemptInv /\ \A v \in Processes : proc'[v] = IF v = w THEN q ELSE proc[v]
  BY ProcessStep DEF GrpcInv
<1>2. ASSUME faults = 0 PROVE OneAttempt'
  BY <1>1, <1>2, AttemptGoesOn DEF GrpcInv, OneAttempt
<1>3. ASSUME faults = 0 PROVE PausesTold'
  <2>1. job' = job /\ PausesTold /\ proc[w].at \in Nat /\ proc[w].at <= ckpt /\ ckpt \in Nat
    BY <1>1, <1>3, ProcessHas DEF Becomes, GrpcInv, ProcOK
  <2> SUFFICES ASSUME NEW n \in 1..ckpt', job.plan[n] = "pause", ~ Told(n, heard)
               PROVE  \E v \in Processes : \E i \in 1..Len(proc'[v].queue) : Told(n, proc'[v].queue[i])
    BY <2>1 DEF PausesTold
  <2>2. CASE n \in 1..ckpt
    <3>1. PICK v \in Processes : \E i \in 1..Len(proc[v].queue) : Told(n, proc[v].queue[i])
      BY <2>1, <2>2 DEF PausesTold
    <3>2. CASE v = w
      BY <1>1, <3>1, <3>2
    <3>3. CASE v # w
      BY <1>1, <3>1, <3>3
    <3> QED BY <3>2, <3>3
  <2>3. CASE n \notin 1..ckpt
    <3>1. n = proc[w].at + 1
      BY <2>1, <2>3
    <3> QED BY <1>1, <3>1
  <2> QED BY <2>2, <2>3
<1> QED BY <1>1, <1>2, <1>3 DEF GrpcInv

\* A chunk that the graph does not produce.
LEMMA SkipChunkKeeps ==
  ASSUME GrpcInv, NEW w \in Processes, SkipChunk(w)
  PROVE  GrpcInv'
<1> DEFINE n == proc[w].at + 1
           q == [proc[w] EXCEPT !.at = n]
<1>a. AttemptInv
  BY DEF GrpcInv
<1>1. /\ proc' = [proc EXCEPT ![w] = q] /\ proc[w].pc = "exec" /\ proc[w].at < Len(job.plan)
      /\ job.plan[n] # "pause" /\ ckpt' = IF n > ckpt THEN n ELSE ckpt
      /\ UNCHANGED <<job, core, heard, faults, cutShort>>
  BY DEF SkipChunk
<1>2. n \in Nat /\ n <= ckpt' /\ ckpt' \in 0..Len(job.plan) /\ ckpt <= ckpt'
  BY <1>1, <1>a, ProcessHas
<1>3. /\ q \in Proc /\ q.pc = "exec" /\ q.queue = proc[w].queue /\ q.exc = proc[w].exc /\ q.at = n
      /\ q.signal = proc[w].signal
  BY <1>1, <1>2, <1>a, ProcessHas DEF Proc
<1> HIDE DEF q
<1>4. ProcOK(q, ckpt', cutShort)
  BY <1>1, <1>2, <1>3, <1>a, ProcessHas DEF ProcOK
<1>5. Becomes(w, q)
  BY <1>1, <1>2, <1>3, <1>4, <1>a, ProcessHas DEF Becomes
<1> QED BY <1>1, <1>3, <1>5, ChunkKeeps DEF Working

\* The next chunk of the graph.
LEMMA NextChunkKeeps ==
  ASSUME GrpcInv, NEW w \in Processes, NextChunk(w)
  PROVE  GrpcInv'
<1> DEFINE n == proc[w].at + 1
           events == {<<n, e>> : e \in Forwarded(job.plan[n])}
           kept == proc[w].queue
<1>a. AttemptInv
  BY DEF GrpcInv
<1>1. /\ proc[w].pc = "exec" /\ proc[w].at < Len(job.plan)
      /\ ckpt' = IF n > ckpt THEN n ELSE ckpt
      /\ UNCHANGED <<job, core, heard, faults, cutShort>>
  BY DEF NextChunk
<1>2. n \in Nat /\ n <= ckpt' /\ ckpt' \in 0..Len(job.plan) /\ ckpt <= ckpt' /\ kept \in Seq(Events)
  BY <1>1, <1>a, ProcessHas
<1>3. events \in Events /\ (job.plan[n] = "pause" => Told(n, events))
  <2>1. job.plan[n] \in STRING
    <3>1. job.plan \in Seq(STRING) /\ n \in 1..Len(job.plan)
      BY <1>1, <1>2, <1>a, ProcessHas, GrpcRunAssumption
    <3> QED BY <3>1
  <2>2. events \in Events
    <3>1. \A e \in Forwarded(job.plan[n]) : <<n, e>> \in Nat \X Names
      BY <1>2, <2>1, ForwardedNames
    <3> QED BY <3>1 DEF Events
  <2>3. ASSUME job.plan[n] = "pause" PROVE Told(n, events)
    BY <2>3, PauseForwarded DEF Told
  <2> QED BY <2>2, <2>3
<1> DEFINE Follows(q) ==
  /\ q \in Proc /\ q.at = n /\ q.exc = proc[w].exc /\ q.signal = proc[w].signal
  /\ \/ q.pc = "exec" /\ q.queue = kept /\ events = {}
     \/ q.pc = "exec" /\ q.queue = Append(kept, events) /\ job.async /\ Len(kept) < QueueSize
     \/ q.pc = "publish" /\ q.queue = <<events>> /\ ~ job.async
<1>4. \E q : proc' = [proc EXCEPT ![w] = q] /\ Follows(q)
  <2>0. proc[w] \in Proc
    BY <1>a, ProcessHas
  <2>1. CASE events = {}
    <3> DEFINE q == [proc[w] EXCEPT !.at = n]
    <3>1. proc' = [proc EXCEPT ![w] = q]
      BY <2>1 DEF NextChunk
    <3>2. Follows(q)
      BY <1>1, <1>2, <2>0, <2>1 DEF Proc
    <3> QED BY <3>1, <3>2
  <2>2. CASE events # {} /\ job.async
    <3> DEFINE more == Append(kept, events)
               q == [proc[w] EXCEPT !.at = n, !.queue = more]
    <3>1. proc' = [proc EXCEPT ![w] = q] /\ Len(kept) < QueueSize
      BY <1>a, <2>2 DEF NextChunk, AttemptInv
    <3>2. more \in Seq(Events)
      BY <1>2, <1>3
    <3> HIDE DEF more
    <3>3. q \in Proc /\ q.at = n /\ q.queue = more /\ q.pc = "exec" /\ q.exc = proc[w].exc /\ q.signal = proc[w].signal
      BY <1>1, <1>2, <2>0, <3>2 DEF Proc
    <3>4. Follows(q)
      BY <2>2, <3>1, <3>3 DEF more
    <3> QED BY <3>1, <3>4
  <2>3. CASE events # {} /\ ~ job.async
    <3> DEFINE one == <<events>>
               q == [proc[w] EXCEPT !.at = n, !.queue = one, !.pc = "publish"]
    <3>1. proc' = [proc EXCEPT ![w] = q]
      BY <1>a, <2>3 DEF NextChunk, AttemptInv
    <3>2. one \in Seq(Events) /\ "publish" \in Stations
      BY <1>3 DEF Stations
    <3> HIDE DEF one
    <3>3. q \in Proc /\ q.at = n /\ q.queue = one /\ q.pc = "publish" /\ q.exc = proc[w].exc /\ q.signal = proc[w].signal
      BY <1>1, <1>2, <2>0, <3>2 DEF Proc
    <3>4. Follows(q)
      BY <2>3, <3>3 DEF one
    <3> QED BY <3>1, <3>4
  <2> QED BY <2>1, <2>2, <2>3
<1>5. PICK q : proc' = [proc EXCEPT ![w] = q] /\ Follows(q)
  BY <1>4
<1> HIDE DEF events
<1>6. /\ Len(kept) \in Nat /\ Len(kept) <= QueueSize /\ (~ job.async => kept = <<>>)
      /\ Len(Append(kept, events)) = Len(kept) + 1
      /\ \A i \in 1..Len(kept) : Append(kept, events)[i] = kept[i]
      /\ Append(kept, events)[Len(kept) + 1] = events
      /\ Len(<<events>>) = 1 /\ <<events>>[1] = events
  BY <1>1, <1>2, <1>3, <1>a, ProcessHas DEF ProcOK
<1>7. ProcOK(q, ckpt', cutShort)
  <2>1. q.at <= ckpt' /\ Len(q.queue) <= QueueSize
    <3>1. q.at = n /\ n <= ckpt'
      BY <1>2, <1>5
    <3>2. CASE q.queue = kept
      BY <1>6, <3>1, <3>2
    <3>3. CASE q.queue = Append(kept, events) /\ Len(kept) < QueueSize
      BY <1>6, <3>1, <3>3, GrpcRunAssumption
    <3>4. CASE q.queue = <<events>>
      BY <1>6, <3>1, <3>4, GrpcRunAssumption
    <3> QED BY <1>5, <3>2, <3>3, <3>4
  <2>2. q.pc = "exec" \/ (q.pc = "publish" /\ ~ job.async /\ Len(q.queue) = 1)
    BY <1>5, <1>6
  <2>3. ~ job.async /\ q.pc # "publish" => q.queue = <<>>
    BY <1>5, <1>6
  <2> QED BY <2>1, <2>2, <2>3 DEF ProcOK
<1>8. Becomes(w, q)
  BY <1>1, <1>2, <1>5, <1>7, <1>a, ProcessHas DEF Becomes
<1>9. \A i \in 1..Len(kept) : \E j \in 1..Len(q.queue) : q.queue[j] = kept[i]
  <2> SUFFICES ASSUME NEW i \in 1..Len(kept) PROVE \E j \in 1..Len(q.queue) : q.queue[j] = kept[i]
    OBVIOUS
  <2>1. CASE q.queue = kept
    BY <2>1
  <2>2. CASE q.queue = Append(kept, events)
    BY <1>6, <2>2
  <2>3. CASE ~ job.async
    BY <1>6, <2>3
  <2> QED BY <1>5, <2>1, <2>2, <2>3
<1>10. ASSUME job.plan[n] = "pause" PROVE \E j \in 1..Len(q.queue) : Told(n, q.queue[j])
  <2>1. events # {} /\ Told(n, events)
    BY <1>3, <1>10 DEF Told
  <2>2. CASE q.queue = Append(kept, events)
    BY <1>6, <2>1, <2>2
  <2>3. CASE q.queue = <<events>>
    BY <1>6, <2>1, <2>3
  <2> QED BY <1>5, <2>1, <2>2, <2>3
<1> QED BY <1>1, <1>5, <1>8, <1>9, <1>10, ChunkKeeps DEF Working

\* One thing less is to be published.
LEMMA AfterPublishKeeps ==
  ASSUME AttemptInv, NEW w \in Processes, proc[w].queue # <<>>, NEW p, p = AfterPublish(proc[w])
  PROVE  /\ p \in Proc /\ p.queue = Tail(proc[w].queue) /\ p.exc = proc[w].exc
         /\ p.at = proc[w].at /\ p.signal = proc[w].signal
         /\ p.pc = IF proc[w].pc = "publish" THEN "exec" ELSE proc[w].pc
         /\ ProcOK(p, ckpt, cutShort)
<1> DEFINE rest == Tail(proc[w].queue)
           next == IF proc[w].pc = "publish" THEN "exec" ELSE proc[w].pc
           q == [proc[w] EXCEPT !.queue = rest, !.pc = next]
<1>1. proc[w] \in Proc /\ proc[w].queue \in Seq(Events) /\ ProcOK(proc[w], ckpt, cutShort)
  BY ProcessHas
<1>2. rest \in Seq(Events) /\ Len(rest) = Len(proc[w].queue) - 1 /\ Len(proc[w].queue) \in Nat \ {0}
  BY <1>1
<1>3. next \in Stations
  BY <1>1 DEF Proc, Stations
<1>4. AfterPublish(proc[w]) = q
  BY DEF AfterPublish
<1>5. Len(rest) = 0 => rest = <<>>
  BY <1>2, EmptySeq
<1> HIDE DEF rest, next
<1>6. q \in Proc /\ q.queue = rest /\ q.pc = next /\ q.exc = proc[w].exc /\ q.at = proc[w].at /\ q.signal = proc[w].signal
  BY <1>1, <1>2, <1>3 DEF Proc
<1> HIDE DEF q
<1>7. ProcOK(q, ckpt, cutShort)
  <2>1. Len(rest) <= QueueSize
    BY <1>1, <1>2, GrpcRunAssumption DEF ProcOK
  <2>2. proc[w].pc = "publish" => rest = <<>> /\ ~ job.async
    BY <1>1, <1>2, <1>5 DEF ProcOK
  <2>3. proc[w].pc \notin {"idle", "enter", "settle", "markDone", "teardown"}
    BY <1>1 DEF ProcOK
  <2>4. ~ job.async => proc[w].pc = "publish"
    BY <1>1 DEF ProcOK
  <2> QED BY <1>1, <1>6, <2>1, <2>2, <2>3, <2>4 DEF ProcOK, next
<1> QED BY <1>4, <1>6, <1>7 DEF rest, next

\* Something is published.
LEMMA PublishKeeps ==
  ASSUME GrpcInv, NEW w \in Processes, Publish(w)
  PROVE  GrpcInv'
<1> DEFINE kept == proc[w].queue
           q == AfterPublish(proc[w])
<1>a. AttemptInv
  BY DEF GrpcInv
<1>1. /\ proc' = [proc EXCEPT ![w] = q] /\ kept # <<>> /\ heard' = heard \cup Head(kept)
      /\ UNCHANGED <<job, core, ckpt, faults, cutShort>>
  BY DEF Publish, Publishing
<1>2. /\ q \in Proc /\ q.queue = Tail(kept) /\ q.exc = proc[w].exc /\ q.at = proc[w].at
      /\ q.signal = proc[w].signal
      /\ q.pc = IF proc[w].pc = "publish" THEN "exec" ELSE proc[w].pc
      /\ ProcOK(q, ckpt, cutShort)
  BY <1>1, <1>a, AfterPublishKeeps
<1> HIDE DEF q
<1>3. /\ Len(kept) \in Nat \ {0} /\ Len(Tail(kept)) = Len(kept) - 1 /\ kept[1] = Head(kept)
      /\ \A i \in 1..Len(Tail(kept)) : Tail(kept)[i] = kept[i + 1]
  BY <1>1, <1>a, ProcessHas
<1>5. Becomes(w, q)
  BY <1>1, <1>2, <1>a, ProcessHas DEF Becomes
<1>6. \A i \in 1..Len(kept) : kept[i] \subseteq heard' \/ \E j \in 1..Len(q.queue) : q.queue[j] = kept[i]
  <2> SUFFICES ASSUME NEW i \in 1..Len(kept)
               PROVE  kept[i] \subseteq heard' \/ \E j \in 1..Len(q.queue) : q.queue[j] = kept[i]
    OBVIOUS
  <2>1. CASE i = 1
    BY <1>1, <1>3, <2>1
  <2>2. CASE i # 1
    <3>1. i - 1 \in 1..Len(q.queue) /\ q.queue[i - 1] = kept[i]
      BY <1>2, <1>3, <2>2
    <3> QED BY <3>1
  <2> QED BY <2>1, <2>2
<1>7. faults = 0 => q.signal # "retry" /\ q.exc \in {"none", "error", "interrupt", "rollback"}
  BY <1>2 DEF GrpcInv, OneAttempt
<1> QED BY <1>1, <1>2, <1>5, <1>6, <1>7, QuietKeeps DEF Working

\* Something is published twice, or may be.
LEMMA PublishAgainKeeps ==
  ASSUME GrpcInv, NEW w \in Processes, PublishAgain(w)
  PROVE  GrpcInv'
<1>a. AttemptInv
  BY DEF GrpcInv
<1>1. /\ proc' = [proc EXCEPT ![w] = proc[w]] /\ faults < MaxFaults /\ faults' = faults + 1
      /\ UNCHANGED <<job, core, ckpt, cutShort>>
  BY <1>a DEF PublishAgain, AttemptInv
<1>2. Becomes(w, proc[w]) /\ faults' # 0
  BY <1>1, <1>a, ProcessHas DEF Becomes
<1> QED BY <1>2, FaultKeeps

\* Publishing fails for good.
LEMMA PublishFailsKeeps ==
  ASSUME GrpcInv, NEW w \in Processes, PublishFails(w)
  PROVE  GrpcInv'
<1>a. AttemptInv
  BY DEF GrpcInv
<1>1. proc[w].queue # <<>> /\ faults < MaxFaults /\ faults' = faults + 1 /\ UNCHANGED <<job, core, ckpt, heard>>
  BY DEF PublishFails, Publishing
<1>2. CASE job.async
  <2> DEFINE q == AfterPublish(proc[w])
  <2>1. proc' = [proc EXCEPT ![w] = q] /\ cutShort' = cutShort
    BY <1>2 DEF PublishFails
  <2>2. q \in Proc /\ ProcOK(q, ckpt, cutShort)
    BY <1>1, <1>a, AfterPublishKeeps
  <2> HIDE DEF q
  <2>3. Becomes(w, q) /\ faults' # 0
    BY <1>1, <2>1, <2>2, <1>a, ProcessHas DEF Becomes
  <2> QED BY <2>3, FaultKeeps
<1>3. CASE ~ job.async
  <2> DEFINE q == [proc[w] EXCEPT !.queue = <<>>, !.pc = "settle"]
  <2>1. proc' = [proc EXCEPT ![w] = q] /\ cutShort' = TRUE
    BY <1>3, <1>a DEF PublishFails, AttemptInv
  <2>2. q \in Proc /\ q.queue = <<>> /\ q.pc = "settle" /\ q.at = proc[w].at
    <3>1. <<>> \in Seq(Events) /\ "settle" \in Stations /\ proc[w] \in Proc
      BY <1>a, ProcessHas DEF Stations
    <3> QED BY <3>1 DEF Proc
  <2> HIDE DEF q
  <2>3. ProcOK(q, ckpt', cutShort')
    BY <1>1, <2>1, <2>2, <1>a, ProcessHas, GrpcRunAssumption DEF ProcOK
  <2>4. Becomes(w, q) /\ faults' # 0
    BY <1>1, <2>1, <2>2, <2>3, <1>a, ProcessHas DEF Becomes
  <2> QED BY <2>4, FaultKeeps
<1> QED BY <1>2, <1>3

\* The client is told of the exception.
LEMMA TellErrorKeeps ==
  ASSUME GrpcInv, NEW w \in Processes, TellError(w)
  PROVE  GrpcInv'
<1> DEFINE q == [proc[w] EXCEPT !.pc = "drain"]
<1>a. AttemptInv
  BY DEF GrpcInv
<1>1. /\ proc' = [proc EXCEPT ![w] = q] /\ proc[w].pc = "tellError" /\ heard \subseteq heard'
      /\ UNCHANGED <<job, core, ckpt, faults, cutShort>>
  BY DEF TellError
<1>2. /\ q \in Proc /\ q.pc = "drain" /\ q.queue = proc[w].queue /\ q.exc = proc[w].exc /\ q.at = proc[w].at
      /\ q.signal = proc[w].signal
  BY <1>1, <1>a, ProcessHas DEF Proc, Stations
<1> HIDE DEF q
<1>3. Becomes(w, q)
  <2>1. ProcOK(q, ckpt, cutShort)
    BY <1>1, <1>2, <1>a, ProcessHas DEF ProcOK
  <2> QED BY <1>1, <1>2, <1>a, <2>1, ProcessHas DEF Becomes
<1>4. faults = 0 => q.signal # "retry" /\ q.exc \in {"none", "error", "interrupt", "rollback"}
  BY <1>2 DEF GrpcInv, OneAttempt
<1> QED BY <1>1, <1>2, <1>3, <1>4, QuietKeeps DEF Working

\* All has been published.
LEMMA DrainedKeeps ==
  ASSUME GrpcInv, NEW w \in Processes, Drained(w)
  PROVE  GrpcInv'
<1> DEFINE q == [proc[w] EXCEPT !.pc = "settle"]
<1>a. AttemptInv
  BY DEF GrpcInv
<1>1. /\ proc' = [proc EXCEPT ![w] = q] /\ proc[w].pc = "drain" /\ proc[w].queue = <<>>
      /\ UNCHANGED <<job, core, ckpt, heard, faults, cutShort>>
  BY DEF Drained
<1>2. /\ q \in Proc /\ q.pc = "settle" /\ q.queue = <<>> /\ q.exc = proc[w].exc /\ q.at = proc[w].at
      /\ q.signal = proc[w].signal
  BY <1>1, <1>a, ProcessHas DEF Proc, Stations
<1> HIDE DEF q
<1>3. Becomes(w, q)
  <2>1. ProcOK(q, ckpt, cutShort)
    BY <1>1, <1>2, <1>a, ProcessHas DEF ProcOK
  <2> QED BY <1>1, <1>2, <1>a, <2>1, ProcessHas DEF Becomes
<1>4. faults = 0 => q.signal # "retry" /\ q.exc \in {"none", "error", "interrupt", "rollback"}
  BY <1>2 DEF GrpcInv, OneAttempt
<1> QED BY <1>1, <1>2, <1>3, <1>4, QuietKeeps DEF Working

\* Without faults: a process whose run is settled.
LEMMA AttemptEnds ==
  ASSUME OneAttempt, NEW w \in Processes, NEW q, proc[w].pc # "idle",
         \A v \in Processes : proc'[v] = IF v = w THEN q ELSE proc[v],
         core'.st \notin {"pending", "running"},
         core'.st = "success" => q.pc \in {"idle", "markDone", "teardown"},
         q.signal # "retry", q.exc \in {"none", "error", "interrupt", "rollback"}
  PROVE  OneAttempt'
<1>1. \A v \in Processes : v # w => proc'[v] = proc[v] /\ proc'[v].pc = "idle"
  BY DEF OneAttempt
<1>2. proc'[w] = q
  OBVIOUS
<1> QED BY <1>1, <1>2 DEF OneAttempt

\* The outcome is an outcome.
LEMMA StatusForOutcome ==
  \A exc \in Exceptions : /\ StatusFor(exc) \in Final \cup {"pending"}
                          /\ StatusFor(exc) = "success" <=> exc = "none"
                          /\ StatusFor(exc) = "pending" <=> exc \in Retriable
BY DEF StatusFor, Exceptions, Signals, Final, Retriable

\* The outcome is reported.
LEMMA SettleKeeps ==
  ASSUME GrpcInv, NEW w \in Processes, Settle(w)
  PROVE  GrpcInv'
<1> DEFINE gone == core.st = "gone" /\ proc[w].exc # "rollback"
           st == StatusFor(proc[w].exc)
           next == IF gone \/ proc[w].exc \in Retriable THEN "teardown" ELSE "markDone"
           q == [proc[w] EXCEPT !.pc = next]
<1>a. AttemptInv
  BY DEF GrpcInv
<1>1. /\ proc' = [proc EXCEPT ![w] = q] /\ proc[w].pc = "settle"
      /\ core' = IF gone THEN core ELSE [core EXCEPT !.st = st]
      /\ UNCHANGED <<job, ckpt, heard, faults, cutShort>>
  BY DEF Settle
<1>2. /\ proc[w] \in Proc /\ proc[w].exc \in Exceptions /\ ProcOK(proc[w], ckpt, cutShort) /\ core \in CoreRecord
      /\ proc[w].queue = <<>>
  BY <1>1, <1>a, ProcessHas DEF Proc, ProcOK
<1>3. /\ q \in Proc /\ q.pc = next /\ q.queue = proc[w].queue /\ q.exc = proc[w].exc /\ q.at = proc[w].at
      /\ q.signal = proc[w].signal
  BY <1>2 DEF Proc, Stations
<1>4. core' \in CoreRecord /\ core'.st = IF gone THEN core.st ELSE st
  BY <1>1, <1>2, StatusForOutcome DEF CoreRecord
<1> HIDE DEF q, st
<1>5. ProcOK(q, ckpt, cutShort)
  BY <1>2, <1>3 DEF ProcOK
<1>6. core'.st = "success" => core.st = "success" \/ ckpt = Len(job.plan) \/ cutShort
  BY <1>1, <1>2, <1>4, StatusForOutcome DEF ProcOK, st
<1>7. Becomes(w, q)
  BY <1>1, <1>3, <1>4, <1>5, <1>6, <1>a, ProcessHas DEF Becomes
<1>8. AttemptInv' /\ \A v \in Processes : proc'[v] = IF v = w THEN q ELSE proc[v]
  BY <1>7, <1>a, ProcessStep
<1>9. ASSUME faults = 0 PROVE OneAttempt' /\ PausesTold'
  <2>1. OneAttempt /\ PausesTold /\ q.signal # "retry" /\ q.exc \in {"none", "error", "interrupt", "rollback"}
    BY <1>3, <1>9 DEF GrpcInv, OneAttempt
  <2>2. core'.st \notin {"pending", "running"}
    BY <1>2, <1>3, <1>4, <2>1, StatusForOutcome DEF st, Final, Retriable
  <2>3. OneAttempt'
    BY <1>1, <1>3, <1>8, <2>1, <2>2, AttemptEnds
  <2>4. PausesTold'
    BY <1>1, <1>2, <1>8, <2>1, PausesStayTold
  <2> QED BY <2>3, <2>4
<1> QED BY <1>1, <1>8, <1>9 DEF GrpcInv

\* Reporting the outcome fails.
LEMMA SettleFailsKeeps ==
  ASSUME GrpcInv, NEW w \in Processes, SettleFails(w)
  PROVE  GrpcInv'
<1> DEFINE st == StatusFor(proc[w].exc)
           q == [proc[w] EXCEPT !.pc = "teardown"]
<1>a. AttemptInv
  BY DEF GrpcInv
<1>1. /\ proc' = [proc EXCEPT ![w] = q] /\ proc[w].pc = "settle"
      /\ core' \in {core, [core EXCEPT !.st = st]}
      /\ faults < MaxFaults /\ faults' = faults + 1
      /\ UNCHANGED <<job, ckpt, heard, cutShort>>
  BY DEF SettleFails
<1>2. /\ proc[w] \in Proc /\ proc[w].exc \in Exceptions /\ ProcOK(proc[w], ckpt, cutShort) /\ core \in CoreRecord
      /\ proc[w].queue = <<>>
  BY <1>1, <1>a, ProcessHas DEF Proc, ProcOK
<1>3. /\ q \in Proc /\ q.pc = "teardown" /\ q.queue = proc[w].queue /\ q.at = proc[w].at
  BY <1>2 DEF Proc, Stations
<1>4. core' \in CoreRecord /\ core'.st \in {core.st, st}
  <2>1. st \in Final \cup {"pending", "running"}
    BY <1>2, StatusForOutcome
  <2> HIDE DEF st
  <2> QED BY <1>1, <1>2, <2>1 DEF CoreRecord
<1> HIDE DEF q, st
<1>5. ProcOK(q, ckpt, cutShort)
  BY <1>2, <1>3 DEF ProcOK
<1>6. core'.st = "success" => core.st = "success" \/ ckpt = Len(job.plan) \/ cutShort
  BY <1>1, <1>2, <1>4, StatusForOutcome DEF ProcOK, st
<1>7. Becomes(w, q) /\ faults' # 0
  BY <1>1, <1>3, <1>4, <1>5, <1>6, <1>a, ProcessHas DEF Becomes
<1> QED BY <1>7, FaultKeeps

\* The end is marked.
LEMMA MarkDoneKeeps ==
  ASSUME GrpcInv, NEW w \in Processes, MarkDone(w)
  PROVE  GrpcInv'
<1> DEFINE q == [proc[w] EXCEPT !.pc = "teardown"]
<1>a. AttemptInv
  BY DEF GrpcInv
<1>1. /\ proc' = [proc EXCEPT ![w] = q] /\ proc[w].pc = "markDone"
      /\ \/ core' = [core EXCEPT !.ended = TRUE] /\ faults' = faults
         \/ core' = core /\ faults < MaxFaults /\ faults' = faults + 1
      /\ UNCHANGED <<job, ckpt, heard, cutShort>>
  BY DEF MarkDone
<1>2. /\ proc[w] \in Proc /\ ProcOK(proc[w], ckpt, cutShort) /\ core \in CoreRecord /\ proc[w].queue = <<>>
  BY <1>1, <1>a, ProcessHas DEF Proc, ProcOK
<1>3. /\ q \in Proc /\ q.pc = "teardown" /\ q.queue = proc[w].queue /\ q.exc = proc[w].exc /\ q.at = proc[w].at
      /\ q.signal = proc[w].signal
  BY <1>2 DEF Proc, Stations
<1>4. core' \in CoreRecord /\ core'.st = core.st
  BY <1>1, <1>2 DEF CoreRecord
<1> HIDE DEF q
<1>5. ProcOK(q, ckpt, cutShort)
  BY <1>2, <1>3 DEF ProcOK
<1>6. Becomes(w, q)
  BY <1>1, <1>3, <1>4, <1>5, <1>a, ProcessHas DEF Becomes
<1>7. AttemptInv' /\ \A v \in Processes : proc'[v] = IF v = w THEN q ELSE proc[v]
  BY <1>6, <1>a, ProcessStep
<1>8. ASSUME faults = 0, faults' = 0 PROVE OneAttempt' /\ PausesTold'
  <2>1. OneAttempt /\ PausesTold /\ q.signal # "retry" /\ q.exc \in {"none", "error", "interrupt", "rollback"}
    BY <1>3, <1>8 DEF GrpcInv, OneAttempt
  <2>2. core'.st \notin {"pending", "running"}
    BY <1>1, <1>4, <2>1 DEF OneAttempt, Working
  <2>3. OneAttempt'
    BY <1>1, <1>3, <1>7, <2>1, <2>2, AttemptEnds
  <2>4. PausesTold'
    BY <1>1, <1>2, <1>7, <2>1, PausesStayTold
  <2> QED BY <2>3, <2>4
<1>9. faults' = 0 => faults = 0
  BY <1>1, <1>a, ProcessHas
<1> QED BY <1>7, <1>8, <1>9 DEF GrpcInv

\* The attempt is left.
LEMMA TeardownKeeps ==
  ASSUME GrpcInv, NEW w \in Processes, Teardown(w)
  PROVE  GrpcInv'
<1>a. AttemptInv
  BY DEF GrpcInv
<1>1. /\ proc' = [proc EXCEPT ![w] = NoProc] /\ proc[w].pc = "teardown"
      /\ core' = [core EXCEPT !.beat = @ \ {w}]
      /\ UNCHANGED <<job, ckpt, heard, faults, cutShort>>
  BY DEF Teardown
<1>2. core \in CoreRecord /\ proc[w].queue = <<>>
  BY <1>1, <1>a, ProcessHas DEF Proc, ProcOK
<1>3. core' \in CoreRecord /\ core'.st = core.st
  BY <1>1, <1>2 DEF CoreRecord
<1>4. Becomes(w, NoProc)
  BY <1>1, <1>3, <1>a, NoProcFits, ProcessHas DEF Becomes
<1>5. AttemptInv' /\ \A v \in Processes : proc'[v] = IF v = w THEN NoProc ELSE proc[v]
  BY <1>4, <1>a, ProcessStep
<1>6. ASSUME faults = 0 PROVE OneAttempt' /\ PausesTold'
  <2>1. OneAttempt /\ PausesTold
    BY <1>6 DEF GrpcInv
  <2>2. core'.st \notin {"pending", "running"}
    BY <1>1, <1>3, <2>1 DEF OneAttempt, Working
  <2>3. OneAttempt'
    BY <1>1, <1>5, <2>1, <2>2, NoProcFits, AttemptEnds
  <2>4. PausesTold'
    BY <1>1, <1>2, <1>5, <2>1, PausesStayTold
  <2> QED BY <2>3, <2>4
<1> QED BY <1>1, <1>5, <1>6 DEF GrpcInv

\* A process dies.
LEMMA DiesKeeps ==
  ASSUME GrpcInv, NEW w \in Processes, Dies(w)
  PROVE  GrpcInv'
<1>a. AttemptInv
  BY DEF GrpcInv
<1>1. /\ proc' = [proc EXCEPT ![w] = NoProc] /\ core' = [core EXCEPT !.beat = @ \ {w}]
      /\ faults < MaxFaults /\ faults' = faults + 1 /\ UNCHANGED <<job, ckpt, heard, cutShort>>
  BY DEF Dies
<1>2. core' \in CoreRecord /\ core'.st = core.st
  BY <1>1, <1>a, ProcessHas DEF CoreRecord
<1>3. Becomes(w, NoProc) /\ faults' # 0
  BY <1>1, <1>2, <1>a, NoProcFits, ProcessHas DEF Becomes
<1> QED BY <1>3, FaultKeeps

\* A cancellation reaches the Core server.
LEMMA RequestCancelKeeps ==
  ASSUME GrpcInv, NEW action \in {"interrupt", "rollback"}, RequestCancel(action)
  PROVE  GrpcInv'
<1>1. /\ UNCHANGED <<job, ckpt, heard, proc, faults, cutShort>>
      /\ \/ /\ core.st = "pending"
            /\ core' = [core EXCEPT !.st = IF action = "rollback" THEN "gone" ELSE "interrupted"]
         \/ core.st = "running" /\ core' = [core EXCEPT !.cancel = action]
  BY DEF RequestCancel
<1>2. core \in CoreRecord
  BY DEF GrpcInv, AttemptInv
<1>3. /\ core' \in CoreRecord /\ core'.beat = core.beat
      /\ \/ core.st = "pending" /\ core'.st \in {"gone", "interrupted"}
         \/ core.st = "running" /\ core'.st = "running"
  <2>1. CASE core.st = "pending"
    <3> DEFINE st == IF action = "rollback" THEN "gone" ELSE "interrupted"
    <3>1. st \in Final \cup {"pending", "running"} /\ st \in {"gone", "interrupted"}
      BY DEF Final
    <3>2. core' = [core EXCEPT !.st = st]
      BY <1>1, <2>1
    <3> HIDE DEF st
    <3> QED BY <1>2, <2>1, <3>1, <3>2 DEF CoreRecord
  <2>2. CASE core.st = "running"
    BY <1>1, <1>2, <2>2 DEF CoreRecord
  <2> QED BY <1>1, <2>1, <2>2
<1>4. AttemptInv'
  BY <1>1, <1>3 DEF GrpcInv, AttemptInv, ProcOK, SuccessIsComplete
<1>5. OneAttempt => OneAttempt'
  BY <1>1, <1>3 DEF OneAttempt
<1>6. PausesTold => PausesTold'
  BY <1>1 DEF PausesTold
<1> QED BY <1>1, <1>4, <1>5, <1>6 DEF GrpcInv

\* Without a fault the run is never queued again: its process keeps the heartbeat.
LEMMA SweepKeeps ==
  ASSUME GrpcInv, Sweep
  PROVE  GrpcInv'
<1>1. /\ core.st = "running" /\ core.beat = {} /\ \A w \in Processes : proc[w].pc # "enter"
      /\ core' = [core EXCEPT !.st = "pending"]
      /\ UNCHANGED <<job, ckpt, heard, proc, faults, cutShort>>
  BY DEF Sweep
<1>2. core' \in CoreRecord /\ core'.st = "pending"
  <2>1. core \in CoreRecord
    BY DEF GrpcInv, AttemptInv
  <2> QED BY <1>1, <2>1 DEF CoreRecord
<1>3. AttemptInv'
  BY <1>1, <1>2 DEF GrpcInv, AttemptInv, ProcOK, SuccessIsComplete
<1>4. ~ OneAttempt
  BY <1>1 DEF OneAttempt
<1> QED BY <1>1, <1>3, <1>4 DEF GrpcInv

\* The invariant holds in the beginning.
LEMMA GrpcStart == GrpcRunInit => GrpcInv
<1> SUFFICES ASSUME GrpcRunInit PROVE GrpcInv
  OBVIOUS
<1>1. job \in Jobs /\ Len(job.plan) \in Nat
  BY GrpcRunAssumption DEF GrpcRunInit
<1>2. core \in CoreRecord /\ core.st = "pending" /\ ckpt = 0 /\ faults = 0 /\ cutShort = FALSE
  BY DEF GrpcRunInit, CoreRecord, Final
<1>3. proc \in [Processes -> Proc] /\ \A w \in Processes : proc[w] = NoProc
  BY NoProcFits DEF GrpcRunInit
<1>4. ASSUME NEW w \in Processes PROVE ProcOK(proc[w], ckpt, cutShort)
  BY <1>2, <1>3, NoProcFits, GrpcRunAssumption DEF ProcOK
<1>5. AttemptInv
  <2>1. SuccessIsComplete
    BY <1>2 DEF SuccessIsComplete
  <2>2. ckpt \in 0..Len(job.plan) /\ faults \in 0..MaxFaults
    BY <1>1, <1>2, GrpcRunAssumption
  <2>3. cutShort \in BOOLEAN /\ ~ cutShort
    BY <1>2
  <2> QED BY <1>1, <1>2, <1>3, <1>4, <2>1, <2>2, <2>3 DEF AttemptInv
<1>6. OneAttempt
  BY <1>2, <1>3, NoProcFits DEF OneAttempt
<1>7. PausesTold
  BY <1>2 DEF PausesTold
<1> QED BY <1>5, <1>6, <1>7 DEF GrpcInv

\* Every step keeps the invariant.
LEMMA GrpcStep == GrpcInv /\ [GrpcRunNext]_grVars => GrpcInv'
<1> SUFFICES ASSUME GrpcInv, [GrpcRunNext]_grVars PROVE GrpcInv'
  OBVIOUS
<1>1. ASSUME NEW w \in Processes, ProcStep(w) PROVE GrpcInv'
  <2>1. CASE NextRun(w)
    BY <2>1, NextRunKeeps
  <2>2. CASE Enter(w)
    BY <2>2, EnterKeeps
  <2>3. CASE HearSignal(w)
    BY <2>3, HearSignalKeeps
  <2>4. CASE NextChunk(w)
    BY <2>4, NextChunkKeeps
  <2>5. CASE SkipChunk(w)
    BY <2>5, SkipChunkKeeps
  <2>6. CASE GraphEnds(w)
    BY <2>6, GraphEndsKeeps
  <2>7. CASE Aborted(w)
    BY <2>7, AbortedKeeps
  <2>8. CASE Publish(w)
    BY <2>8, PublishKeeps
  <2>9. CASE TellError(w)
    BY <2>9, TellErrorKeeps
  <2>10. CASE Drained(w)
    BY <2>10, DrainedKeeps
  <2>11. CASE Settle(w)
    BY <2>11, SettleKeeps
  <2>12. CASE MarkDone(w)
    BY <2>12, MarkDoneKeeps
  <2>13. CASE Teardown(w)
    BY <2>13, TeardownKeeps
  <2> QED BY <1>1, <2>1, <2>2, <2>3, <2>4, <2>5, <2>6, <2>7, <2>8, <2>9, <2>10, <2>11, <2>12, <2>13 DEF ProcStep
<1>2. ASSUME NEW w \in Processes, ProcFault(w) PROVE GrpcInv'
  <2>1. CASE StreamBreaks(w)
    BY <2>1, StreamBreaksKeeps
  <2>2. CASE StreamCloses(w)
    BY <2>2, StreamClosesKeeps
  <2>3. CASE PublishAgain(w)
    BY <2>3, PublishAgainKeeps
  <2>4. CASE PublishFails(w)
    BY <2>4, PublishFailsKeeps
  <2>5. CASE SettleFails(w)
    BY <2>5, SettleFailsKeeps
  <2>6. CASE Dies(w)
    BY <2>6, DiesKeeps
  <2>7. CASE \E exc \in {"error", "retry", "timeout", "cancelled"} : GraphRaises(w, exc)
    BY <2>7, GraphRaisesKeeps
  <2> QED BY <1>2, <2>1, <2>2, <2>3, <2>4, <2>5, <2>6, <2>7 DEF ProcFault
<1>3. ASSUME NEW action \in {"interrupt", "rollback"}, RequestCancel(action) PROVE GrpcInv'
  BY <1>3, RequestCancelKeeps
<1>4. CASE Sweep
  BY <1>4, SweepKeeps
<1>5. CASE UNCHANGED grVars
  <2>1. AttemptInv' = AttemptInv /\ OneAttempt' = OneAttempt /\ PausesTold' = PausesTold /\ faults' = faults
    BY <1>5 DEF grVars, AttemptInv, ProcOK, SuccessIsComplete, OneAttempt, PausesTold
  <2> QED BY <2>1 DEF GrpcInv
<1> QED BY <1>1, <1>2, <1>3, <1>4, <1>5 DEF GrpcRunNext

\* A successful run has been told of every pause.
LEMMA GrpcInvImplies == GrpcInv => SuccessIsComplete /\ PauseIsTold
<1> SUFFICES ASSUME GrpcInv PROVE SuccessIsComplete /\ PauseIsTold
  OBVIOUS
<1>1. SuccessIsComplete /\ AttemptInv
  BY DEF GrpcInv, AttemptInv
<1>2. ASSUME core.st = "success", faults = 0, NEW n \in 1..Len(job.plan), job.plan[n] = "pause"
      PROVE  Told(n, heard)
  <2>1. OneAttempt /\ PausesTold /\ ~ cutShort
    BY <1>1, <1>2 DEF GrpcInv, AttemptInv
  <2>2. n \in 1..ckpt
    BY <1>1, <1>2, <2>1 DEF SuccessIsComplete
  <2>3. \A w \in Processes : proc[w].queue = <<>>
    BY <1>1, <1>2, <2>1, ProcessHas DEF OneAttempt, ProcOK
  <2>4. \A w \in Processes : 1..Len(proc[w].queue) = {}
    BY <2>3
  <2> QED BY <1>2, <2>1, <2>2, <2>4 DEF PausesTold
<1> QED BY <1>1, <1>2 DEF PauseIsTold, Told

\* In focus, or standing still, the run behind gRPC takes its own steps.
LEMMA GrpcSteps == [Next]_serviceVars => [GrpcRunNext]_grVars
BY DEF Next, Others, serviceVars, grVars

\* A run behind gRPC is recorded as a success only when its graph came to the end, and
\* when no call failed its client was told of every pause.
THEOREM SuccessIsWholeAlways == Spec => []SuccessIsWhole
<1>1. Init => GrpcInv
  BY GrpcStart DEF Init
<1>2. GrpcInv /\ [Next]_serviceVars => GrpcInv'
  BY GrpcSteps, GrpcStep
<1>3. GrpcInv => SuccessIsWhole
  BY GrpcInvImplies DEF SuccessIsWhole
<1> QED BY <1>1, <1>2, <1>3, PTL DEF Spec

(***************************************************************************)
(* The types of the cache: one load under way at most                      *)
(***************************************************************************)
\* Callers that wait for the lock to write.
Lockers == {d \in Callers : caller[d].pc = "lock"}

\* Every caller that waits for the lock has its write to come.
WritersBound == IsFiniteSet(Lockers) /\ writes.begun + Cardinality(Lockers) <= MaxWrites

EntryBounds ==
  /\ cached.began <= writes.begun /\ cached.at <= MaxTicks /\ tick <= MaxTicks
  /\ \A t \in Loads : load[t].began <= writes.begun
  /\ swrState.epoch <= writes.begun

\* The state of the key knows the load that is under way, also while it reads again.
OneLoad ==
  /\ \A t \in Loads : load[t].pc \notin {"none", "done"} => swrState.task = t
  /\ \A t \in Loads : lockedBy = t => load[t].pc = "write"

CacheBounds == WritersBound /\ EntryBounds /\ OneLoad

\* The bounds hold at first.
LEMMA BoundsStart == SwrInit => CacheBounds
<1> SUFFICES ASSUME SwrInit PROVE CacheBounds
  OBVIOUS
<1>1. Lockers = {}
  BY DEF SwrInit, Lockers, NoCaller
<1>2. WritersBound
  BY <1>1, FS_EmptySet, SwrAssumption DEF SwrInit, WritersBound
<1>3. EntryBounds /\ OneLoad
  BY SwrAssumption, LoadNumbers DEF SwrInit, EntryBounds, OneLoad, NoEntry
<1> QED BY <1>2, <1>3 DEF CacheBounds

\* A caller that goes anywhere but to the lock.
LEMMA FewerLockers ==
  ASSUME CacheInv, WritersBound, NEW c \in Callers, NEW x, caller' = [caller EXCEPT ![c] = x],
         x.pc # "lock", writes'.begun = writes.begun
  PROVE  WritersBound'
<1>1. Lockers' \subseteq Lockers
  BY DEF Lockers, CacheInv, CacheTypes
<1>2. IsFiniteSet(Lockers') /\ Cardinality(Lockers') <= Cardinality(Lockers)
  BY <1>1, FS_Subset DEF WritersBound
<1>3. Cardinality(Lockers') \in Nat /\ Cardinality(Lockers) \in Nat /\ writes.begun \in Nat
  BY <1>2, FS_CardinalityType DEF WritersBound, CacheInv, CacheTypes
<1> QED BY <1>2, <1>3, SwrAssumption DEF WritersBound

\* The places a caller is sent to, by its new record.
LEMMA NewPlaces ==
  ASSUME NEW place, NEW k, NEW e
  PROVE  /\ [NoCaller EXCEPT !.pc = place].pc = place
         /\ [NoCaller EXCEPT !.pc = place, !.task = k].pc = place
         /\ [NoCaller EXCEPT !.pc = place, !.seen = e].pc = place
BY DEF NoCaller

\* Who comes to the lock was counted, who gets it begins his write.
LEMMA WritersStep ==
  ASSUME CacheInv, WritersBound, [SwrNext]_swrVars
  PROVE  WritersBound'
<1>1. ASSUME caller' = caller, writes' = writes PROVE WritersBound'
  BY <1>1 DEF WritersBound, Lockers
<1>2. ASSUME NEW c \in Callers, Lookup(c) \/ Resume(c) \/ CancelWaiter(c) PROVE WritersBound'
  <2>1. \E x : caller' = [caller EXCEPT ![c] = x] /\ x.pc # "lock"
    <3>1. CASE caller' = [caller EXCEPT ![c] = [NoCaller EXCEPT !.pc = "decide", !.seen = cached]]
      <4>1. [NoCaller EXCEPT !.pc = "decide", !.seen = cached].pc # "lock"
        BY NewPlaces
      <4> QED BY <3>1, <4>1
    <3>2. ASSUME NEW place \in {"held", "raised"}, caller' = [caller EXCEPT ![c] = [NoCaller EXCEPT !.pc = place]]
          PROVE  \E x : caller' = [caller EXCEPT ![c] = x] /\ x.pc # "lock"
      <4>1. [NoCaller EXCEPT !.pc = place].pc # "lock"
        BY NewPlaces
      <4> QED BY <3>2, <4>1
    <3> QED BY <1>2, <3>1, <3>2 DEF Lookup, Resume, CancelWaiter
  <2>2. writes'.begun = writes.begun
    BY <1>2 DEF Lookup, Resume, CancelWaiter
  <2> QED BY <2>1, <2>2, FewerLockers
<1>3. ASSUME NEW c \in Callers, NEW then \in {"held", "wait"}, EnsureLoad(c, then), writes' = writes
      PROVE  WritersBound'
  <2>1. PICK t \in Loads :
          caller' = [caller EXCEPT ![c] = [NoCaller EXCEPT !.pc = then, !.task = IF then = "wait" THEN t ELSE 0]]
    BY <1>3 DEF EnsureLoad
  <2> DEFINE k == IF then = "wait" THEN t ELSE 0
  <2>2. caller' = [caller EXCEPT ![c] = [NoCaller EXCEPT !.pc = then, !.task = k]]
    BY <2>1
  <2> HIDE DEF k
  <2>3. [NoCaller EXCEPT !.pc = then, !.task = k].pc # "lock"
    BY NewPlaces
  <2> QED BY <1>3, <2>2, <2>3, FewerLockers
<1>4. ASSUME NEW c \in Callers, Decide(c) \/ Revalidate(c) PROVE WritersBound'
  <2>1. writes' = writes
    BY <1>4 DEF Decide, Revalidate
  <2>2. \/ caller' = [caller EXCEPT ![c] = [NoCaller EXCEPT !.pc = "held"]]
        \/ EnsureLoad(c, "held") \/ EnsureLoad(c, "wait")
    <3>1. Status(caller[c].seen) \in {"miss", "fresh", "stale", "expired"}
      BY DEF Status
    <3> QED BY <1>4, <3>1 DEF Decide, Revalidate
  <2> QED BY <1>3, <2>1, <2>2, NewPlaces, FewerLockers
<1>5. ASSUME NEW c \in Callers, Mutate(c) PROVE WritersBound'
  <2>1. caller[c].pc = "held" /\ writes.begun + Cardinality(Lockers) < MaxWrites /\ writes' = writes
        /\ caller' = [caller EXCEPT ![c].pc = "lock"]
    BY <1>5 DEF Mutate, Lockers
  <2>2. Lockers' = Lockers \cup {c} /\ c \notin Lockers
    BY <2>1 DEF Lockers, CacheInv, CacheTypes, CallerType
  <2>3. IsFiniteSet(Lockers') /\ Cardinality(Lockers') = Cardinality(Lockers) + 1
    BY <2>2, FS_AddElement DEF WritersBound
  <2>4. Cardinality(Lockers) \in Nat /\ writes.begun \in Nat
    BY FS_CardinalityType DEF WritersBound, CacheInv, CacheTypes
  <2> QED BY <2>1, <2>3, <2>4, SwrAssumption DEF WritersBound
<1>6. ASSUME NEW c \in Callers, LockWrite(c) PROVE WritersBound'
  <2>1. caller[c].pc = "lock" /\ writes' = [writes EXCEPT !.begun = writes.begun + 1]
        /\ caller' = [caller EXCEPT ![c].pc = "write", ![c].n = writes.begun + 1]
    BY <1>6 DEF LockWrite
  <2>2. Lockers' = Lockers \ {c} /\ c \in Lockers
    BY <2>1 DEF Lockers, CacheInv, CacheTypes, CallerType
  <2>3. IsFiniteSet(Lockers') /\ Cardinality(Lockers') = Cardinality(Lockers) - 1
    BY <2>2, FS_RemoveElement DEF WritersBound
  <2>4. Cardinality(Lockers) \in Nat /\ writes.begun \in Nat /\ writes'.begun = writes.begun + 1
    BY <2>1, FS_CardinalityType DEF WritersBound, CacheInv, CacheTypes
  <2> QED BY <2>3, <2>4, SwrAssumption DEF WritersBound
<1>7. ASSUME NEW c \in Callers, Write(c) \/ CancelWriter(c) PROVE WritersBound'
  <2>1. PICK place \in {"held", "raised"} : caller' = [caller EXCEPT ![c] = [NoCaller EXCEPT !.pc = place]]
    BY <1>7 DEF Write, CancelWriter
  <2>2. writes' = writes \/ writes' = [writes EXCEPT !.stored = caller[c].n]
    BY <1>7 DEF Write, CancelWriter
  <2>3. writes'.begun = writes.begun
    BY <2>2 DEF CacheInv, CacheTypes
  <2> QED BY <2>1, <2>3, NewPlaces, FewerLockers
<1>8. ASSUME NEW t \in Loads, LoadStep(t) PROVE WritersBound'
  BY <1>1, <1>8 DEF LoadStep, LoaderReturns, LoaderFails, StoreLoaded, LoadWrites, Reread, LoadCallback
<1>9. CASE Evict \/ Tick
  BY <1>1, <1>9 DEF Evict, Tick
<1>10. CASE UNCHANGED swrVars
  BY <1>1, <1>10 DEF swrVars
<1> QED BY <1>2, <1>4, <1>5, <1>6, <1>7, <1>8, <1>9, <1>10 DEF SwrNext

\* What the state of the key may become, for its epoch: nothing, or what it was.
LEMMA CleanedEpoch ==
  ASSUME NEW state \in [epoch : Nat, task : {0} \cup Loads], NEW calls, NEW loads
  PROVE  Cleaned(state, calls, loads).epoch \in {0, state.epoch}
  BY DEF Cleaned

\* Whatever is stored began before now, and is stored now.
LEMMA EntryMoves ==
  ASSUME CacheTypes, CacheTypes', EntryBounds,
         tick' \in {tick, tick + 1}, tick' <= MaxTicks, writes.begun <= writes'.begun,
         \/ cached' \in {cached, NoEntry}
         \/ cached'.at = tick /\ cached'.began <= writes.begun,
         \A t \in Loads : load'[t].began \in {load[t].began, writes.begun},
         swrState'.epoch <= writes'.begun
  PROVE  EntryBounds'
<1>1. /\ writes.begun \in Nat /\ writes'.begun \in Nat /\ tick \in Nat /\ tick' \in Nat
      /\ cached.began \in Nat /\ cached'.began \in Nat
      /\ \A t \in Loads : load[t].began \in Nat /\ load'[t].began \in Nat
  BY DEF CacheTypes, Entry, Load
<1>2. cached'.began <= writes'.begun /\ cached'.at <= MaxTicks
  BY <1>1, SwrAssumption DEF EntryBounds, NoEntry
<1>3. \A t \in Loads : load'[t].began <= writes'.begun
  BY <1>1 DEF EntryBounds
<1> QED BY <1>2, <1>3 DEF EntryBounds

\* Every step of the cache is such a move.
LEMMA EntryStep ==
  ASSUME CacheInv, EntryBounds, [SwrNext]_swrVars
  PROVE  EntryBounds'
<1>1. CacheTypes /\ CacheTypes'
  BY CacheStep DEF CacheInv
<1>2. /\ writes.begun \in Nat /\ tick \in Nat /\ tick <= MaxTicks /\ swrState.epoch <= writes.begun
      /\ swrState.epoch \in Nat /\ swrState \in [epoch : Nat, task : {0} \cup Loads]
      /\ \A t \in Loads : load[t].began <= writes.begun
  BY <1>1 DEF CacheTypes, EntryBounds
<1>3. ASSUME UNCHANGED <<cached, swrState, load, writes, tick>> PROVE EntryBounds'
  BY <1>3 DEF EntryBounds
<1>4. ASSUME NEW c \in Callers, NEW then \in {"held", "wait"}, EnsureLoad(c, then),
             UNCHANGED <<cached, writes, tick>>
      PROVE  EntryBounds'
  <2>1. PICK t \in Loads :
          /\ swrState' = [swrState EXCEPT !.task = t]
          /\ \/ load' = load
             \/ load' = [load EXCEPT ![t] = [pc |-> "loading", epoch |-> swrState.epoch,
                                             began |-> writes.begun, ok |-> TRUE]]
    BY <1>4 DEF EnsureLoad
  <2>2. swrState'.epoch = swrState.epoch
    BY <1>1, <2>1 DEF CacheTypes
  <2>3. \A u \in Loads : load'[u].began \in {load[u].began, writes.begun}
    BY <1>1, <2>1 DEF CacheTypes
  <2> QED BY <1>1, <1>2, <1>4, <2>2, <2>3, EntryMoves
<1>5. ASSUME NEW c \in Callers, Lookup(c) \/ Resume(c) \/ Mutate(c) PROVE EntryBounds'
  BY <1>3, <1>5 DEF Lookup, Resume, Mutate
<1>6. ASSUME NEW c \in Callers, Decide(c) \/ Revalidate(c) PROVE EntryBounds'
  <2>1. UNCHANGED <<cached, writes, tick>>
    BY <1>6 DEF Decide, Revalidate
  <2>2. UNCHANGED <<load, swrState>> \/ EnsureLoad(c, "held") \/ EnsureLoad(c, "wait")
    <3>1. Status(caller[c].seen) \in {"miss", "fresh", "stale", "expired"}
      BY DEF Status
    <3> QED BY <1>6, <3>1 DEF Decide, Revalidate
  <2> QED BY <1>3, <1>4, <2>1, <2>2
<1>7. ASSUME NEW c \in Callers, LockWrite(c) PROVE EntryBounds'
  <2>1. /\ writes' = [writes EXCEPT !.begun = writes.begun + 1]
        /\ swrState' = [swrState EXCEPT !.epoch = swrState.epoch + 1]
        /\ UNCHANGED <<cached, load, tick>>
    BY <1>7 DEF LockWrite
  <2>2. writes'.begun = writes.begun + 1 /\ swrState'.epoch = swrState.epoch + 1
    BY <1>1, <2>1 DEF CacheTypes
  <2>3. writes.begun <= writes'.begun /\ swrState'.epoch <= writes'.begun
    BY <1>2, <2>2
  <2> QED BY <1>1, <1>2, <2>1, <2>3, EntryMoves
<1>8. ASSUME NEW c \in Callers, Write(c) \/ CancelWriter(c) PROVE EntryBounds'
  <2>1. /\ swrState' = Cleaned(swrState, caller', load) /\ UNCHANGED <<load, tick>>
        /\ writes' \in {writes, [writes EXCEPT !.stored = caller[c].n]}
        /\ cached' \in {cached, [by |-> "write", began |-> 0, at |-> tick]}
    BY <1>8 DEF Write, CancelWriter
  <2>2. swrState'.epoch \in {0, swrState.epoch}
    BY <1>2, <2>1, CleanedEpoch
  <2>3. writes'.begun = writes.begun
    BY <1>1, <2>1 DEF CacheTypes
  <2>4. cached' = cached \/ (cached'.at = tick /\ cached'.began = 0)
    BY <2>1
  <2>5. 0 <= writes.begun /\ swrState'.epoch <= writes'.begun /\ writes.begun <= writes'.begun
    BY <1>2, <2>2, <2>3
  <2> QED BY <1>1, <1>2, <2>1, <2>4, <2>5, EntryMoves
<1>9. ASSUME NEW t \in Loads, NEW place \in LoadPlaces,
             \/ load' = [load EXCEPT ![t].pc = place]
             \/ load' = [load EXCEPT ![t].pc = place, ![t].ok = FALSE],
             cached' = cached \/ cached' = [by |-> "load", began |-> load[t].began, at |-> tick],
             swrState'.epoch \in {0, swrState.epoch}, UNCHANGED <<writes, tick>>
      PROVE  EntryBounds'
  <2>1. \A u \in Loads : load'[u].began = load[u].began
    BY <1>1, <1>9, LoadMoves
  <2>2. swrState'.epoch <= writes'.begun /\ writes.begun <= writes'.begun
    BY <1>2, <1>9
  <2>3. cached' = cached \/ (cached'.at = tick /\ cached'.began <= writes.begun)
    BY <1>2, <1>9
  <2> QED BY <1>1, <1>2, <1>9, <2>1, <2>2, <2>3, EntryMoves
<1>10. ASSUME NEW c \in Callers, CancelWaiter(c) PROVE EntryBounds'
  <2> DEFINE t == caller[c].task
  <2>1. /\ t \in Loads /\ load' = [load EXCEPT ![t].pc = "done", ![t].ok = FALSE]
        /\ cached' = cached \/ cached' = [by |-> "load", began |-> load[t].began, at |-> tick]
        /\ UNCHANGED <<swrState, writes, tick>>
    BY <1>1, <1>10 DEF CancelWaiter, CacheTypes
  <2> HIDE DEF t
  <2> QED BY <1>9, <2>1 DEF LoadPlaces
<1>11. ASSUME NEW t \in Loads, LoadStep(t) PROVE EntryBounds'
  <2>1. CASE LoadCallback(t)
    <3>1. /\ swrState' = Cleaned([swrState EXCEPT !.task = 0], caller, load)
          /\ UNCHANGED <<cached, load, writes, tick>>
      BY <2>1 DEF LoadCallback
    <3>2. [swrState EXCEPT !.task = 0] \in [epoch : Nat, task : {0} \cup Loads]
          /\ [swrState EXCEPT !.task = 0].epoch = swrState.epoch
      BY <1>2
    <3>3. swrState'.epoch \in {0, swrState.epoch}
      BY <3>1, <3>2, CleanedEpoch
    <3>4. swrState'.epoch <= writes'.begun /\ writes.begun <= writes'.begun
      BY <1>2, <3>1, <3>3
    <3> QED BY <1>1, <1>2, <3>1, <3>4, EntryMoves
  <2>2. CASE LoaderReturns(t) \/ LoaderFails(t) \/ Reread(t)
    <3>1. PICK place \in LoadPlaces : \/ load' = [load EXCEPT ![t].pc = place]
                                      \/ load' = [load EXCEPT ![t].pc = place, ![t].ok = FALSE]
      BY <2>2 DEF LoaderReturns, LoaderFails, Reread, LoadPlaces
    <3>2. UNCHANGED <<cached, swrState, writes, tick>>
      BY <2>2 DEF LoaderReturns, LoaderFails, Reread
    <3> QED BY <1>9, <3>1, <3>2
  <2>3. CASE StoreLoaded(t) \/ LoadWrites(t)
    <3>1. PICK place \in LoadPlaces : load' = [load EXCEPT ![t].pc = place]
      BY <2>3 DEF StoreLoaded, LoadWrites, LoadPlaces
    <3>2. /\ swrState' = Cleaned(swrState, caller, load') /\ UNCHANGED <<writes, tick>>
          /\ cached' = cached \/ cached' = [by |-> "load", began |-> load[t].began, at |-> tick]
      BY <2>3 DEF StoreLoaded, LoadWrites
    <3>3. swrState'.epoch \in {0, swrState.epoch}
      BY <1>2, <3>2, CleanedEpoch
    <3> QED BY <1>9, <3>1, <3>2, <3>3
  <2> QED BY <1>11, <2>1, <2>2, <2>3 DEF LoadStep
<1>12. CASE Evict \/ Tick
  <2>1. UNCHANGED <<swrState, load, writes>> /\ tick' \in {tick, tick + 1} /\ cached' \in {cached, NoEntry}
    BY <1>12 DEF Evict, Tick
  <2>2. tick' <= MaxTicks
    BY <1>2, <1>12, SwrAssumption DEF Evict, Tick
  <2>3. swrState'.epoch <= writes'.begun /\ writes.begun <= writes'.begun
    BY <1>2, <2>1
  <2> QED BY <1>1, <2>1, <2>2, <2>3, EntryMoves
<1>13. CASE UNCHANGED swrVars
  BY <1>3, <1>13 DEF swrVars
<1> QED BY <1>5, <1>6, <1>7, <1>8, <1>10, <1>11, <1>12, <1>13 DEF SwrNext

\* One load moves, the lock with it: it holds the lock only while it writes.
LEMMA LoadAlone ==
  ASSUME CacheInv, OneLoad, NEW t \in Loads, NEW place \in LoadPlaces \ {"none", "loading"},
         \/ load' = [load EXCEPT ![t].pc = place]
         \/ load' = [load EXCEPT ![t].pc = place, ![t].ok = FALSE],
         swrState' = swrState, place = "done" \/ load[t].pc \notin {"none", "done"},
         lockedBy' = IF place = "write" THEN t ELSE IF lockedBy = t THEN 0 ELSE lockedBy
  PROVE  OneLoad'
<1>1. load'[t].pc = place /\ \A u \in Loads : u # t => load'[u].pc = load[u].pc
  BY LoadMoves DEF CacheInv
<1>2. \A u \in Loads : load'[u].pc \notin {"none", "done"} => swrState'.task = u
  BY <1>1 DEF OneLoad
<1>3. \A u \in Loads : lockedBy' = u => load'[u].pc = "write"
  BY <1>1, LoadNumbers DEF OneLoad
<1> QED BY <1>2, <1>3 DEF OneLoad

\* A load is started only where the state knows of none.
LEMMA OneLoadStep ==
  ASSUME CacheInv, OneLoad, [SwrNext]_swrVars
  PROVE  OneLoad'
<1>1. CacheTypes
  BY DEF CacheInv
<1>2. ASSUME UNCHANGED <<swrState, load, lockedBy>> PROVE OneLoad'
  BY <1>2 DEF OneLoad
<1>3. ASSUME NEW c \in Callers, NEW then \in {"held", "wait"}, EnsureLoad(c, then), lockedBy' = lockedBy
      PROVE  OneLoad'
  <2>1. PICK t \in Loads :
          /\ swrState' = [swrState EXCEPT !.task = t]
          /\ \/ t = swrState.task /\ load' = load
             \/ /\ swrState.task = 0 \/ load[swrState.task].pc = "done"
                /\ load[t].pc = "none"
                /\ load' = [load EXCEPT ![t] = [pc |-> "loading", epoch |-> swrState.epoch,
                                               began |-> writes.begun, ok |-> TRUE]]
    BY <1>3 DEF EnsureLoad
  <2>2. swrState'.task = t
    BY <1>1, <2>1 DEF CacheTypes
  <2>3. CASE t = swrState.task /\ load' = load
    BY <1>3, <2>2, <2>3 DEF OneLoad
  <2>4. CASE ~ (t = swrState.task /\ load' = load)
    <3>1. \A u \in Loads : load[u].pc \in {"none", "done"}
      BY <2>1, <2>4, LoadNumbers DEF OneLoad
    <3>2. \A u \in Loads : u # t => load'[u] = load[u]
      BY <1>1, <2>1, <2>4 DEF CacheTypes
    <3> QED BY <1>3, <2>2, <3>1, <3>2 DEF OneLoad
  <2> QED BY <2>3, <2>4
<1>4. ASSUME NEW c \in Callers, Lookup(c) \/ Resume(c) \/ Mutate(c) PROVE OneLoad'
  BY <1>2, <1>4 DEF Lookup, Resume, Mutate
<1>5. ASSUME NEW c \in Callers, Decide(c) \/ Revalidate(c) PROVE OneLoad'
  <2>1. lockedBy' = lockedBy
    BY <1>5 DEF Decide, Revalidate
  <2>2. UNCHANGED <<load, swrState>> \/ EnsureLoad(c, "held") \/ EnsureLoad(c, "wait")
    <3>1. Status(caller[c].seen) \in {"miss", "fresh", "stale", "expired"}
      BY DEF Status
    <3> QED BY <1>5, <3>1 DEF Decide, Revalidate
  <2> QED BY <1>2, <1>3, <2>1, <2>2
<1>6. ASSUME NEW c \in Callers, LockWrite(c) \/ Write(c) \/ CancelWriter(c) PROVE OneLoad'
  <2>1. load' = load
    BY <1>6 DEF LockWrite, Write, CancelWriter
  <2>2. swrState'.task = swrState.task
    <3>1. swrState' \in {[swrState EXCEPT !.epoch = swrState.epoch + 1], Cleaned(swrState, caller', load)}
      BY <1>6 DEF LockWrite, Write, CancelWriter
    <3> QED BY <1>1, <3>1, CleanedKeeps DEF CacheTypes
  <2>3. lockedBy' \in {0, 0 - 1, lockedBy}
    BY <1>6 DEF LockWrite, Write, CancelWriter
  <2> QED BY <2>1, <2>2, <2>3, LoadNumbers DEF OneLoad
<1>7. ASSUME NEW c \in Callers, CancelWaiter(c) PROVE OneLoad'
  <2> DEFINE t == caller[c].task
  <2>1. /\ t \in Loads /\ load' = [load EXCEPT ![t].pc = "done", ![t].ok = FALSE]
        /\ lockedBy' = IF lockedBy = t THEN 0 ELSE lockedBy
        /\ swrState' = swrState
    BY <1>1, <1>7 DEF CancelWaiter, CacheTypes
  <2> HIDE DEF t
  <2> QED BY <2>1, LoadAlone DEF LoadPlaces
<1>8. ASSUME NEW t \in Loads, LoadStep(t) PROVE OneLoad'
  <2>1. CASE LoadCallback(t)
    <3>1. /\ load[t].pc = "done" /\ swrState.task = t /\ UNCHANGED <<load, lockedBy>>
      BY <2>1 DEF LoadCallback
    <3>2. \A u \in Loads : load[u].pc \in {"none", "done"}
      BY <3>1 DEF OneLoad
    <3> QED BY <3>1, <3>2 DEF OneLoad
  <2>2. CASE LoaderReturns(t) \/ LoaderFails(t) \/ Reread(t)
    <3>1. PICK place \in {"lock", "done"} : \/ load' = [load EXCEPT ![t].pc = place]
                                            \/ load' = [load EXCEPT ![t].pc = place, ![t].ok = FALSE]
      BY <2>2 DEF LoaderReturns, LoaderFails, Reread
    <3>2. UNCHANGED <<swrState, lockedBy>> /\ load[t].pc \in {"loading", "reread"}
      BY <2>2 DEF LoaderReturns, LoaderFails, Reread
    <3>3. lockedBy # t
      BY <3>2 DEF OneLoad
    <3> QED BY <3>1, <3>2, <3>3, LoadAlone DEF LoadPlaces
  <2>3. CASE StoreLoaded(t) \/ LoadWrites(t)
    <3>1. /\ load[t].pc \in {"lock", "write"} /\ swrState' = Cleaned(swrState, caller, load')
          /\ lockedBy = 0 \/ lockedBy = t
          /\ \/ load' = [load EXCEPT ![t].pc = "write"] /\ lockedBy' = t
             \/ \E place \in {"reread", "done"} : load' = [load EXCEPT ![t].pc = place] /\ lockedBy' = 0
      BY <2>3 DEF StoreLoaded, LoadWrites, CacheInv, LockInv
    <3>2. swrState.task = t /\ swrState' = swrState
      BY <1>1, <3>1, LoadNumbers, CleanedKeeps DEF OneLoad, CacheTypes
    <3> QED BY <3>1, <3>2, LoadAlone DEF LoadPlaces
  <2> QED BY <1>8, <2>1, <2>2, <2>3 DEF LoadStep
<1>9. CASE Evict \/ Tick
  BY <1>2, <1>9 DEF Evict, Tick
<1>10. CASE UNCHANGED swrVars
  BY <1>2, <1>10 DEF swrVars
<1> QED BY <1>4, <1>5, <1>6, <1>7, <1>8, <1>9, <1>10 DEF SwrNext

\* The three bounds together.
LEMMA BoundsStep == CacheInv /\ CacheBounds /\ [SwrNext]_swrVars => CacheBounds'
  BY WritersStep, EntryStep, OneLoadStep DEF CacheBounds

\* They give the type of the cache: the loads under way are the one the state knows.
LEMMA CacheTyped == CacheInv /\ CacheBounds => SwrTypeOK
<1> SUFFICES ASSUME CacheInv, CacheBounds PROVE SwrTypeOK
  OBVIOUS
<1> DEFINE open == {t \in Loads : load[t].pc \notin {"none", "done"}}
<1>1. Cardinality(Lockers) \in Nat /\ writes.begun \in Nat /\ writes.begun + Cardinality(Lockers) <= MaxWrites
  BY FS_CardinalityType DEF CacheBounds, WritersBound, CacheInv, CacheTypes
<1>2. writes.begun <= MaxWrites
  BY <1>1, SwrAssumption
<1>3. cached \in [by : {"none", "load", "write"}, began : 0..MaxWrites, at : 0..MaxTicks]
  <2>1. cached \in Entry /\ cached.began <= writes.begun /\ cached.at <= MaxTicks
    BY DEF CacheInv, CacheTypes, CacheBounds, EntryBounds
  <2>2. cached.began \in 0..MaxWrites /\ cached.at \in 0..MaxTicks
    BY <1>1, <1>2, <2>1, SwrAssumption DEF Entry
  <2> QED BY <2>1, <2>2 DEF Entry
<1>4. swrState \in [epoch : 0..MaxWrites, task : 0..NLoads]
  <2>1. swrState \in [epoch : Nat, task : {0} \cup Loads] /\ swrState.epoch <= writes.begun
    BY DEF CacheInv, CacheTypes, CacheBounds, EntryBounds
  <2>2. swrState.epoch \in 0..MaxWrites /\ swrState.task \in 0..NLoads
    BY <1>1, <1>2, <2>1, SwrAssumption DEF Loads
  <2> QED BY <2>1, <2>2
<1>5. Cardinality(open) <= 1
  <2>1. open \subseteq {swrState.task}
    BY DEF CacheBounds, OneLoad
  <2> HIDE DEF open
  <2>2. IsFiniteSet({swrState.task}) /\ Cardinality({swrState.task}) = 1
    BY FS_Singleton
  <2> QED BY <2>1, <2>2, FS_Subset
<1>6. \A t \in Loads : load[t].pc = "write" <=> lockedBy = t
  BY DEF CacheInv, LockInv, CacheBounds, OneLoad
<1> QED BY <1>3, <1>4, <1>5, <1>6 DEF SwrTypeOK

(***************************************************************************)
(* The types of the queue, of the JavaScript processes and of the run      *)
(***************************************************************************)
\* A worker counts the tasks it has started, each for an entry of its own.
Begun == {r \in Tooled : executed[r] # 0}

QueueRest ==
  /\ rows \in [PgRuns -> {"absent", "pending", "interrupted"}]
  /\ joiners \in [Joiners -> [at : {"out", "asking", "joined", "cancelling", "gone"}, run : PgRuns]]
  /\ crashes \in 0..MaxCrashes
  /\ \A w \in Workers : workers[w].active <= Cardinality(Begun)

\* No worker has begun a task at first.
LEMMA QueueRestStart == PgQueueInit => QueueRest
<1> SUFFICES ASSUME PgQueueInit PROVE QueueRest
  OBVIOUS
<1>1. Cardinality(Begun) \in Nat
  BY PgQueueAssumption, FS_Subset, FS_CardinalityType DEF Begun
<1>2. \A w \in Workers : workers[w].active = 0
  BY DEF PgQueueInit, NewWorker
<1> QED BY <1>1, <1>2, PgQueueAssumption DEF PgQueueInit, QueueRest

\* A task is begun for an entry that was not executed, so what was begun grows with it.
LEMMA QueueRestStep ==
  ASSUME QueueInv, QueueRest, [PgQueueNext]_pgQueueVars
  PROVE  QueueRest'
<1>1. /\ workers \in [Workers -> Worker] /\ executed \in [Tooled -> Nat]
      /\ IsFiniteSet(Begun) /\ Cardinality(Begun) \in Nat
  BY PgQueueAssumption, FS_Subset, FS_CardinalityType DEF Begun, QueueInv, QueueTypes
<1>2. ASSUME executed' = executed, \A w \in Workers : workers'[w].active \in {0, workers[w].active},
             UNCHANGED <<rows, joiners>>, crashes' \in 0..MaxCrashes
      PROVE  QueueRest'
  <2>1. Begun' = Begun
    BY <1>2 DEF Begun
  <2> QED BY <1>1, <1>2, <2>1 DEF QueueRest
<1>3. ASSUME UNCHANGED <<workers, executed, crashes>>,
             rows' \in [PgRuns -> {"absent", "pending", "interrupted"}],
             joiners' \in [Joiners -> [at : {"out", "asking", "joined", "cancelling", "gone"}, run : PgRuns]]
      PROVE  QueueRest'
  BY <1>3 DEF QueueRest, Begun
<1>4. ASSUME NEW r \in PgRuns, PgSubmitRun(r) PROVE QueueRest'
  BY <1>3, <1>4 DEF PgSubmitRun, QueueRest
<1>5. ASSUME NEW r \in Tooled, EnqueueRun(r) PROVE QueueRest'
  BY <1>3, <1>5 DEF EnqueueRun, QueueRest
<1>6. ASSUME NEW w \in Workers, ReadGroup(w) PROVE QueueRest'
  <2>1. PICK q : workers' = [workers EXCEPT ![w].batch = q]
    BY <1>6 DEF ReadGroup
  <2>2. UNCHANGED <<rows, joiners, executed, crashes>>
    BY <1>6 DEF ReadGroup
  <2>3. \A v \in Workers : workers'[v].active = workers[v].active
    BY <1>1, <2>1 DEF Worker
  <2> QED BY <1>2, <2>2, <2>3 DEF QueueRest
<1>7. ASSUME NEW w \in Workers, NEW e \in Tooled, EndTask(w, e) PROVE QueueRest'
  <2>1. workers' = [workers EXCEPT ![w].permits = workers[w].permits + 1, ![w].tasks = workers[w].tasks \ {e}]
        /\ UNCHANGED <<rows, joiners, executed, crashes>>
    BY <1>7 DEF EndTask
  <2>2. \A v \in Workers : workers'[v].active = workers[v].active
    BY <1>1, <2>1 DEF Worker
  <2> QED BY <1>2, <2>1, <2>2 DEF QueueRest
<1>8. ASSUME NEW w \in Workers, StartTask(w) PROVE QueueRest'
  <2> DEFINE e == Head(workers[w].batch)
  <2>1. /\ workers' = [workers EXCEPT ![w].batch = Tail(workers[w].batch), ![w].permits = workers[w].permits - 1,
                                      ![w].tasks = workers[w].tasks \cup {e},
                                      ![w].active = workers[w].active + 1]
        /\ executed' = [executed EXCEPT ![e] = executed[e] + 1]
        /\ workers[w].batch # <<>> /\ UNCHANGED <<rows, joiners, crashes>>
    BY <1>8 DEF StartTask
  <2>2. workers[w].batch \in Seq(Tooled)
    BY <1>1 DEF Worker
  <2>3. e \in Tooled /\ 1 \in 1..Len(workers[w].batch) /\ e = workers[w].batch[1]
    BY <2>1, <2>2
  <2>4. executed[e] = 0
    BY <2>3 DEF QueueInv, OnceInv
  <2> HIDE DEF e
  <2>5. Begun' = Begun \cup {e} /\ e \notin Begun
    BY <1>1, <2>1, <2>3, <2>4 DEF Begun
  <2>6. Cardinality(Begun') = Cardinality(Begun) + 1
    BY <1>1, <2>5, FS_AddElement
  <2>7. \A v \in Workers : /\ workers[v].active \in Nat /\ workers[v].active <= Cardinality(Begun)
                           /\ workers'[v].active \in {workers[v].active, workers[v].active + 1}
    BY <1>1, <2>1 DEF Worker, QueueRest
  <2>8. \A v \in Workers : workers'[v].active <= Cardinality(Begun')
    BY <1>1, <2>6, <2>7
  <2> QED BY <2>1, <2>8 DEF QueueRest
<1>9. ASSUME NEW w \in Workers, SweepStaleWorkers(w) PROVE QueueRest'
  BY <1>3, <1>9 DEF SweepStaleWorkers, QueueRest
<1>10. ASSUME NEW w \in Workers, CrashWorker(w) PROVE QueueRest'
  <2>1. /\ workers' = [workers EXCEPT ![w] = NoWorker] /\ UNCHANGED <<rows, joiners, executed>>
        /\ crashes < MaxCrashes /\ crashes' = crashes + 1
    BY <1>10 DEF CrashWorker
  <2>2. \A v \in Workers : workers'[v].active \in {0, workers[v].active}
    BY <1>1, <2>1 DEF NoWorker, NewWorker
  <2>3. crashes' \in 0..MaxCrashes
    BY <2>1, PgQueueAssumption DEF QueueRest
  <2> QED BY <1>2, <2>1, <2>2, <2>3
<1>11. ASSUME NEW j \in Joiners, NEW at \in {"asking", "joined", "cancelling", "gone"}, Moves(j, at),
              UNCHANGED <<workers, executed, crashes>>,
              rows' = rows \/ \E r \in PgRuns : rows' = [rows EXCEPT ![r] = IF @ = "pending" THEN "interrupted" ELSE @]
       PROVE  QueueRest'
  <2>1. joiners' \in [Joiners -> [at : {"out", "asking", "joined", "cancelling", "gone"}, run : PgRuns]]
    BY <1>11 DEF Moves, QueueRest
  <2>2. rows' \in [PgRuns -> {"absent", "pending", "interrupted"}]
    BY <1>11 DEF QueueRest
  <2> QED BY <1>3, <1>11, <2>1, <2>2
<1>12. ASSUME NEW j \in Joiners, JoinStream(j) \/ Serve(j) \/ LeaveStream(j) PROVE QueueRest'
  <2>1. joiners[j].run \in PgRuns
    BY DEF QueueRest
  <2>2. PICK at \in {"asking", "joined", "cancelling", "gone"} : Moves(j, at)
    BY <1>12 DEF JoinStream, Serve, GetConnection, PollStatus, CancelOnDisconnect, LeaveStream
  <2>3. /\ UNCHANGED <<workers, executed, crashes>>
        /\ rows' = rows \/ rows' = [rows EXCEPT ![joiners[j].run] = IF @ = "pending" THEN "interrupted" ELSE @]
    BY <1>12 DEF JoinStream, Serve, GetConnection, PollStatus, CancelOnDisconnect, LeaveStream
  <2> QED BY <1>11, <2>1, <2>2, <2>3
<1>13. CASE UNCHANGED pgQueueVars
  BY <1>3, <1>13 DEF pgQueueVars, QueueRest
<1> QED BY <1>4, <1>5, <1>6, <1>7, <1>8, <1>9, <1>10, <1>12, <1>13 DEF PgQueueNext, Consume

\* The type of the queue.
LEMMA QueueTyped == QueueInv /\ QueueRest => PgQueueTypeOK
<1> SUFFICES ASSUME QueueInv, QueueRest PROVE PgQueueTypeOK
  OBVIOUS
<1>1. IsFiniteSet(Begun) /\ Cardinality(Begun) <= Cardinality(Tooled)
  BY PgQueueAssumption, FS_Subset DEF Begun
<1>2. Cardinality(Begun) \in Nat /\ Cardinality(Tooled) \in Nat
  BY <1>1, PgQueueAssumption, FS_CardinalityType
<1>3. \A w \in Workers : /\ workers[w].permits \in Nat /\ workers[w].active \in Nat
                         /\ workers[w].tasks \subseteq Tooled /\ workers[w].active <= Cardinality(Begun)
  BY DEF QueueInv, QueueTypes, Worker, QueueRest
<1>4. \A w \in Workers : workers[w].active <= Cardinality(Tooled)
  BY <1>1, <1>2, <1>3
<1> QED BY <1>3, <1>4 DEF QueueInv, QueueTypes, QueueRest, PgQueueTypeOK

\* The JavaScript processes: their type is inductive.
LEMMA SidecarStart == SidecarInit => SidecarTypeOK
  BY DEF SidecarInit, SidecarTypeOK

\* A fourth exit ends the task, so the attempts stay within three.
LEMMA SidecarStep == SidecarTypeOK /\ [SidecarNext]_sidecarVars => SidecarTypeOK'
<1> SUFFICES ASSUME SidecarTypeOK, [SidecarNext]_sidecarVars PROVE SidecarTypeOK'
  OBVIOUS
<1> USE DEF SidecarTypeOK, Tasks, Done
<1>1. ASSUME NEW p \in Sidecars, StartProcess(p) \/ ProcessUp(p) \/ Hang(p) PROVE SidecarTypeOK'
  BY <1>1 DEF StartProcess, ProcessUp, Hang
<1>2. ASSUME NEW p \in Sidecars, ProcessExits(p) PROVE SidecarTypeOK'
  <2>1. AfterExit(p).st \in {"running", "failed"} /\ AfterExit(p).attempt \in 0..3
    BY DEF AfterExit
  <2> QED BY <1>2, <2>1 DEF ProcessExits
<1>3. ASSUME NEW t \in Tasks, HandleException(t) \/ TaskCancelled(t) PROVE SidecarTypeOK'
  BY <1>3 DEF HandleException, TaskCancelled
<1>4. CASE CheckpointerListens
  BY <1>4 DEF CheckpointerListens
<1>5. CASE Wait \/ StopRemoteGraphs
  BY <1>5 DEF Wait, WaitFails, WaitEnds, WaitAgain, StopRemoteGraphs
<1>6. ASSUME NEW c \in Calls, BeginCall(c) \/ AnswerCall(c) \/ BreakCall(c) PROVE SidecarTypeOK'
  BY <1>6 DEF BeginCall, AnswerCall, BreakCall
<1>7. CASE UNCHANGED sidecarVars
  BY <1>7 DEF sidecarVars
<1> QED BY <1>1, <1>2, <1>3, <1>4, <1>5, <1>6, <1>7 DEF SidecarNext

\* The type of the run behind gRPC is part of what holds of every attempt.
LEMMA GrpcTyped == GrpcInv => GrpcRunTypeOK
  BY DEF GrpcInv, AttemptInv, CoreRecord, Proc, ProcOK, GrpcRunTypeOK

\* What all these invariants say together.
ServiceInv == QueueInv /\ QueueRest /\ LifeInv /\ CacheInv /\ CacheBounds /\ GrpcInv /\ SidecarTypeOK

\* It holds at first, ...
LEMMA ServiceStart == Init => ServiceInv
  BY QueueStart, QueueRestStart, LifeStart, CacheStart, BoundsStart, GrpcStart, SidecarStart DEF Init, ServiceInv

\* ... is kept by every step ...
LEMMA ServiceStep == ServiceInv /\ [Next]_serviceVars => ServiceInv'
<1> SUFFICES ASSUME ServiceInv, [Next]_serviceVars PROVE ServiceInv'
  OBVIOUS
<1>1. QueueInv' /\ LifeInv' /\ CacheInv' /\ GrpcInv'
  BY QueueStep, LifeStep, CacheStep, GrpcStep, GrpcSteps, StepsOfComponents DEF ServiceInv
<1>2. QueueRest' /\ CacheBounds' /\ SidecarTypeOK'
  BY QueueRestStep, BoundsStep, SidecarStep, StepsOfComponents DEF ServiceInv
<1> QED BY <1>1, <1>2 DEF ServiceInv

\* ... and gives the types.
LEMMA ServiceTypes ==
  ServiceInv => PgQueueTypeOK /\ GrpcRunTypeOK /\ ServerTypeOK /\ SwrTypeOK /\ SidecarTypeOK
  BY QueueTyped, GrpcTyped, CacheTyped DEF ServiceInv, LifeInv
=============================================================================
