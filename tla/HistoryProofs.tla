--------------------------- MODULE HistoryProofs ----------------------------
(***************************************************************************)
(* What MCRecords promises of records over time, for every value of the    *)
(* constants: of the checkpoints of a thread and what its runs and updates *)
(* know of them, of the dates of crons in both runtimes, and of the pages  *)
(* of a listing while rows move.  Each has an invariant of its own.        *)
(***************************************************************************)
EXTENDS RecordsProofs

(***************************************************************************)
(* The state of a thread                                                   *)
(***************************************************************************)
\* The ids of the checkpoints that u sees.
Seen(u) == {c.id : c \in {d \in saved : d.open \in {NoOne, u}}}

\* The records of threads, checkpoints, runs and updates, when n is the newest id.
ThreadRecords(n) ==
  [there : BOOLEAN, status : {"idle", "busy", "interrupted"}, shown : 0..n, graph : BOOLEAN]
Checkpoints(n) == [id : 1..n, next : BOOLEAN, open : {NoOne} \cup Updates]
RunRecords(n) ==
  [st : {"new", "pending", "running", "interrupted", "success", "gone"}, worker : BOOLEAN, at : 0..n]
UpdateRecords(n) ==
  [pc : {"idle", "prefetch", "update", "read", "set", "done"}, kind : {"none", "post", "bulk"},
   base : 0..n, read : 0..n]

StateTypes ==
  /\ lastId \in 0..MaxCheckpoints
  /\ thread \in ThreadRecords(lastId)
  /\ saved \in SUBSET Checkpoints(lastId)
  /\ trun \in [StateRuns -> RunRecords(lastId)]
  /\ update \in [Updates -> UpdateRecords(lastId)]

\* A run in flight has a thread, which is busy; one run is running at a time, and where
\* none was cancelled or dropped, a worker is that of the running run.
RunsInv ==
  /\ InflightRuns # {} => thread.there /\ thread.status = "busy"
  /\ \A q, r \in StateRuns : trun[q].st = "running" /\ trun[r].st = "running" => q = r
  /\ raced \cap {"late", "drop"} = {} => \A r \in StateRuns : trun[r].worker <=> trun[r].st = "running"

\* An update goes on without a run in flight, as far as its kind sees to it.
UpdatesAlone ==
  /\ \A u \in Updating : update[u].kind \in {"post", "bulk"}
  /\ "bulk" \notin raced => \A u \in Updating : update[u].kind = "bulk" => InflightRuns = {}
  /\ raced = {} =>
       /\ \A u, v \in Updating : u = v
       /\ Updating # {} => InflightRuns = {}

\* An update behind the newest checkpoint, and a run at the newest one.
UpdatesBehind ==
  raced = {} =>
    \A u \in Updates : update[u].pc \in {"prefetch", "update"} => update[u].base = LatestCheckpoint(u)

Undisturbed == raced = {} \/ (runtime = "grpc" /\ raced \cap {"bulk", "late", "drop"} = {})

RunsBehind ==
  Undisturbed => \A r \in StateRuns : trun[r].st = "running" => trun[r].at = LatestCheckpoint(NoOne)

StateInv == StateTypes /\ RunsInv /\ UpdatesAlone /\ UpdatesBehind /\ RunsBehind /\ HistoryLinear

\* A bounded set of numbers has a greatest one, and Maximum is this one.
LEMMA MaximumIs ==
  ASSUME NEW n \in Nat, NEW S, S \subseteq 0..n, S # {}
  PROVE  Maximum(S) \in S /\ \A m \in S : m <= Maximum(S)
<1> DEFINE T == {n - m : m \in S}
<1>1. T \subseteq Nat /\ T # {}
  <2>1. \A m \in S : n - m \in Nat
    OBVIOUS
  <2>2. \A t \in T : t \in Nat
    BY <2>1
  <2>3. PICK m \in S : TRUE
    OBVIOUS
  <2>4. n - m \in T
    OBVIOUS
  <2> HIDE DEF T
  <2> QED BY <2>2, <2>4
<1>2. PICK i \in T : \A j \in T : i <= j
  <2> HIDE DEF T
  <2> QED BY <1>1, LeastIndex
<1>3. PICK k \in S : i = n - k
  BY <1>2
<1>4. ASSUME NEW m \in S PROVE m <= k
  <2>1. n - m \in T
    OBVIOUS
  <2>2. n - k <= n - m
    BY <1>2, <1>3, <2>1
  <2>3. m \in Int /\ k \in Int
    OBVIOUS
  <2> HIDE DEF T
  <2> QED BY <2>2, <2>3
<1> QED BY <1>3, <1>4 DEF Maximum

\* Whatever is as great as every other is the Maximum.
LEMMA MaximumOf ==
  ASSUME NEW S, S \subseteq Nat, NEW k \in S, \A m \in S : m <= k
  PROVE  Maximum(S) = k
<1>1. Maximum(S) \in S /\ \A m \in S : m <= Maximum(S)
  BY DEF Maximum
<1>2. Maximum(S) <= k /\ k <= Maximum(S) /\ Maximum(S) \in Nat
  BY <1>1
<1> QED BY <1>2

\* The newest checkpoint that u sees is the maximum of what it sees.
LEMMA LatestIs ==
  ASSUME StateTypes, NEW u
  PROVE  /\ Seen(u) \subseteq 1..lastId
         /\ LatestCheckpoint(u) = Maximum({0} \cup Seen(u))
         /\ LatestCheckpoint(u) \in 0..lastId
<1>1. lastId \in Nat /\ Seen(u) \subseteq 1..lastId
  BY ThreadStateAssumption DEF StateTypes, Seen, Checkpoints
<1>2. LatestCheckpoint(u) = Maximum({0} \cup Seen(u))
  BY DEF LatestCheckpoint, Seen
<1>3. {0} \cup Seen(u) \subseteq 0..lastId
  BY <1>1
<1> QED BY <1>1, <1>2, <1>3, MaximumIs

\* Whoever sees the same has the same newest checkpoint.
LEMMA SameLatest ==
  ASSUME NEW u, Seen(u)' = Seen(u)
  PROVE  LatestCheckpoint(u)' = LatestCheckpoint(u)
<1>1. LatestCheckpoint(u) = Maximum({0} \cup Seen(u))
  BY DEF LatestCheckpoint, Seen
<1>2. LatestCheckpoint(u)' = Maximum({0} \cup Seen(u)')
  BY DEF LatestCheckpoint, Seen, Maximum
<1> QED BY <1>1, <1>2

\* A checkpoint is written: whoever sees it has it as the newest.
LEMMA WriteMoves ==
  ASSUME StateTypes, NEW u, NEW base, NEW open \in {NoOne} \cup Updates, Write(u, base, open)
  PROVE  /\ lastId' = lastId + 1 /\ lastId' \in 0..MaxCheckpoints /\ lastId \in Nat
         /\ saved' \in SUBSET Checkpoints(lastId')
         /\ \A w \in {NoOne} \cup Updates :
              LatestCheckpoint(w)' = IF open \in {NoOne, w} THEN lastId + 1 ELSE LatestCheckpoint(w)
         /\ forked' = (forked \/ base # LatestCheckpoint(u))
<1>1. /\ lastId < MaxCheckpoints /\ lastId' = lastId + 1 /\ lastId \in 0..MaxCheckpoints
      /\ saved \in SUBSET Checkpoints(lastId)
      /\ forked' = (forked \/ base # LatestCheckpoint(u))
  BY DEF Write, StateTypes
<1>2. lastId \in Nat /\ lastId' \in 0..MaxCheckpoints
  BY <1>1, ThreadStateAssumption
<1>3. PICK next \in BOOLEAN : saved' = saved \cup {[id |-> lastId + 1, next |-> next, open |-> open]}
  BY DEF Write
<1>4. [id |-> lastId + 1, next |-> next, open |-> open] \in Checkpoints(lastId')
  BY <1>1, <1>2 DEF Checkpoints
<1>5. Checkpoints(lastId) \subseteq Checkpoints(lastId')
  BY <1>1, <1>2 DEF Checkpoints
<1>6. saved' \in SUBSET Checkpoints(lastId')
  BY <1>1, <1>3, <1>4, <1>5
<1>7. ASSUME NEW w \in {NoOne} \cup Updates
      PROVE  LatestCheckpoint(w)' = IF open \in {NoOne, w} THEN lastId + 1 ELSE LatestCheckpoint(w)
  <2>1. CASE open \in {NoOne, w}
    <3>1. Seen(w)' = Seen(w) \cup {lastId + 1}
      <4> DEFINE c == [id |-> lastId + 1, next |-> next, open |-> open]
      <4>1. {d \in saved : d.open \in {NoOne, w}}' = {d \in saved : d.open \in {NoOne, w}} \cup {c}
        BY <1>3, <2>1
      <4>2. c.id = lastId + 1
        OBVIOUS
      <4> HIDE DEF c
      <4> QED BY <4>1, <4>2 DEF Seen
    <3>2. LatestCheckpoint(w)' = Maximum({0} \cup Seen(w)')
      BY DEF LatestCheckpoint, Seen, Maximum
    <3>3. Seen(w) \subseteq 1..lastId
      BY LatestIs
    <3>4. {0} \cup Seen(w)' \subseteq Nat /\ lastId + 1 \in {0} \cup Seen(w)'
      BY <1>2, <3>1, <3>3
    <3>5. \A m \in {0} \cup Seen(w)' : m <= lastId + 1
      BY <1>2, <3>1, <3>3
    <3>6. Maximum({0} \cup Seen(w)') = lastId + 1
      BY <3>4, <3>5, MaximumOf
    <3> QED BY <2>1, <3>2, <3>6
  <2>2. CASE open \notin {NoOne, w}
    <3>1. Seen(w)' = Seen(w)
      BY <1>3, <2>2 DEF Seen
    <3> QED BY <2>2, <3>1, SameLatest
  <2> QED BY <2>1, <2>2
<1> QED BY <1>1, <1>2, <1>6, <1>7

\* Records with another field are records.
LEMMA RecordChanges ==
  ASSUME NEW n \in Nat
  PROVE  /\ \A x \in RunRecords(n) :
              /\ x.st \in {"new", "pending", "running", "interrupted", "success", "gone"}
              /\ x.worker \in BOOLEAN /\ x.at \in 0..n
         /\ \A x \in UpdateRecords(n) : x.base \in 0..n /\ x.read \in 0..n
         /\ ThreadRecords(n) \subseteq ThreadRecords(n + 1)
         /\ RunRecords(n) \subseteq RunRecords(n + 1)
         /\ UpdateRecords(n) \subseteq UpdateRecords(n + 1)
         /\ NoUpdate \in UpdateRecords(n) /\ Done \in UpdateRecords(n)
<1>1. 0 \in 0..n
  OBVIOUS
<1>2. NoUpdate \in UpdateRecords(n)
  BY <1>1 DEF NoUpdate, UpdateRecords
<1>3. Done \in UpdateRecords(n)
  BY <1>1 DEF NoUpdate, Done, UpdateRecords
<1>4. 0..n \subseteq 0..n + 1
  OBVIOUS
<1>5. /\ ThreadRecords(n) \subseteq ThreadRecords(n + 1)
      /\ RunRecords(n) \subseteq RunRecords(n + 1)
      /\ UpdateRecords(n) \subseteq UpdateRecords(n + 1)
  BY <1>4 DEF ThreadRecords, RunRecords, UpdateRecords
<1> QED BY <1>2, <1>3, <1>5 DEF RunRecords, UpdateRecords

\* What a step that writes no checkpoint leaves as it was.
LEMMA NothingWritten ==
  ASSUME UNCHANGED <<saved, lastId>>
  PROVE  \A w : LatestCheckpoint(w)' = LatestCheckpoint(w)
<1> QED BY DEF LatestCheckpoint, Maximum

\* A run is created.
LEMMA PutRunKeeps == ASSUME StateInv, NEW r \in StateRuns, PutRun(r) PROVE StateInv'
<1>1. /\ trun[r].st = "new" /\ thread.there
      /\ trun' = [trun EXCEPT ![r].st = "pending"]
      /\ thread' = [thread EXCEPT !.status = "busy", !.graph = TRUE]
      /\ UNCHANGED <<runtime, saved, lastId, update, forked>>
      /\ raced \subseteq raced' /\ (Updating # {} => "run" \in raced')
      /\ (\E u \in Updating : update[u].kind = "bulk") => "bulk" \in raced'
  BY DEF PutRun
<1>2. /\ StateTypes /\ RunsInv /\ UpdatesAlone /\ UpdatesBehind /\ RunsBehind /\ HistoryLinear
      /\ Updating' = Updating
  BY <1>1 DEF StateInv, Updating
<1>3. StateTypes'
  <2>1. trun' \in [StateRuns -> RunRecords(lastId)]
    BY <1>1, <1>2 DEF StateTypes, RunRecords
  <2>2. thread' \in ThreadRecords(lastId)
    BY <1>1, <1>2 DEF StateTypes, ThreadRecords
  <2> QED BY <1>1, <1>2, <2>1, <2>2 DEF StateTypes
<1>4. RunsInv'
  <2>1. \A q \in StateRuns : /\ trun'[q].worker = trun[q].worker
                             /\ (trun'[q].st = "running" <=> trun[q].st = "running")
    BY <1>1, <1>2 DEF StateTypes, RunRecords
  <2>2. thread'.there /\ thread'.status = "busy"
    BY <1>1, <1>2 DEF StateTypes, ThreadRecords
  <2> QED BY <1>1, <1>2, <2>1, <2>2 DEF RunsInv
<1>5. UpdatesAlone'
  BY <1>1, <1>2 DEF UpdatesAlone
<1>6. UpdatesBehind'
  BY <1>1, <1>2, NothingWritten DEF UpdatesBehind
<1>7. RunsBehind'
  <2>1. \A q \in StateRuns : trun'[q].st = "running" => trun[q].st = "running" /\ trun'[q].at = trun[q].at
    BY <1>1, <1>2 DEF StateTypes, RunRecords
  <2> QED BY <1>1, <1>2, <2>1, NothingWritten DEF RunsBehind, Undisturbed
<1>8. HistoryLinear'
  BY <1>1, <1>2 DEF HistoryLinear
<1> QED BY <1>3, <1>4, <1>5, <1>6, <1>7, <1>8 DEF StateInv

\* A worker takes a run, which goes on from the newest checkpoint.
LEMMA TakeRunKeeps == ASSUME StateInv, NEW r \in StateRuns, TakeRun(r) PROVE StateInv'
<1>1. /\ trun[r].st = "pending" /\ \A q \in StateRuns : trun[q].st # "running"
      /\ trun' = [trun EXCEPT ![r] = [st |-> "running", worker |-> TRUE, at |-> LatestCheckpoint(NoOne)]]
      /\ UNCHANGED <<runtime, thread, saved, lastId, update, forked, raced>>
  BY DEF TakeRun
<1>2. /\ StateTypes /\ RunsInv /\ UpdatesAlone /\ UpdatesBehind /\ RunsBehind /\ HistoryLinear
      /\ Updating' = Updating
  BY <1>1 DEF StateInv, Updating
<1>3. StateTypes'
  <2>1. [st |-> "running", worker |-> TRUE, at |-> LatestCheckpoint(NoOne)] \in RunRecords(lastId)
    BY <1>2, LatestIs DEF RunRecords
  <2>2. trun' \in [StateRuns -> RunRecords(lastId)]
    BY <1>1, <1>2, <2>1 DEF StateTypes
  <2> QED BY <1>1, <1>2, <2>2 DEF StateTypes
<1>4. /\ trun'[r] = [st |-> "running", worker |-> TRUE, at |-> LatestCheckpoint(NoOne)]
      /\ \A q \in StateRuns \ {r} : trun'[q] = trun[q]
  BY <1>1, <1>2 DEF StateTypes
<1>5. InflightRuns' = InflightRuns
  BY <1>1, <1>4 DEF InflightRuns
<1>6. RunsInv'
  <2>1. \A p, q \in StateRuns : trun'[p].st = "running" /\ trun'[q].st = "running" => p = q
    BY <1>1, <1>4
  <2>2. (raced \cap {"late", "drop"} = {})' => \A q \in StateRuns : trun'[q].worker <=> trun'[q].st = "running"
    <3> SUFFICES ASSUME raced' \cap {"late", "drop"} = {}, NEW q \in StateRuns
                 PROVE  trun'[q].worker <=> trun'[q].st = "running"
      OBVIOUS
    <3>1. CASE q = r
      BY <1>4, <3>1
    <3>2. CASE q # r
      BY <1>1, <1>2, <1>4, <3>2 DEF RunsInv
    <3> QED BY <3>1, <3>2
  <2> QED BY <1>1, <1>2, <1>5, <2>1, <2>2 DEF RunsInv
<1>7. UpdatesAlone'
  BY <1>1, <1>2, <1>5 DEF UpdatesAlone
<1>8. UpdatesBehind'
  BY <1>1, <1>2, NothingWritten DEF UpdatesBehind
<1>9. RunsBehind'
  BY <1>1, <1>4, NothingWritten DEF RunsBehind
<1>10. HistoryLinear'
  BY <1>1, <1>2 DEF HistoryLinear
<1> QED BY <1>3, <1>6, <1>7, <1>8, <1>9, <1>10 DEF StateInv

\* The worker of a run writes a checkpoint behind the one it is at.
LEMMA RunWritesKeeps == ASSUME StateInv, NEW r \in StateRuns, RunWrites(r) PROVE StateInv'
<1>1. /\ trun[r].worker /\ Write(NoOne, trun[r].at, NoOne)
      /\ trun' = [trun EXCEPT ![r].at = lastId + 1]
      /\ UNCHANGED <<runtime, thread, update, raced>>
  BY DEF RunWrites
<1>2. /\ StateTypes /\ RunsInv /\ UpdatesAlone /\ UpdatesBehind /\ RunsBehind /\ HistoryLinear
      /\ Updating' = Updating
  BY <1>1 DEF StateInv, Updating
<1>3. /\ lastId' = lastId + 1 /\ lastId' \in 0..MaxCheckpoints /\ lastId \in Nat
      /\ saved' \in SUBSET Checkpoints(lastId')
      /\ LatestCheckpoint(NoOne)' = lastId + 1
      /\ forked' = (forked \/ trun[r].at # LatestCheckpoint(NoOne))
  BY <1>1, <1>2, WriteMoves
<1>4. \A q \in StateRuns : /\ trun'[q].st = trun[q].st /\ trun'[q].worker = trun[q].worker
                           /\ trun'[q].at = IF q = r THEN lastId + 1 ELSE trun[q].at
  BY <1>1, <1>2 DEF StateTypes, RunRecords
<1>5. StateTypes'
  <2>1. trun \in [StateRuns -> RunRecords(lastId + 1)]
    BY <1>2, <1>3, RecordChanges DEF StateTypes
  <2>2. trun' \in [StateRuns -> RunRecords(lastId')]
    <3>1. [trun[r] EXCEPT !.at = lastId + 1] \in RunRecords(lastId + 1)
      BY <1>3, <2>1 DEF RunRecords
    <3> QED BY <1>1, <1>3, <2>1, <3>1
  <2>3. thread' \in ThreadRecords(lastId')
    BY <1>1, <1>2, <1>3, RecordChanges DEF StateTypes
  <2>4. update' \in [Updates -> UpdateRecords(lastId')]
    BY <1>1, <1>2, <1>3, RecordChanges DEF StateTypes
  <2> QED BY <1>3, <2>2, <2>3, <2>4 DEF StateTypes
<1>6. InflightRuns' = InflightRuns
  BY <1>4 DEF InflightRuns
<1>7. RunsInv'
  BY <1>1, <1>2, <1>4, <1>6 DEF RunsInv
<1>8. UpdatesAlone'
  BY <1>1, <1>2, <1>6 DEF UpdatesAlone
<1>9. ASSUME raced \cap {"late", "drop"} = {}
      PROVE  trun[r].st = "running" /\ r \in InflightRuns
  BY <1>1, <1>2, <1>9 DEF RunsInv, InflightRuns
<1>10. UpdatesBehind'
  BY <1>1, <1>2, <1>9 DEF UpdatesBehind, UpdatesAlone, Updating
<1>11. RunsBehind'
  <2>1. Undisturbed => raced \cap {"late", "drop"} = {}
    BY DEF Undisturbed
  <2> QED BY <1>1, <1>2, <1>3, <1>4, <1>9, <2>1 DEF RunsBehind, RunsInv, Undisturbed
<1>12. HistoryLinear'
  BY <1>1, <1>2, <1>3, <1>9 DEF HistoryLinear, RunsBehind, Undisturbed
<1> QED BY <1>5, <1>7, <1>8, <1>10, <1>11, <1>12 DEF StateInv

\* The record of a running run is marked as interrupted.
LEMMA InterruptRunKeeps == ASSUME StateInv, NEW r \in StateRuns, InterruptRun(r) PROVE StateInv'
<1>1. /\ trun' = [trun EXCEPT ![r].st = "interrupted"] /\ "late" \in raced' /\ raced \subseteq raced'
      /\ UNCHANGED <<runtime, thread, saved, lastId, update, forked>>
  BY DEF InterruptRun
<1>2. /\ StateTypes /\ RunsInv /\ UpdatesAlone /\ UpdatesBehind /\ RunsBehind /\ HistoryLinear
      /\ Updating' = Updating
  BY <1>1 DEF StateInv, Updating
<1>3. StateTypes'
  <2>1. trun' \in [StateRuns -> RunRecords(lastId)]
    BY <1>1, <1>2 DEF StateTypes, RunRecords
  <2> QED BY <1>1, <1>2, <2>1 DEF StateTypes
<1>4. \A q \in StateRuns : trun'[q].st = IF q = r THEN "interrupted" ELSE trun[q].st
  BY <1>1, <1>2 DEF StateTypes, RunRecords
<1>5. InflightRuns' \subseteq InflightRuns
  BY <1>4 DEF InflightRuns
<1>6. RunsInv'
  BY <1>1, <1>2, <1>4, <1>5 DEF RunsInv
<1>7. UpdatesAlone'
  BY <1>1, <1>2, <1>5 DEF UpdatesAlone
<1>8. raced' # {} /\ ~ Undisturbed'
  BY <1>1 DEF Undisturbed
<1> QED BY <1>3, <1>6, <1>7, <1>8 DEF StateInv, UpdatesBehind, RunsBehind, HistoryLinear

\* The worker of a run reports its end.
LEMMA FinishStateRunKeeps == ASSUME StateInv, NEW r \in StateRuns, FinishStateRun(r) PROVE StateInv'
<1> DEFINE rec == [st |-> IF trun[r].st = "gone" THEN "gone" ELSE "success", worker |-> FALSE, at |-> 0]
           status == IF InflightRuns \ {r} # {} THEN "busy"
                     ELSE IF HasNext(trun[r].at) THEN "interrupted" ELSE "idle"
<1>1. /\ trun' = [trun EXCEPT ![r] = rec]
      /\ \/ thread' = thread /\ (~ thread.there \/ trun[r].st = "gone")
         \/ thread' = [thread EXCEPT !.status = status, !.shown = trun[r].at]
      /\ UNCHANGED <<runtime, saved, lastId, update, forked, raced>>
  BY DEF FinishStateRun
<1>2. /\ StateTypes /\ RunsInv /\ UpdatesAlone /\ UpdatesBehind /\ RunsBehind /\ HistoryLinear
      /\ Updating' = Updating /\ lastId \in Nat
  BY <1>1, ThreadStateAssumption DEF StateInv, Updating, StateTypes
<1>3. /\ trun'[r] = rec
      /\ \A q \in StateRuns \ {r} : trun'[q] = trun[q]
  BY <1>1, <1>2 DEF StateTypes
<1>4. StateTypes'
  <2>1. rec \in RunRecords(lastId)
    BY <1>2 DEF RunRecords
  <2>2. trun' \in [StateRuns -> RunRecords(lastId)]
    BY <1>1, <1>2, <2>1 DEF StateTypes
  <2>3. trun[r].at \in 0..lastId
    BY <1>2 DEF StateTypes, RunRecords
  <2>4. thread' \in ThreadRecords(lastId)
    BY <1>1, <1>2, <2>3 DEF StateTypes, ThreadRecords
  <2> QED BY <1>1, <1>2, <2>2, <2>4 DEF StateTypes
<1>5. InflightRuns' = InflightRuns \ {r}
  BY <1>3 DEF InflightRuns
<1>6. RunsInv'
  <2>1. \A p, q \in StateRuns : trun'[p].st = "running" /\ trun'[q].st = "running" => p = q
    BY <1>2, <1>3 DEF RunsInv
  <2>2. (raced \cap {"late", "drop"} = {})' => \A q \in StateRuns : trun'[q].worker <=> trun'[q].st = "running"
    <3> SUFFICES ASSUME raced' \cap {"late", "drop"} = {}, NEW q \in StateRuns
                 PROVE  trun'[q].worker <=> trun'[q].st = "running"
      OBVIOUS
    <3>1. CASE q = r
      BY <1>3, <3>1
    <3>2. CASE q # r
      BY <1>1, <1>2, <1>3, <3>2 DEF RunsInv
    <3> QED BY <3>1, <3>2
  <2>3. InflightRuns' # {} => thread'.there /\ thread'.status = "busy"
    BY <1>1, <1>2, <1>5 DEF RunsInv, StateTypes, ThreadRecords
  <2> QED BY <2>1, <2>2, <2>3 DEF RunsInv
<1>7. UpdatesAlone'
  BY <1>1, <1>2, <1>5 DEF UpdatesAlone
<1>8. UpdatesBehind'
  BY <1>1, <1>2, NothingWritten DEF UpdatesBehind
<1>9. RunsBehind'
  <2>1. \A q \in StateRuns : trun'[q].st = "running" => q # r /\ trun'[q] = trun[q]
    BY <1>3
  <2> QED BY <1>1, <1>2, <2>1, NothingWritten DEF RunsBehind, Undisturbed
<1>10. HistoryLinear'
  BY <1>1, <1>2 DEF HistoryLinear
<1> QED BY <1>4, <1>6, <1>7, <1>8, <1>9, <1>10 DEF StateInv

\* An update goes on to a record that types; nothing is written.
LEMMA UpdateMoves ==
  ASSUME StateInv, NEW u \in Updates, NEW rec \in UpdateRecords(lastId),
         update' = [update EXCEPT ![u] = rec],
         UNCHANGED <<runtime, thread, saved, lastId, trun, forked, raced>>,
         u \in Updating, rec.kind = update[u].kind \/ rec.pc \in {"idle", "done"},
         raced = {} /\ rec.pc \in {"prefetch", "update"} => rec.base = LatestCheckpoint(u)
  PROVE  StateInv'
<1>1. /\ StateTypes /\ RunsInv /\ UpdatesAlone /\ UpdatesBehind /\ RunsBehind /\ HistoryLinear
      /\ InflightRuns' = InflightRuns
  BY DEF StateInv, InflightRuns
<1>2. /\ update'[u] = rec
      /\ \A v \in Updates \ {u} : update'[v] = update[v]
  BY <1>1 DEF StateTypes
<1>3. StateTypes'
  BY <1>1 DEF StateTypes
<1>4. Updating' \subseteq Updating /\ \A v \in Updating' : update'[v].kind = update[v].kind
  BY <1>2 DEF Updating
<1>5. UpdatesAlone'
  BY <1>1, <1>4 DEF UpdatesAlone
<1>6. UpdatesBehind'
  BY <1>1, <1>2, NothingWritten DEF UpdatesBehind
<1> QED BY <1>1, <1>3, <1>5, <1>6, NothingWritten
    DEF StateInv, RunsInv, RunsBehind, Undisturbed, HistoryLinear

\* A request begins; a post does so when no run is in flight.
LEMMA BeginUpdateKeeps ==
  ASSUME StateInv, NEW u \in Updates, NEW kind \in {"post", "bulk"}, BeginUpdate(u, kind),
         update[u].pc = "idle", kind = "post" => InflightRuns = {}
  PROVE  StateInv'
<1> DEFINE rec == [NoUpdate EXCEPT !.pc = "prefetch", !.kind = kind, !.base = LatestCheckpoint(u)]
<1>1. /\ update' = [update EXCEPT ![u] = rec]
      /\ raced \subseteq raced' /\ (Updating # {} => "overlap" \in raced')
      /\ kind = "bulk" /\ InflightRuns # {} => "bulk" \in raced'
      /\ raced' \subseteq raced \cup {"overlap", "bulk"}
      /\ UNCHANGED <<runtime, thread, saved, lastId, trun, forked>>
  BY DEF BeginUpdate
<1>2. /\ StateTypes /\ RunsInv /\ UpdatesAlone /\ UpdatesBehind /\ RunsBehind /\ HistoryLinear
      /\ InflightRuns' = InflightRuns /\ lastId \in Nat
  BY <1>1, ThreadStateAssumption DEF StateInv, InflightRuns, StateTypes
<1>3. rec \in UpdateRecords(lastId) /\ rec.pc = "prefetch" /\ rec.kind = kind /\ rec.base = LatestCheckpoint(u)
  <2>1. LatestCheckpoint(u) \in 0..lastId
    <3> HIDE DEF rec
    <3> QED BY <1>2, LatestIs
  <2>2. NoUpdate \in UpdateRecords(lastId)
    <3> HIDE DEF rec
    <3> QED BY <1>2, RecordChanges
  <2> QED BY <2>1, <2>2 DEF UpdateRecords
<1> HIDE DEF rec
<1>4. /\ update'[u] = rec
      /\ \A v \in Updates \ {u} : update'[v] = update[v]
  BY <1>1, <1>2 DEF StateTypes
<1>5. StateTypes'
  BY <1>1, <1>2, <1>3 DEF StateTypes
<1>6. Updating' = Updating \cup {u}
  BY <1>3, <1>4 DEF Updating
<1>7. UpdatesAlone'
  <2>1. ASSUME "bulk" \notin raced', NEW v \in Updating', update'[v].kind = "bulk" PROVE InflightRuns' = {}
    BY <1>1, <1>2, <1>3, <1>4, <1>6, <2>1 DEF UpdatesAlone, Updating
  <2>2. ASSUME raced' = {} PROVE Updating = {} /\ raced = {} /\ InflightRuns = {}
    BY <1>1, <2>2
  <2>3. ASSUME NEW v \in Updating' PROVE update'[v].kind \in {"post", "bulk"}
    BY <1>2, <1>3, <1>4, <1>6 DEF UpdatesAlone, Updating
  <2> QED BY <1>2, <1>6, <2>1, <2>2, <2>3 DEF UpdatesAlone
<1>8. UpdatesBehind'
  BY <1>1, <1>2, <1>3, <1>4, NothingWritten DEF UpdatesBehind
<1>9. RunsInv'
  BY <1>1, <1>2 DEF RunsInv
<1>10. RunsBehind'
  BY <1>1, <1>2, NothingWritten DEF RunsBehind, Undisturbed
<1>11. HistoryLinear'
  BY <1>1, <1>2 DEF HistoryLinear
<1> QED BY <1>5, <1>7, <1>8, <1>9, <1>10, <1>11 DEF StateInv

\* The latest checkpoint is fetched, before the runs are counted or after.
LEMMA PrefetchKeeps == ASSUME StateInv, NEW u \in Updates, Prefetch(u) \/ GrpcGather(u) PROVE StateInv'
<1>1. PICK base \in {update[u].base, LatestCheckpoint(u)} :
        update' = [update EXCEPT ![u].base = base, ![u].pc = "update"]
  BY DEF Prefetch, GrpcGather
<1>2. /\ update[u].pc = "prefetch"
      /\ UNCHANGED <<runtime, thread, saved, lastId, trun, forked, raced>>
  BY DEF Prefetch, GrpcGather
<1> DEFINE rec == [update[u] EXCEPT !.base = base, !.pc = "update"]
<1>3. StateTypes /\ UpdatesBehind /\ lastId \in Nat
  BY ThreadStateAssumption DEF StateInv, StateTypes
<1>4. base \in 0..lastId
  BY <1>3, LatestIs, RecordChanges DEF StateTypes
<1>5. rec \in UpdateRecords(lastId) /\ rec.kind = update[u].kind /\ rec.base = base /\ rec.pc = "update"
  BY <1>3, <1>4 DEF StateTypes, UpdateRecords
<1>6. update' = [update EXCEPT ![u] = rec]
  BY <1>1, <1>3 DEF StateTypes
<1>7. u \in Updating
  BY <1>2 DEF Updating
<1>8. raced = {} => base = LatestCheckpoint(u)
  BY <1>2, <1>3 DEF UpdatesBehind
<1> HIDE DEF rec
<1> QED BY <1>2, <1>5, <1>6, <1>7, <1>8, UpdateMoves

\* The graph writes the checkpoint of an update, in a transaction or not.
LEMMA UpdateStateKeeps ==
  ASSUME StateInv, NEW u \in Updates, UpdateState(u) \/ GrpcUpdateState(u)
  PROVE  StateInv'
<1> DEFINE base == IF update[u].kind = "post" THEN update[u].base ELSE LatestCheckpoint(u)
<1>1. PICK open \in {NoOne, u} : Write(u, base, open) /\ (runtime = "grpc" => open = u)
  BY DEF UpdateState, GrpcUpdateState
<1>2. /\ update[u].pc = "update" /\ update' = [update EXCEPT ![u].pc = "read"]
      /\ UNCHANGED <<runtime, thread, trun, raced>>
  BY DEF UpdateState, GrpcUpdateState
<1>3. /\ StateTypes /\ RunsInv /\ UpdatesAlone /\ UpdatesBehind /\ RunsBehind /\ HistoryLinear
      /\ InflightRuns' = InflightRuns /\ u \in Updating
  BY <1>2 DEF StateInv, InflightRuns, Updating
<1>4. /\ lastId' = lastId + 1 /\ lastId' \in 0..MaxCheckpoints /\ lastId \in Nat
      /\ saved' \in SUBSET Checkpoints(lastId')
      /\ LatestCheckpoint(NoOne)' = IF open \in {NoOne, NoOne} THEN lastId + 1 ELSE LatestCheckpoint(NoOne)
      /\ forked' = (forked \/ base # LatestCheckpoint(u))
  BY <1>1, <1>3, WriteMoves
<1>5. /\ update'[u].pc = "read" /\ update'[u].kind = update[u].kind
      /\ \A v \in Updates \ {u} : update'[v] = update[v]
  BY <1>2, <1>3 DEF StateTypes, UpdateRecords
<1>6. StateTypes'
  <2>1. update \in [Updates -> UpdateRecords(lastId')]
    BY <1>3, <1>4, RecordChanges DEF StateTypes
  <2>2. [update[u] EXCEPT !.pc = "read"] \in UpdateRecords(lastId')
    BY <2>1 DEF UpdateRecords
  <2>3. update' \in [Updates -> UpdateRecords(lastId')]
    BY <1>2, <2>1, <2>2
  <2>4. thread' \in ThreadRecords(lastId')
    BY <1>2, <1>3, <1>4, RecordChanges DEF StateTypes
  <2>5. trun' \in [StateRuns -> RunRecords(lastId')]
    BY <1>2, <1>3, <1>4, RecordChanges DEF StateTypes
  <2> QED BY <1>4, <2>3, <2>4, <2>5 DEF StateTypes
<1>7. RunsInv'
  BY <1>2, <1>3 DEF RunsInv
<1>8. Updating' = Updating /\ \A v \in Updating : update'[v].kind = update[v].kind
  BY <1>2, <1>3, <1>5 DEF Updating
<1>9. UpdatesAlone'
  BY <1>2, <1>3, <1>8 DEF UpdatesAlone
<1>10. UpdatesBehind'
  BY <1>2, <1>3, <1>5 DEF UpdatesBehind, UpdatesAlone, Updating
<1>11. RunsBehind'
  <2>1. CASE raced = {}
    BY <1>2, <1>3, <2>1 DEF RunsBehind, UpdatesAlone, InflightRuns
  <2>2. CASE runtime = "grpc" /\ raced # {}
    <3>1. LatestCheckpoint(NoOne)' = LatestCheckpoint(NoOne)
      BY <1>1, <1>4, <2>2, ThreadStateAssumption DEF NoOne
    <3> QED BY <1>2, <1>3, <3>1 DEF RunsBehind, Undisturbed
  <2>3. CASE runtime # "grpc" /\ raced # {}
    BY <1>2, <2>3 DEF RunsBehind, Undisturbed
  <2> QED BY <2>1, <2>2, <2>3
<1>12. HistoryLinear'
  BY <1>2, <1>3, <1>4 DEF HistoryLinear, UpdatesBehind
<1> QED BY <1>6, <1>7, <1>9, <1>10, <1>11, <1>12 DEF StateInv

\* A transaction ends: without what it wrote, nobody else sees another checkpoint; with it,
\* whoever is not in a transaction may.
LEMMA TransactionEnds ==
  ASSUME StateTypes, NEW u \in Updates
  PROVE  /\ RollbackUpdate(u) \in SUBSET Checkpoints(lastId)
         /\ CommitSaved(u) \in SUBSET Checkpoints(lastId)
         /\ saved' = RollbackUpdate(u) => LatestCheckpoint(NoOne)' = LatestCheckpoint(NoOne)
<1>1. saved \in SUBSET Checkpoints(lastId)
  BY DEF StateTypes
<1>2. CommitSaved(u) \in SUBSET Checkpoints(lastId)
  <2>1. \A c \in saved : (IF c.open = u THEN [c EXCEPT !.open = NoOne] ELSE c) \in Checkpoints(lastId)
    BY <1>1 DEF Checkpoints
  <2> QED BY <2>1 DEF CommitSaved
<1>3. RollbackUpdate(u) \in SUBSET Checkpoints(lastId)
  BY <1>1 DEF RollbackUpdate
<1>4. ASSUME saved' = RollbackUpdate(u) PROVE LatestCheckpoint(NoOne)' = LatestCheckpoint(NoOne)
  <2>1. u # NoOne
    BY ThreadStateAssumption DEF NoOne
  <2>2. Seen(NoOne)' = Seen(NoOne)
    BY <1>4, <2>1 DEF Seen, RollbackUpdate
  <2> QED BY <2>2, SameLatest
<1> QED BY <1>2, <1>3, <1>4

\* An update is done: it leaves the status and the newest checkpoint as its kind may, and
\* in the end the runs as they were.
LEMMA UpdateEnds ==
  ASSUME StateInv, NEW u \in Updating, update' = [update EXCEPT ![u] = Done],
         saved' \in SUBSET Checkpoints(lastId),
         UNCHANGED <<runtime, lastId, trun, forked, raced>>,
         thread' \in ThreadRecords(lastId), thread'.there = thread.there,
         InflightRuns # {} => thread'.status = "busy",
         \/ LatestCheckpoint(NoOne)' = LatestCheckpoint(NoOne)
         \/ InflightRuns = {}
         \/ ~ Undisturbed
  PROVE  StateInv'
<1>1. /\ StateTypes /\ RunsInv /\ UpdatesAlone /\ UpdatesBehind /\ RunsBehind /\ HistoryLinear
      /\ InflightRuns' = InflightRuns /\ lastId \in Nat /\ u \in Updates
  BY ThreadStateAssumption DEF StateInv, InflightRuns, StateTypes, Updating
<1>2. /\ update'[u] = Done /\ Done.pc = "done"
      /\ \A v \in Updates \ {u} : update'[v] = update[v]
  BY <1>1 DEF StateTypes, Done, NoUpdate
<1>3. StateTypes'
  BY <1>1, RecordChanges DEF StateTypes
<1>4. RunsInv'
  BY <1>1 DEF RunsInv
<1>5. Updating' = Updating \ {u}
  BY <1>2 DEF Updating
<1>6. UpdatesAlone'
  BY <1>1, <1>2, <1>5 DEF UpdatesAlone
<1>7. UpdatesBehind'
  BY <1>1, <1>2 DEF UpdatesBehind, UpdatesAlone, Updating
<1>8. RunsBehind'
  BY <1>1 DEF RunsBehind, Undisturbed, InflightRuns
<1>9. HistoryLinear'
  BY <1>1 DEF HistoryLinear
<1> QED BY <1>3, <1>4, <1>6, <1>7, <1>8, <1>9 DEF StateInv

\* The state is read back, or the thread is gone.
LEMMA GetStateKeeps ==
  ASSUME StateInv, NEW u \in Updates, GetState(u) \/ GrpcGetState(u)
  PROVE  StateInv'
<1> DEFINE rec == [update[u] EXCEPT !.read = LatestCheckpoint(u), !.pc = "set"]
<1>1. /\ update[u].pc = "read" /\ UNCHANGED <<runtime, thread, lastId, trun, forked, raced>>
      /\ \/ update' = [update EXCEPT ![u] = rec] /\ UNCHANGED saved
         \/ update' = [update EXCEPT ![u] = Done] /\ saved' \in {saved, RollbackUpdate(u)}
  BY DEF GetState, GrpcGetState
<1>2. StateTypes /\ RunsInv /\ u \in Updating /\ lastId \in Nat
  BY <1>1, ThreadStateAssumption DEF StateInv, Updating, StateTypes
<1>3. rec \in UpdateRecords(lastId) /\ rec.kind = update[u].kind /\ rec.pc = "set"
  <2>1. LatestCheckpoint(u) \in 0..lastId
    BY <1>2, LatestIs
  <2> QED BY <1>2, <2>1 DEF StateTypes, UpdateRecords
<1> HIDE DEF rec
<1>4. CASE update' = [update EXCEPT ![u] = rec] /\ UNCHANGED saved
  BY <1>1, <1>2, <1>3, <1>4, UpdateMoves
<1>5. CASE update' = [update EXCEPT ![u] = Done] /\ saved' \in {saved, RollbackUpdate(u)}
  <2>1. saved' \in SUBSET Checkpoints(lastId) /\ LatestCheckpoint(NoOne)' = LatestCheckpoint(NoOne)
    BY <1>1, <1>2, <1>5, TransactionEnds, NothingWritten DEF StateTypes
  <2>2. thread' \in ThreadRecords(lastId) /\ thread'.there = thread.there
        /\ (InflightRuns # {} => thread'.status = "busy")
    BY <1>1, <1>2 DEF RunsInv, StateTypes
  <2> QED BY <1>1, <1>2, <1>5, <2>1, <2>2, UpdateEnds
<1> QED BY <1>1, <1>4, <1>5

\* The status is written, at once or by Core, which refuses a post to a busy thread.
LEMMA SetStatusKeeps ==
  ASSUME StateInv, NEW u \in Updates, SetStatus(u) \/ GrpcSetStatus(u)
  PROVE  StateInv'
<1> DEFINE written == [thread EXCEPT !.status = StatusFrom(update[u].read), !.shown = update[u].read]
<1>1. /\ update[u].pc = "set" /\ update' = [update EXCEPT ![u] = Done]
      /\ UNCHANGED <<runtime, lastId, trun, forked, raced>>
  BY DEF SetStatus, GrpcSetStatus
<1>2. /\ StateTypes /\ RunsInv /\ UpdatesAlone /\ u \in Updating
  BY <1>1 DEF StateInv, Updating
<1>3. \/ thread' = thread /\ saved' \in {saved, RollbackUpdate(u)}
      \/ thread' = written /\ saved' = saved
      \/ thread' = written /\ saved' = CommitSaved(u) /\ ExpectedFound(u)
  BY DEF SetStatus, GrpcSetStatus
<1>4. written \in ThreadRecords(lastId) /\ written.there = thread.there
      /\ (InflightRuns # {} => written.status = "busy")
  BY <1>2 DEF StateTypes, ThreadRecords, UpdateRecords, StatusFrom
<1>5. thread' \in ThreadRecords(lastId) /\ thread'.there = thread.there
      /\ (InflightRuns # {} => thread'.status = "busy")
  BY <1>2, <1>3, <1>4 DEF RunsInv, StateTypes
<1>6. saved' \in SUBSET Checkpoints(lastId)
  BY <1>2, <1>3, TransactionEnds DEF StateTypes
<1>7. \/ LatestCheckpoint(NoOne)' = LatestCheckpoint(NoOne)
      \/ InflightRuns = {}
      \/ ~ Undisturbed
  <2>1. CASE saved' \in {saved, RollbackUpdate(u)}
    BY <1>1, <1>2, <2>1, TransactionEnds, NothingWritten
  <2>2. CASE ExpectedFound(u)
    <3> QED BY <1>2, <2>2 DEF ExpectedFound, RunsInv, UpdatesAlone, Undisturbed
  <2> QED BY <1>3, <2>1, <2>2
<1> HIDE DEF written
<1> QED BY <1>1, <1>2, <1>5, <1>6, <1>7, UpdateEnds

\* The thread goes, with its runs and checkpoints, and comes back.
LEMMA DropKeeps == ASSUME StateInv, DropThread PROVE StateInv'
<1>1. /\ thread' = [there |-> FALSE, status |-> "idle", shown |-> 0, graph |-> FALSE]
      /\ trun' = [r \in StateRuns |-> IF trun[r].st = "new" THEN trun[r] ELSE [trun[r] EXCEPT !.st = "gone"]]
      /\ saved' = {c \in saved : c.open # NoOne} /\ "drop" \in raced' /\ raced \subseteq raced'
      /\ UNCHANGED <<runtime, lastId, update, forked>>
  BY DEF DropThread
<1>2. /\ StateTypes /\ RunsInv /\ UpdatesAlone
      /\ Updating' = Updating /\ lastId \in Nat
  BY <1>1, ThreadStateAssumption DEF StateInv, Updating, StateTypes
<1>3. StateTypes'
  <2>1. thread' \in ThreadRecords(lastId)
    BY <1>1, <1>2 DEF ThreadRecords
  <2>2. trun' \in [StateRuns -> RunRecords(lastId)]
    BY <1>1, <1>2 DEF StateTypes, RunRecords
  <2> QED BY <1>1, <1>2, <2>1, <2>2 DEF StateTypes
<1>4. \A r \in StateRuns : trun'[r].st \in {"new", "gone"}
  BY <1>1, <1>2 DEF StateTypes, RunRecords
<1>5. InflightRuns' = {}
  BY <1>4 DEF InflightRuns
<1>6. raced' # {} /\ raced' \cap {"late", "drop"} # {} /\ ~ Undisturbed'
  BY <1>1 DEF Undisturbed
<1>7. RunsInv'
  BY <1>4, <1>5, <1>6 DEF RunsInv
<1>8. UpdatesAlone'
  BY <1>1, <1>2, <1>5, <1>6 DEF UpdatesAlone
<1> QED BY <1>3, <1>6, <1>7, <1>8 DEF StateInv, UpdatesBehind, RunsBehind, HistoryLinear

\* The thread is made again, under the same id.
LEMMA MakeKeeps == ASSUME StateInv, MakeThread PROVE StateInv'
<1>1. /\ ~ thread.there /\ thread' = [thread EXCEPT !.there = TRUE]
      /\ UNCHANGED <<runtime, saved, lastId, trun, update, forked, raced>>
  BY DEF MakeThread
<1>2. /\ StateTypes /\ RunsInv /\ UpdatesAlone /\ UpdatesBehind /\ RunsBehind /\ HistoryLinear
      /\ Updating' = Updating /\ InflightRuns' = InflightRuns
  BY <1>1 DEF StateInv, Updating, InflightRuns
<1>3. thread' \in ThreadRecords(lastId)
  BY <1>1, <1>2 DEF StateTypes, ThreadRecords
<1>4. StateTypes' /\ RunsInv'
  BY <1>1, <1>2, <1>3 DEF StateTypes, RunsInv
<1>5. UpdatesAlone' /\ HistoryLinear'
  BY <1>1, <1>2 DEF UpdatesAlone, HistoryLinear
<1>6. UpdatesBehind' /\ RunsBehind'
  BY <1>1, <1>2, NothingWritten DEF UpdatesBehind, RunsBehind, Undisturbed
<1> QED BY <1>4, <1>5, <1>6 DEF StateInv

\* No run and no update has begun.
LEMMA StateStart == ThreadStateInit => StateInv
<1> SUFFICES ASSUME ThreadStateInit PROVE StateInv
  OBVIOUS
<1>1. /\ thread \in [there : {TRUE}, status : {"idle"}, shown : {0}, graph : BOOLEAN]
      /\ saved = {} /\ lastId = 0 /\ forked = FALSE /\ raced = {}
      /\ trun = [r \in StateRuns |-> [st |-> "new", worker |-> FALSE, at |-> 0]]
      /\ update = [u \in Updates |-> NoUpdate]
  BY DEF ThreadStateInit
<1>2. StateTypes
  <2>1. lastId \in 0..MaxCheckpoints /\ 0 \in 0..lastId
    BY <1>1, ThreadStateAssumption
  <2>2. thread \in ThreadRecords(lastId)
    BY <1>1, <2>1 DEF ThreadRecords
  <2>3. trun \in [StateRuns -> RunRecords(lastId)]
    BY <1>1, <2>1 DEF RunRecords
  <2>4. update \in [Updates -> UpdateRecords(lastId)]
    BY <1>1, <2>1, RecordChanges
  <2> QED BY <1>1, <2>1, <2>2, <2>3, <2>4 DEF StateTypes
<1>3. Updating = {} /\ InflightRuns = {}
  BY <1>1 DEF Updating, InflightRuns, NoUpdate
<1>4. RunsInv
  BY <1>1, <1>3 DEF RunsInv
<1>5. \A u \in Updates : update[u].pc = "idle"
  BY <1>1 DEF NoUpdate
<1>6. UpdatesAlone /\ UpdatesBehind /\ RunsBehind /\ HistoryLinear
  BY <1>1, <1>3, <1>5 DEF UpdatesAlone, UpdatesBehind, RunsBehind, HistoryLinear
<1> QED BY <1>2, <1>4, <1>6 DEF StateInv

\* Every request and every step of a worker keeps the invariant.
LEMMA StateStep == StateInv /\ [ThreadStateNext]_stVars => StateInv'
<1> SUFFICES ASSUME StateInv, [ThreadStateNext]_stVars PROVE StateInv'
  OBVIOUS
<1>1. ASSUME NEW u \in Updates,
             \/ BeginPost(u)
             \/ BeginBulk(u)
             \/ GrpcBeginPost(u)
             \/ GrpcBeginBulk(u)
      PROVE  StateInv'
  <2>1. CASE BeginPost(u) \/ GrpcBeginPost(u)
    BY <2>1, BeginUpdateKeeps DEF BeginPost, GrpcBeginPost, PostAllowed
  <2>2. CASE BeginBulk(u) \/ GrpcBeginBulk(u)
    BY <2>2, BeginUpdateKeeps DEF BeginBulk, GrpcBeginBulk
  <2> QED BY <1>1, <2>1, <2>2
<1>2. CASE UNCHANGED stVars
  <2>1. /\ UNCHANGED <<runtime, thread, saved, lastId, trun, update, forked, raced>>
        /\ Updating' = Updating /\ InflightRuns' = InflightRuns
    BY <1>2 DEF stVars, Updating, InflightRuns
  <2>2. StateTypes' /\ RunsInv' /\ UpdatesAlone' /\ HistoryLinear'
    BY <2>1 DEF StateInv, StateTypes, RunsInv, UpdatesAlone, HistoryLinear
  <2>3. UpdatesBehind' /\ RunsBehind'
    BY <2>1, NothingWritten DEF StateInv, UpdatesBehind, RunsBehind, Undisturbed
  <2> QED BY <2>2, <2>3 DEF StateInv
<1> QED BY <1>1, <1>2, PutRunKeeps, TakeRunKeeps, RunWritesKeeps, InterruptRunKeeps, FinishStateRunKeeps,
           PrefetchKeeps, UpdateStateKeeps, GetStateKeeps, SetStatusKeeps, DropKeeps, MakeKeeps
        DEF ThreadStateNext

\* A run and an update of the state of its thread keep each other's progress
\* (Threads.State.post and bulk against the workers' checkpoints, Threads.set_status and
\* set_joint_status): for all runs and requests and any number of checkpoints.
THEOREM ProgressAlwaysKept == Spec => []ProgressIsKept
<1>1. Init => StateInv
  BY StateStart DEF Init
<1>2. StateInv /\ [Next]_recordVars => StateInv'
  <2>1. [Next]_recordVars => [ThreadStateNext]_stVars
    BY DEF Next, Others, recordVars, stVars
  <2> QED BY <2>1, StateStep
<1>3. StateInv => ProgressIsKept
  BY DEF StateInv, RunsInv, RunsBehind, Undisturbed, ProgressIsKept, RunUndisturbed, UpdatesKeepBusy
<1> QED BY <1>1, <1>2, <1>3, PTL DEF Spec

(***************************************************************************)
(* The crons of the Postgres runtime                                       *)
(***************************************************************************)
CronRows == [there : BOOLEAN, on : BOOLEAN, due : 0..MaxDate + 1]
KeeperCalls == {Resting} \cup [pc : {"update"}, id : PgCrons, on : BOOLEAN, due : 0..MaxDate + 1]

\* The dates a pass has found, at its time.
Dues(n) == [id : PgCrons, due : 0..n]
Beats ==
  [pc : {"asleep", "pass", "fired"}, now : 0..MaxDate, todo : SUBSET PgCrons,
   of : SUBSET [id : PgCrons, due : 0..MaxDate], moved : SUBSET PgCrons, runs : SUBSET [id : PgCrons, due : 0..MaxDate]]

CronTypes ==
  /\ date \in 0..MaxDate
  /\ cronRow \in [PgCrons -> CronRows]
  /\ beat \in [Schedulers -> Beats]
  /\ keeper \in [Keepers -> KeeperCalls]
  /\ firings \in [PgCrons -> [0..MaxDate -> Nat]]

\* A pass goes over what it has found due, one cron at a time: it fires the cron and then
\* moves its date.
PassInv(s) ==
  LET b == beat[s] IN
  /\ b.now <= date
  /\ b.of \subseteq Dues(b.now) /\ b.runs \subseteq b.of
  /\ \A c \in b.todo : \E o \in b.of : o.id = c
  /\ \A o, p \in b.of : o.id = p.id => o = p
  /\ b.moved \subseteq {r.id : r \in b.runs}
  /\ b.pc # "fired" => Pending(s) = {}
  /\ b.pc = "fired" => \E c \in PgCrons : Pending(s) \subseteq {c}

\* No date in the future was fired, nor one after the beginning of a pass; what is due was
\* not fired yet, neither by the row nor by the copies of a pass.
FiringsInv(s) ==
  /\ \A c \in PgCrons, d \in 0..MaxDate :
       /\ firings[c][d] <= 1
       /\ firings[c][d] # 0 => d <= date
       /\ firings[c][d] # 0 /\ beat[s].pc # "asleep" => d <= beat[s].now
       /\ firings[c][d] # 0 /\ cronRow[c].there => d < cronRow[c].due
  /\ beat[s].pc # "asleep" => \A o \in beat[s].of : firings[o.id][o.due] = 0

PgCronInv ==
  /\ CronTypes
  /\ \A s \in Schedulers : PassInv(s)
  /\ \A s \in Schedulers : Schedulers = {s} => FiringsInv(s)

\* What is left of a pass that is over.
LEMMA AsleepIs ==
  /\ Asleep \in Beats /\ Asleep.pc = "asleep" /\ Asleep.now = 0 /\ Asleep.todo = {} /\ Asleep.of = {}
  /\ Asleep.moved = {} /\ Asleep.runs = {}
<1>1. 0 \in 0..MaxDate
  BY PgCronAssumption
<1> QED BY <1>1 DEF Asleep, Beats

\* Requests and the time change rows and take back what is counted; passes stand still.
LEMMA RowsMove ==
  ASSUME PgCronInv, UNCHANGED beat, CronTypes', date <= date',
         \A c \in PgCrons, d \in 0..MaxDate :
           /\ firings'[c][d] \in {0, firings[c][d]}
           /\ firings'[c][d] # 0 /\ cronRow'[c].there => cronRow[c].there /\ cronRow'[c].due = cronRow[c].due
  PROVE  PgCronInv'
<1>1. CronTypes /\ date \in Nat /\ date' \in Nat
  BY PgCronAssumption DEF PgCronInv, CronTypes
<1>2. ASSUME NEW s \in Schedulers PROVE PassInv(s)'
  <2>1. beat[s].now \in Nat
    BY <1>1 DEF CronTypes, Beats
  <2> QED BY <1>1, <2>1 DEF PgCronInv, PassInv, Pending
<1>3. ASSUME NEW s \in Schedulers, Schedulers = {s} PROVE FiringsInv(s)'
  <2>1. FiringsInv(s)
    BY <1>3 DEF PgCronInv
  <2>2. ASSUME NEW c \in PgCrons, NEW d \in 0..MaxDate
        PROVE  /\ firings'[c][d] <= 1
               /\ firings'[c][d] # 0 => d <= date'
               /\ firings'[c][d] # 0 /\ beat[s].pc # "asleep" => d <= beat[s].now
               /\ firings'[c][d] # 0 /\ cronRow'[c].there => d < cronRow'[c].due
    <3>1. CASE firings'[c][d] = 0
      BY <3>1
    <3>2. CASE firings'[c][d] # 0
      <4>1. firings'[c][d] = firings[c][d]
        BY <3>2
      <4> QED BY <1>1, <2>1, <3>2, <4>1 DEF FiringsInv
    <3> QED BY <3>1, <3>2
  <2>3. ASSUME beat[s].pc # "asleep", NEW o \in beat[s].of PROVE firings'[o.id][o.due] = 0
    <3>1. o.id \in PgCrons /\ o.due \in 0..MaxDate
      BY <1>1, <2>3 DEF CronTypes, Beats
    <3>2. firings[o.id][o.due] = 0
      BY <2>1, <2>3 DEF FiringsInv
    <3> QED BY <3>1, <3>2
  <2> QED BY <2>2, <2>3 DEF FiringsInv
<1> QED BY <1>2, <1>3 DEF PgCronInv

\* A scheduler's pass goes on; rows and counts stand still.
LEMMA PassMoves ==
  ASSUME PgCronInv, NEW s \in Schedulers, NEW b \in Beats, beat' = [beat EXCEPT ![s] = b],
         UNCHANGED <<date, cronRow, keeper, firings>>, PassInv(s)',
         b.pc # "asleep" =>
            \/ beat[s].pc # "asleep" /\ b.now = beat[s].now /\ b.of = beat[s].of
            \/ FiringsInv(s) => b.now = date /\ \A o \in b.of : firings[o.id][o.due] = 0
  PROVE  PgCronInv'
<1>1. CronTypes /\ date \in Nat
  BY PgCronAssumption DEF PgCronInv, CronTypes
<1>2. beat'[s] = b /\ \A r \in Schedulers \ {s} : beat'[r] = beat[r]
  BY <1>1 DEF CronTypes
<1>3. CronTypes'
  BY <1>1 DEF CronTypes
<1>4. \A r \in Schedulers : PassInv(r)'
  <2>1. ASSUME NEW r \in Schedulers, r # s PROVE PassInv(r)'
    BY <1>2, <2>1 DEF PgCronInv, PassInv, Pending
  <2> QED BY <2>1
<1>5. ASSUME NEW r \in Schedulers, Schedulers = {r} PROVE FiringsInv(r)'
  <2>1. r = s /\ FiringsInv(s)
    BY <1>5 DEF PgCronInv
  <2> QED BY <1>2, <2>1 DEF FiringsInv
<1> QED BY <1>3, <1>4, <1>5 DEF PgCronInv

\* A request changes a row or reads one.
LEMMA RequestsKeep ==
  ASSUME PgCronInv,
         \/ PgTick
         \/ \E c \in PgCrons : \/ PutPgCron(c) \/ DeleteCronRow(c)
                               \/ \E k \in Keepers : SelectForUpdate(k, c)
         \/ \E k \in Keepers : UpdateCronRow(k)
  PROVE  PgCronInv'
<1>1. CronTypes /\ date \in Nat /\ MaxDate \in Nat
  BY PgCronAssumption DEF PgCronInv, CronTypes
<1>2. NextCronDate(date) \in 0..MaxDate + 1 /\ 0 \in 0..MaxDate + 1
  BY <1>1 DEF NextCronDate, CronTypes
<1>3. NoFirings \in [0..MaxDate -> Nat] /\ \A d \in 0..MaxDate : NoFirings[d] = 0
  BY DEF NoFirings
<1>4. CASE PgTick
  <2>1. date' = date + 1 /\ date < MaxDate /\ UNCHANGED <<cronRow, beat, keeper, firings>>
    BY <1>4 DEF PgTick
  <2>2. CronTypes'
    BY <1>1, <2>1 DEF CronTypes
  <2> QED BY <1>1, <2>1, <2>2, RowsMove
<1>5. ASSUME NEW c \in PgCrons, PutPgCron(c) PROVE PgCronInv'
  <2> DEFINE row == [there |-> TRUE, on |-> TRUE, due |-> NextCronDate(date)]
  <2>1. /\ cronRow' = [cronRow EXCEPT ![c] = row] /\ firings' = [firings EXCEPT ![c] = NoFirings]
        /\ UNCHANGED <<date, beat, keeper>>
    BY <1>5 DEF PutPgCron
  <2>2. row \in CronRows
    BY <1>2 DEF CronRows
  <2> HIDE DEF row
  <2>3. CronTypes'
    BY <1>1, <1>3, <2>1, <2>2 DEF CronTypes
  <2>4. \A a \in PgCrons : /\ cronRow'[a] = IF a = c THEN row ELSE cronRow[a]
                           /\ firings'[a] = IF a = c THEN NoFirings ELSE firings[a]
    BY <1>1, <2>1 DEF CronTypes
  <2> QED BY <1>1, <1>3, <2>1, <2>3, <2>4, RowsMove
<1>6. ASSUME NEW c \in PgCrons, DeleteCronRow(c) PROVE PgCronInv'
  <2>1. cronRow' = [cronRow EXCEPT ![c] = NoCronRow] /\ UNCHANGED <<date, beat, keeper, firings>>
    BY <1>6 DEF DeleteCronRow
  <2>2. NoCronRow \in CronRows /\ ~ NoCronRow.there
    BY <1>2 DEF CronRows, NoCronRow
  <2>3. CronTypes'
    BY <1>1, <2>1, <2>2 DEF CronTypes
  <2>4. \A a \in PgCrons : cronRow'[a] = IF a = c THEN NoCronRow ELSE cronRow[a]
    BY <1>1, <2>1 DEF CronTypes
  <2> QED BY <1>1, <2>1, <2>2, <2>3, <2>4, RowsMove
<1>7. ASSUME NEW c \in PgCrons, NEW k \in Keepers, SelectForUpdate(k, c) PROVE PgCronInv'
  <2>1. PICK on \in BOOLEAN, rescheduled \in BOOLEAN :
          keeper' = [keeper EXCEPT ![k] = [pc |-> "update", id |-> c, on |-> on,
                                           due |-> IF rescheduled THEN NextCronDate(date) ELSE 0]]
    BY <1>7 DEF SelectForUpdate
  <2>2. UNCHANGED <<date, cronRow, beat, firings>>
    BY <1>7 DEF SelectForUpdate
  <2>3. [pc |-> "update", id |-> c, on |-> on, due |-> IF rescheduled THEN NextCronDate(date) ELSE 0] \in KeeperCalls
    BY <1>2 DEF KeeperCalls
  <2>4. CronTypes'
    BY <1>1, <2>1, <2>2, <2>3 DEF CronTypes
  <2> QED BY <1>1, <2>2, <2>4, RowsMove
<1>8. ASSUME NEW k \in Keepers, UpdateCronRow(k) PROVE PgCronInv'
  <2> DEFINE q == keeper[k]
             row == [cronRow[q.id] EXCEPT !.on = q.on, !.due = IF q.due = 0 THEN @ ELSE q.due]
  <2>1. /\ q.pc = "update"
        /\ cronRow' = IF cronRow[q.id].there
                      THEN [cronRow EXCEPT ![q.id].on = q.on, ![q.id].due = IF q.due = 0 THEN @ ELSE q.due]
                      ELSE cronRow
        /\ firings' = [firings EXCEPT ![q.id] = IF q.due = 0 THEN @ ELSE NoFirings]
        /\ keeper' = [keeper EXCEPT ![k] = Resting] /\ UNCHANGED <<date, beat>>
    BY <1>8 DEF UpdateCronRow
  <2>2. q.id \in PgCrons /\ q.on \in BOOLEAN /\ q.due \in 0..MaxDate + 1
    BY <1>1, <2>1 DEF CronTypes, KeeperCalls, Resting
  <2>3. row \in CronRows /\ (q.due = 0 => row.due = cronRow[q.id].due)
    BY <1>1, <2>2 DEF CronTypes, CronRows
  <2>4. cronRow' = IF cronRow[q.id].there THEN [cronRow EXCEPT ![q.id] = row] ELSE cronRow
    BY <1>1, <2>1, <2>2 DEF CronTypes
  <2>5. \A a \in PgCrons : /\ cronRow'[a] = IF a = q.id /\ cronRow[q.id].there THEN row ELSE cronRow[a]
                           /\ firings'[a] = IF a = q.id /\ q.due # 0 THEN NoFirings ELSE firings[a]
    <3> HIDE DEF row, q
    <3> QED BY <1>1, <2>1, <2>2, <2>4 DEF CronTypes
  <2>6. Resting \in KeeperCalls
    BY DEF KeeperCalls
  <2>7. CronTypes'
    <3>1. cronRow' \in [PgCrons -> CronRows] /\ firings' \in [PgCrons -> [0..MaxDate -> Nat]]
      <4> HIDE DEF row, q
      <4> QED BY <1>1, <1>3, <2>1, <2>2, <2>3, <2>4 DEF CronTypes
    <3>2. keeper' \in [Keepers -> KeeperCalls]
      BY <1>1, <2>1, <2>6 DEF CronTypes
    <3> QED BY <1>1, <2>1, <3>1, <3>2 DEF CronTypes
  <2> HIDE DEF row, q
  <2>8. \A c \in PgCrons, d \in 0..MaxDate :
           /\ firings'[c][d] \in {0, firings[c][d]}
           /\ firings'[c][d] # 0 /\ cronRow'[c].there => cronRow[c].there /\ cronRow'[c].due = cronRow[c].due
    BY <1>3, <2>3, <2>5
  <2>9. UNCHANGED beat /\ date <= date'
    BY <1>1, <2>1
  <2> QED BY <2>7, <2>8, <2>9, RowsMove
<1> QED BY <1>4, <1>5, <1>6, <1>7, <1>8

\* The due rows are read: none of their dates was fired.
LEMMA SelectDueKeeps == ASSUME PgCronInv, NEW s \in Schedulers, SelectDue(s) PROVE PgCronInv'
<1> DEFINE due == {c \in PgCrons : cronRow[c].there /\ cronRow[c].on /\ cronRow[c].due <= date}
           of == {[id |-> c, due |-> cronRow[c].due] : c \in due}
           b == [Asleep EXCEPT !.pc = "pass", !.now = date, !.todo = due, !.of = of]
<1>1. /\ beat' = [beat EXCEPT ![s] = b] /\ UNCHANGED <<date, cronRow, keeper, firings>>
  BY DEF SelectDue
<1>2. CronTypes /\ date \in Nat /\ MaxDate \in Nat /\ date <= MaxDate
  BY PgCronAssumption DEF PgCronInv, CronTypes
<1>3. ASSUME NEW c \in due PROVE /\ c \in PgCrons /\ cronRow[c].there
                                 /\ cronRow[c].due \in 0..date /\ cronRow[c].due \in 0..MaxDate
  BY <1>2, <1>3 DEF CronTypes, CronRows
<1>4. of \subseteq Dues(date) /\ of \subseteq [id : PgCrons, due : 0..MaxDate]
  BY <1>3 DEF Dues
<1>5. /\ b.pc = "pass" /\ b.now = date /\ b.todo = due /\ b.of = of /\ b.moved = {} /\ b.runs = {}
      /\ b \in Beats
  <2>1. due \in SUBSET PgCrons /\ date \in 0..MaxDate
    BY <1>2
  <2> HIDE DEF due, of
  <2>2. b \in Beats
    BY <1>4, <2>1, AsleepIs DEF Beats
  <2>3. /\ b.pc = "pass" /\ b.now = date /\ b.todo = due /\ b.of = of
        /\ b.moved = Asleep.moved /\ b.runs = Asleep.runs
    BY AsleepIs DEF Beats
  <2> HIDE DEF b
  <2> QED BY <2>2, <2>3, AsleepIs
<1>6. /\ \A c \in due : \E o \in of : o.id = c
      /\ \A o, p \in of : o.id = p.id => o = p
      /\ \A o \in of : o.id \in due /\ o.due = cronRow[o.id].due
  <2>1. ASSUME NEW c \in due PROVE \E o \in of : o.id = c
    <3>1. [id |-> c, due |-> cronRow[c].due] \in of
      OBVIOUS
    <3> QED BY <3>1
  <2>2. ASSUME NEW o \in of
        PROVE  o.id \in due /\ o.due = cronRow[o.id].due /\ o = [id |-> o.id, due |-> cronRow[o.id].due]
    <3>1. PICK c \in due : o = [id |-> c, due |-> cronRow[c].due]
      OBVIOUS
    <3> HIDE DEF due, of
    <3> QED BY <3>1
  <2> HIDE DEF due, of
  <2>3. ASSUME NEW o \in of, NEW p \in of, o.id = p.id PROVE o = p
    BY <2>2, <2>3
  <2> QED BY <2>1, <2>2, <2>3
<1>7. ASSUME FiringsInv(s), NEW o \in of PROVE firings[o.id][o.due] = 0
  <2>1. o.id \in due /\ o.due = cronRow[o.id].due
    BY <1>6
  <2>2. o.id \in PgCrons /\ cronRow[o.id].there /\ o.due \in 0..MaxDate
    <3> HIDE DEF due, of
    <3> QED BY <1>3, <2>1
  <2>3. ~ (o.due < cronRow[o.id].due)
    BY <2>1, <2>2
  <2> HIDE DEF due, of
  <2> QED BY <1>7, <2>2, <2>3 DEF FiringsInv
<1> HIDE DEF due, of, b
<1>8. beat'[s] = b
  BY <1>1, <1>2 DEF CronTypes
<1>9. PassInv(s)'
  BY <1>1, <1>2, <1>4, <1>5, <1>6, <1>8 DEF PassInv, Pending
<1> QED BY <1>1, <1>5, <1>7, <1>9, PassMoves

\* A cron is fired, in the transaction of the pass.
LEMMA FireRowKeeps ==
  ASSUME PgCronInv, NEW s \in Schedulers, NEW c \in PgCrons, FireRow(s, c)
  PROVE  PgCronInv'
<1> DEFINE run == [id |-> c, due |-> DueOf(s, c)]
           b == [beat[s] EXCEPT !.pc = "fired", !.todo = @ \ {c}, !.runs = @ \cup {run}]
<1>1. /\ beat[s].pc = "pass" /\ c \in beat[s].todo
      /\ beat' = [beat EXCEPT ![s].pc = "fired", ![s].todo = @ \ {c}, ![s].runs = @ \cup {run}]
      /\ UNCHANGED <<date, cronRow, keeper, firings>>
  BY DEF FireRow
<1>2. CronTypes /\ PassInv(s) /\ beat[s] \in Beats
  BY DEF PgCronInv, CronTypes
<1>3. run \in beat[s].of
  <2>1. PICK o \in beat[s].of : o.id = c
    BY <1>1, <1>2 DEF PassInv
  <2>2. DueOf(s, c) = o.due
    BY <1>2, <2>1 DEF DueOf, PassInv
  <2>3. o = [id |-> c, due |-> o.due]
    BY <1>2, <2>1 DEF Beats
  <2> QED BY <2>1, <2>2, <2>3
<1>4. run.id = c
  OBVIOUS
<1> HIDE DEF run
<1>5. beat' = [beat EXCEPT ![s] = b]
  BY <1>1, <1>2 DEF CronTypes
<1>6. /\ b.pc = "fired" /\ b.now = beat[s].now /\ b.of = beat[s].of /\ b.moved = beat[s].moved
      /\ b.todo = beat[s].todo \ {c} /\ b.runs = beat[s].runs \cup {run}
  BY <1>2 DEF Beats
<1>7. b \in Beats
  BY <1>2, <1>3 DEF Beats
<1> HIDE DEF b
<1>8. beat'[s] = b
  BY <1>2, <1>5 DEF CronTypes
<1>9. Pending(s)' \subseteq {c}
  <2>1. Pending(s) = {}
    BY <1>1, <1>2 DEF PassInv
  <2> QED BY <1>4, <1>6, <1>8, <2>1 DEF Pending
<1>10. PassInv(s)'
  <2>1. beat'[s].moved \subseteq {r.id : r \in beat'[s].runs}
    BY <1>2, <1>6, <1>8 DEF PassInv
  <2>2. beat'[s].runs \subseteq beat'[s].of
    BY <1>2, <1>3, <1>6, <1>8 DEF PassInv
  <2>3. \A a \in beat'[s].todo : \E o \in beat'[s].of : o.id = a
    BY <1>2, <1>6, <1>8 DEF PassInv
  <2> QED BY <1>1, <1>2, <1>6, <1>8, <1>9, <2>1, <2>2, <2>3 DEF PassInv
<1> QED BY <1>1, <1>5, <1>6, <1>7, <1>10, PassMoves

\* The date of the cron fired last is moved.
LEMMA MoveDateKeeps == ASSUME PgCronInv, NEW s \in Schedulers, MoveDate(s) PROVE PgCronInv'
<1> DEFINE b == [beat[s] EXCEPT !.pc = "pass", !.moved = @ \cup Pending(s)]
<1>1. /\ beat[s].pc = "fired"
      /\ beat' = [beat EXCEPT ![s].pc = "pass", ![s].moved = @ \cup Pending(s)]
      /\ UNCHANGED <<date, cronRow, keeper, firings>>
  BY DEF MoveDate
<1>2. CronTypes /\ PassInv(s) /\ beat[s] \in Beats
  BY DEF PgCronInv, CronTypes
<1>3. beat' = [beat EXCEPT ![s] = b]
  BY <1>1, <1>2 DEF CronTypes
<1>4. /\ b.pc = "pass" /\ b.now = beat[s].now /\ b.of = beat[s].of /\ b.moved = beat[s].moved \cup Pending(s)
      /\ b.todo = beat[s].todo /\ b.runs = beat[s].runs
  BY <1>2 DEF Beats
<1>5. Pending(s) \subseteq PgCrons /\ Pending(s) \subseteq {r.id : r \in beat[s].runs}
  BY <1>2 DEF Pending, Beats
<1>6. b \in Beats
  <2> HIDE DEF Pending
  <2> QED BY <1>2, <1>5 DEF Beats
<1> HIDE DEF b
<1>7. beat'[s] = b
  BY <1>2, <1>3 DEF CronTypes
<1>8. Pending(s)' = {}
  BY <1>4, <1>7 DEF Pending
<1>9. PassInv(s)'
  BY <1>1, <1>2, <1>4, <1>5, <1>7, <1>8 DEF PassInv
<1> QED BY <1>1, <1>3, <1>4, <1>6, <1>9, PassMoves

\* The pass is rolled back.
LEMMA FailPassKeeps == ASSUME PgCronInv, NEW s \in Schedulers, FailPass(s) PROVE PgCronInv'
<1>1. beat' = [beat EXCEPT ![s] = Asleep] /\ UNCHANGED <<date, cronRow, keeper, firings>>
  BY DEF FailPass
<1>2. CronTypes /\ date \in Nat
  BY DEF PgCronInv, CronTypes
<1>3. beat'[s] = Asleep
  BY <1>1, <1>2 DEF CronTypes
<1>4. PassInv(s)'
  BY <1>1, <1>2, <1>3, AsleepIs DEF PassInv, Pending
<1> QED BY <1>1, <1>4, AsleepIs, PassMoves

\* The pass commits its runs together with the dates it moved.
LEMMA CommitPassKeeps == ASSUME PgCronInv, NEW s \in Schedulers, CommitPass(s) PROVE PgCronInv'
<1> DEFINE b == beat[s]
           row(c) == [cronRow[c] EXCEPT !.due = NextCronDate(b.now)]
<1>1. /\ b.pc = "pass"
      /\ cronRow' = [c \in PgCrons |-> IF c \in b.moved /\ cronRow[c].there THEN row(c) ELSE cronRow[c]]
      /\ firings' = [c \in PgCrons |-> [d \in 0..MaxDate |->
                       IF Fired(s, c, d) THEN firings[c][d] + 1 ELSE firings[c][d]]]
      /\ beat' = [beat EXCEPT ![s] = Asleep] /\ UNCHANGED <<date, keeper>>
  BY DEF CommitPass
<1>2. CronTypes /\ PassInv(s) /\ b \in Beats /\ date \in Nat /\ MaxDate \in Nat /\ b.now \in 0..MaxDate
      /\ b.now \in Nat
  BY PgCronAssumption DEF PgCronInv, CronTypes, Beats
<1>3. \A c \in PgCrons : /\ row(c) \in CronRows /\ row(c).there = cronRow[c].there
                         /\ row(c).due = b.now + 1
  <2>1. NextCronDate(b.now) \in 0..MaxDate + 1 /\ NextCronDate(b.now) = b.now + 1
    BY <1>2 DEF NextCronDate
  <2>2. \A c \in PgCrons : cronRow[c] \in CronRows
    BY <1>2 DEF CronTypes
  <2> HIDE DEF b
  <2> QED BY <2>1, <2>2 DEF CronRows
<1> HIDE DEF row
<1>4. CronTypes'
  <2>1. cronRow' \in [PgCrons -> CronRows]
    BY <1>1, <1>2, <1>3 DEF CronTypes
  <2>2. firings' \in [PgCrons -> [0..MaxDate -> Nat]]
    <3>1. \A c \in PgCrons, d \in 0..MaxDate : firings[c][d] \in Nat
      BY <1>2 DEF CronTypes
    <3> QED BY <1>1, <3>1
  <2>3. beat' \in [Schedulers -> Beats]
    BY <1>1, <1>2, AsleepIs DEF CronTypes
  <2> QED BY <1>1, <1>2, <2>1, <2>2, <2>3 DEF CronTypes
<1>5. beat'[s] = Asleep /\ \A r \in Schedulers \ {s} : beat'[r] = beat[r]
  BY <1>1, <1>2 DEF CronTypes
<1>6. \A r \in Schedulers : PassInv(r)'
  <2>1. PassInv(s)'
    BY <1>1, <1>2, <1>5, AsleepIs DEF PassInv, Pending
  <2>2. ASSUME NEW r \in Schedulers, r # s PROVE PassInv(r)'
    BY <1>1, <1>5, <2>2 DEF PgCronInv, PassInv, Pending
  <2> QED BY <2>1, <2>2
<1>7. ASSUME NEW c \in PgCrons, NEW d \in 0..MaxDate, FiringsInv(s)
      PROVE  /\ firings'[c][d] <= 1
             /\ firings'[c][d] # 0 => d <= date
             /\ firings'[c][d] # 0 /\ cronRow'[c].there => d < cronRow'[c].due
  <2>1. firings[c][d] \in Nat
    BY <1>2 DEF CronTypes
  <2>2. firings[c][d] # 0 => d <= b.now
    BY <1>1, <1>7 DEF FiringsInv
  <2>3. CASE Fired(s, c, d)
    <3> DEFINE run == [id |-> c, due |-> d]
    <3>1. run \in b.runs /\ run.id = c /\ run.due = d
      BY <2>3 DEF Fired
    <3> HIDE DEF run
    <3>2. run \in b.of /\ d <= b.now /\ c \in b.moved
      BY <1>1, <1>2, <3>1 DEF PassInv, Dues, Pending
    <3>3. firings[c][d] = 0 /\ firings'[c][d] = 1
      BY <1>1, <1>7, <2>3, <3>1, <3>2 DEF FiringsInv
    <3>4. d <= date
      BY <1>2, <3>2 DEF PassInv
    <3>5. cronRow'[c].there => d < cronRow'[c].due
      BY <1>1, <1>2, <1>3, <3>2
    <3> QED BY <3>3, <3>4, <3>5
  <2>4. CASE ~ Fired(s, c, d)
    <3>1. firings'[c][d] = firings[c][d]
      BY <1>1, <2>4
    <3>2. firings[c][d] # 0 /\ cronRow'[c].there => d < cronRow'[c].due
      <4>1. CASE c \in b.moved
        BY <1>1, <1>2, <1>3, <2>2, <4>1
      <4>2. CASE c \notin b.moved
        BY <1>1, <1>7, <4>2 DEF FiringsInv
      <4> QED BY <4>1, <4>2
    <3> QED BY <1>7, <3>1, <3>2 DEF FiringsInv
  <2> QED BY <2>3, <2>4
<1>8. ASSUME NEW r \in Schedulers, Schedulers = {r} PROVE FiringsInv(r)'
  <2>1. r = s /\ FiringsInv(s)
    BY <1>8 DEF PgCronInv
  <2>2. beat'[r].pc = "asleep"
    BY <1>5, <2>1, AsleepIs
  <2> QED BY <1>1, <1>7, <2>1, <2>2 DEF FiringsInv
<1> QED BY <1>4, <1>6, <1>8 DEF PgCronInv

\* No date was fired and no pass has begun.
LEMMA PgCronStart == PgCronInit => PgCronInv
<1> SUFFICES ASSUME PgCronInit PROVE PgCronInv
  OBVIOUS
<1>1. /\ date = 0 /\ cronRow = [c \in PgCrons |-> NoCronRow] /\ beat = [s \in Schedulers |-> Asleep]
      /\ keeper = [k \in Keepers |-> Resting] /\ firings = [c \in PgCrons |-> NoFirings]
  BY DEF PgCronInit
<1>2. 0 \in 0..MaxDate /\ 0 \in 0..MaxDate + 1
  BY PgCronAssumption
<1>3. CronTypes
  <2>1. NoCronRow \in CronRows
    BY <1>2 DEF NoCronRow, CronRows
  <2>2. Resting \in KeeperCalls
    BY DEF KeeperCalls
  <2>3. NoFirings \in [0..MaxDate -> Nat]
    BY DEF NoFirings
  <2> QED BY <1>1, <1>2, <2>1, <2>2, <2>3, AsleepIs DEF CronTypes
<1>4. ASSUME NEW s \in Schedulers PROVE PassInv(s)
  <2>1. beat[s] = Asleep
    BY <1>1
  <2> QED BY <1>1, <2>1, AsleepIs DEF PassInv, Pending
<1>5. ASSUME NEW s \in Schedulers PROVE FiringsInv(s)
  <2>1. beat[s] = Asleep /\ \A c \in PgCrons, d \in 0..MaxDate : firings[c][d] = 0
    BY <1>1 DEF NoFirings
  <2> QED BY <2>1, AsleepIs DEF FiringsInv
<1> QED BY <1>3, <1>4, <1>5 DEF PgCronInv

\* Every request, every step of a pass and every tick keeps the invariant.
LEMMA PgCronStep == PgCronInv /\ [PgCronNext]_pcVars => PgCronInv'
<1> SUFFICES ASSUME PgCronInv, [PgCronNext]_pcVars PROVE PgCronInv'
  OBVIOUS
<1>1. CASE UNCHANGED pcVars
  BY <1>1 DEF pcVars, PgCronInv, CronTypes, PassInv, FiringsInv, Pending
<1>2. CASE PgCronNext
  BY <1>2, RequestsKeep, SelectDueKeeps, FireRowKeeps, MoveDateKeeps, CommitPassKeeps, FailPassKeeps
     DEF PgCronNext
<1> QED BY <1>1, <1>2

\* With one scheduler the invariant bounds the firings of every date.
LEMMA PgCronSafe == PgCronInv => OncePerDate
<1> SUFFICES ASSUME PgCronInv, Cardinality(Schedulers) = 1,
                    NEW c \in PgCrons, NEW d \in 0..MaxDate
             PROVE  firings[c][d] <= 1
  BY DEF OncePerDate
<1>1. PICK s : Schedulers = {s}
  BY PgCronAssumption, FS_Singleton
<1> QED BY <1>1 DEF PgCronInv, FiringsInv

(***************************************************************************)
(* The crons of the in-memory runtime                                      *)
(***************************************************************************)
\* The crons that are in the list the pass walks over, or in the store's.
Walked(c) == \E i \in 1..Len(walk.rest) : walk.rest[i] = c
HandedOut(c) == walk.pc \in {"creating", "advancing"} /\ walk.id = c

\* The records of crons, and the walk of the scheduler over distinct ones of them, of which
\* the one that is handed out is none.
WalkTypes ==
  /\ clock \in 0..MaxClock
  /\ cron \in [CronIds -> {NoCron} \cup Cron]
  /\ \A f \in fired : f.id \in CronIds /\ f.date \in Nat
  /\ walk \in Pass

WalkOnce ==
  /\ walk.now <= clock
  /\ walk.pc = "asleep" => walk.rest = <<>>
  /\ \A i, j \in 1..Len(walk.rest) : walk.rest[i] = walk.rest[j] => i = j
  /\ \A c \in CronIds : Walked(c) \/ HandedOut(c) => cron[c] # NoCron
  /\ \A c \in CronIds : ~ (Walked(c) /\ HandedOut(c))

\* What was fired was due at the time of the pass, and is in the past of every cron that a
\* pass can still come to; the cron that is handed out has not been fired for its date.
DatesPast ==
  /\ \A f \in fired : f.date <= walk.now /\ f.times = 1
  /\ \A f \in fired : cron[f.id].live \/ Walked(f.id) =>
                        (walk.pc = "advancing" /\ walk.id = f.id) \/ f.date < cron[f.id].next
  /\ walk.pc \in {"creating", "advancing"} => walk.date <= walk.now
  /\ walk.pc = "creating" => \A f \in fired : ~ (f.id = walk.id /\ f.date = walk.date)

DatesInv == WalkTypes /\ WalkOnce /\ DatesPast

\* next_cron_date is in the future of the time it is computed for.
LEMMA NextDateIsLater ==
  ASSUME NEW s \in Schedules, NEW t \in Nat
  PROVE  NextDate(s, t) \in Nat /\ NextDate(s, t) > t
<1>1. Period[s] \in Nat \ {0}
  BY CronStoreAssumption DEF Schedules
<1> DEFINE p == Period[s]
<1>2. p \in Nat \ {0}
  BY <1>1
<1> HIDE DEF p
<1>3. ((t \div p) + 1) * p \in Nat
  BY <1>2
<1>4. ((t \div p) + 1) * p > t
  BY <1>2
<1> QED BY <1>3, <1>4 DEF NextDate, p

\* A record that is there has all its fields.
LEMMA CronFields ==
  ASSUME WalkTypes, NEW c \in CronIds
  PROVE  /\ cron[c] # NoCron => cron[c] \in Cron
         /\ cron[c].live => cron[c] \in Cron /\ cron[c] # NoCron
         /\ cron[c] \in Cron => cron[c].next \in Nat /\ cron[c].sched \in Schedules
<1>1. cron[c] \in {NoCron} \cup Cron
  BY DEF WalkTypes
<1>2. ~ NoCron.live
  BY DEF NoCron
<1> QED BY <1>1, <1>2 DEF Cron

\* The fields of the scheduler's pass.
LEMMA WalkFields ==
  ASSUME WalkTypes
  PROVE  /\ walk.rest \in Seq(CronIds) /\ walk.now \in 0..MaxClock /\ walk.now \in Nat
         /\ walk.id \in CronIds /\ walk.date \in Nat /\ walk.sched \in Schedules
         /\ clock \in Nat /\ MaxClock \in Nat /\ clock <= MaxClock
<1> QED BY CronStoreAssumption DEF WalkTypes, Pass

\* A record that has a next date is a cron, and remains one.
LEMMA NotNoCron ==
  ASSUME NEW x \in Cron PROVE x # NoCron
<1>1. "next" \in DOMAIN x /\ "next" \notin DOMAIN NoCron
  BY DEF Cron, NoCron
<1> QED BY <1>1

\* Requests change records, append to the list that is walked over or replace the store's;
\* dates of crons that are walked over or live move to the future of the pass only.
LEMMA CronsMove ==
  ASSUME DatesInv, WalkTypes', WalkOnce', UNCHANGED fired,
         walk'.pc = walk.pc, walk'.now = walk.now, walk'.id = walk.id, walk'.date = walk.date,
         \A c \in CronIds : cron'[c].live \/ Walked(c)' =>
            \/ cron'[c].next > walk.now
            \/ (cron[c].live \/ Walked(c)) /\ cron'[c].next = cron[c].next
  PROVE  DatesInv'
<1>1. WalkTypes /\ WalkOnce /\ DatesPast
  BY DEF DatesInv
<1>2. ASSUME NEW f \in fired', cron'[f.id].live \/ Walked(f.id)'
      PROVE  (walk'.pc = "advancing" /\ walk'.id = f.id) \/ f.date < cron'[f.id].next
  <2>1. f \in fired /\ f.id \in CronIds /\ f.date \in Nat /\ f.date <= walk.now /\ walk.now \in Nat
    BY <1>1, WalkFields DEF WalkTypes, DatesPast
  <2>2. cron'[f.id] # NoCron
    BY <1>2, <2>1 DEF WalkOnce, NoCron
  <2>3. cron'[f.id] \in Cron /\ cron'[f.id].next \in Nat
    <3>1. cron'[f.id] \in {NoCron} \cup Cron
      BY <2>1 DEF WalkTypes
    <3> QED BY <2>2, <3>1 DEF Cron
  <2>4. CASE cron'[f.id].next > walk.now
    BY <2>1, <2>3, <2>4
  <2>5. CASE (cron[f.id].live \/ Walked(f.id)) /\ cron'[f.id].next = cron[f.id].next
    BY <1>1, <2>1, <2>5 DEF DatesPast
  <2> QED BY <1>2, <2>1, <2>4, <2>5
<1>3. DatesPast'
  BY <1>1, <1>2 DEF DatesPast
<1> QED BY <1>3 DEF DatesInv

\* The walk is over the same list, or its end is told apart from the store's list.
LEMMA WalkSame ==
  ASSUME DatesInv, walk' = walk \/ walk' = Rebound
  PROVE  /\ walk'.pc = walk.pc /\ walk'.rest = walk.rest /\ walk'.now = walk.now /\ walk'.id = walk.id
         /\ walk'.date = walk.date /\ walk' \in Pass
         /\ \A c : (Walked(c)' <=> Walked(c)) /\ (HandedOut(c)' <=> HandedOut(c))
<1>1. walk \in Pass
  BY DEF DatesInv, WalkTypes
<1>2. /\ walk'.pc = walk.pc /\ walk'.rest = walk.rest /\ walk'.now = walk.now /\ walk'.id = walk.id
      /\ walk'.date = walk.date /\ walk' \in Pass
  BY <1>1 DEF Rebound, Pass
<1> QED BY <1>2 DEF Walked, HandedOut

\* A cron is created: its next date is in the future, and the walk comes to it at its end.
LEMMA PutCronKeeps ==
  ASSUME DatesInv, NEW c \in CronIds, NEW a \in AssistantIds, NEW thread_ \in BOOLEAN, NEW s \in Schedules,
         PutCron(c, a, thread_, s)
  PROVE  DatesInv'
<1> DEFINE new == [live |-> TRUE, enabled |-> TRUE, asst |-> a, thread |-> thread_,
                   sched |-> s, next |-> NextDate(s, clock)]
<1>1. /\ cron[c] = NoCron /\ cron' = [cron EXCEPT ![c] = new] /\ UNCHANGED <<clock, fired>>
      /\ walk' = IF walk.same /\ walk.pc # "asleep" THEN [walk EXCEPT !.rest = Append(@, c)] ELSE walk
  BY DEF PutCron
<1>2. WalkTypes /\ WalkOnce
  BY DEF DatesInv
<1>3. /\ walk.rest \in Seq(CronIds) /\ walk.now \in Nat /\ clock \in Nat /\ walk.now <= clock
  BY <1>2, WalkFields DEF WalkOnce
<1>4. NextDate(s, clock) \in Nat /\ NextDate(s, clock) > walk.now
  <2>1. NextDate(s, clock) \in Nat /\ NextDate(s, clock) > clock
    <3> HIDE DEF new
    <3> QED BY <1>3, NextDateIsLater
  <2> QED BY <1>3, <2>1
<1>5. new \in Cron /\ new.next = NextDate(s, clock)
  BY <1>4 DEF Cron
<1> HIDE DEF new
<1>6. \A k \in CronIds : cron'[k] = IF k = c THEN new ELSE cron[k]
  BY <1>1, <1>2 DEF WalkTypes
<1>7. /\ walk'.pc = walk.pc /\ walk'.now = walk.now /\ walk'.id = walk.id /\ walk'.date = walk.date
      /\ walk'.rest = walk.rest \/ (walk'.rest = Append(walk.rest, c) /\ walk.pc # "asleep")
      /\ walk' \in Pass
  <2>1. Append(walk.rest, c) \in Seq(CronIds) /\ walk \in Pass
    BY <1>2, <1>3 DEF WalkTypes
  <2>2. CASE walk.same /\ walk.pc # "asleep"
    <3>1. walk' = [walk EXCEPT !.rest = Append(walk.rest, c)]
      BY <1>1, <2>2
    <3> QED BY <2>1, <2>2, <3>1 DEF Pass
  <2>3. CASE ~ (walk.same /\ walk.pc # "asleep")
    BY <1>1, <2>1, <2>3
  <2> QED BY <2>2, <2>3
<1>8. WalkTypes'
  BY <1>1, <1>2, <1>5, <1>7 DEF WalkTypes
<1>9. ~ Walked(c) /\ ~ HandedOut(c)
  BY <1>1, <1>2 DEF WalkOnce
<1>10. \A k \in CronIds : Walked(k)' => Walked(k) \/ k = c
  BY <1>3, <1>7 DEF Walked
<1>11. \A k : HandedOut(k)' <=> HandedOut(k)
  BY <1>7 DEF HandedOut
<1>12. \A i, j \in 1..Len(walk'.rest) : walk'.rest[i] = walk'.rest[j] => i = j
  <2>1. CASE walk'.rest = walk.rest
    BY <1>2, <2>1 DEF WalkOnce
  <2>2. CASE walk'.rest = Append(walk.rest, c)
    BY <1>2, <1>3, <1>9, <2>2 DEF WalkOnce, Walked
  <2> QED BY <1>7, <2>1, <2>2
<1>13. WalkOnce'
  <2>1. \A k \in CronIds : (Walked(k) \/ HandedOut(k))' => cron'[k] # NoCron
    BY <1>2, <1>5, <1>6, <1>10, <1>11, NotNoCron DEF WalkOnce
  <2>2. \A k \in CronIds : ~ (Walked(k) /\ HandedOut(k))'
    BY <1>2, <1>9, <1>10, <1>11 DEF WalkOnce
  <2>3. (walk.pc = "asleep" => walk.rest = <<>>)' /\ walk'.now <= clock'
    BY <1>1, <1>2, <1>7 DEF WalkOnce
  <2> QED BY <1>12, <2>1, <2>2, <2>3 DEF WalkOnce
<1>14. \A k \in CronIds : cron'[k].live \/ Walked(k)' =>
            \/ cron'[k].next > walk.now
            \/ (cron[k].live \/ Walked(k)) /\ cron'[k].next = cron[k].next
  BY <1>4, <1>5, <1>6, <1>10
<1> QED BY <1>1, <1>7, <1>8, <1>13, <1>14, CronsMove

\* A cron is updated: its date stays, or is one in the future.
LEMMA UpdateCronKeeps ==
  ASSUME DatesInv, NEW c \in CronIds, NEW enabled \in BOOLEAN, NEW s \in Schedules, UpdateCron(c, enabled, s)
  PROVE  DatesInv'
<1> DEFINE due == IF s # cron[c].sched THEN NextDate(s, clock) ELSE cron[c].next
           new == [cron[c] EXCEPT !.enabled = enabled, !.sched = s, !.next = due]
<1>1. /\ cron[c].live /\ UNCHANGED <<clock, fired, walk>>
      /\ cron' = [cron EXCEPT ![c].enabled = enabled, ![c].sched = s,
                              ![c].next = IF s # cron[c].sched THEN NextDate(s, clock) ELSE @]
  BY DEF UpdateCron
<1>2. WalkTypes /\ WalkOnce /\ cron[c] \in Cron
  BY <1>1, CronFields DEF DatesInv
<1>3. walk.now \in Nat /\ clock \in Nat /\ walk.now <= clock
  BY <1>2, WalkFields DEF WalkOnce
<1>4. due \in Nat /\ (due = cron[c].next \/ due > walk.now)
  <2>1. NextDate(s, clock) \in Nat /\ NextDate(s, clock) > clock
    <3> HIDE DEF due, new
    <3> QED BY <1>3, NextDateIsLater
  <2>2. cron[c].next \in Nat
    BY <1>2 DEF Cron
  <2> QED BY <1>3, <2>1, <2>2
<1>5. cron' = [cron EXCEPT ![c] = new]
  BY <1>1, <1>2 DEF WalkTypes, Cron
<1>6. new \in Cron /\ new.next = due /\ new.live
  <2> HIDE DEF due
  <2> QED BY <1>1, <1>2, <1>4 DEF Cron
<1> HIDE DEF new, due
<1>7. \A k \in CronIds : cron'[k] = IF k = c THEN new ELSE cron[k]
  BY <1>2, <1>5 DEF WalkTypes
<1>8. WalkTypes'
  <2>1. cron' \in [CronIds -> {NoCron} \cup Cron]
    BY <1>2, <1>5, <1>6 DEF WalkTypes
  <2>2. UNCHANGED <<clock, fired, walk>>
    BY <1>1
  <2> QED BY <1>2, <2>1, <2>2 DEF WalkTypes
<1>9. /\ walk'.pc = walk.pc /\ walk'.now = walk.now /\ walk'.id = walk.id /\ walk'.date = walk.date
      /\ \A k : (Walked(k)' <=> Walked(k)) /\ (HandedOut(k)' <=> HandedOut(k))
  BY <1>1 DEF Walked, HandedOut
<1>10. WalkOnce'
  BY <1>1, <1>2, <1>6, <1>7, <1>9, NotNoCron DEF WalkOnce
<1>11. \A k \in CronIds : cron'[k].live \/ Walked(k)' =>
            \/ cron'[k].next > walk.now
            \/ (cron[k].live \/ Walked(k)) /\ cron'[k].next = cron[k].next
  BY <1>1, <1>4, <1>6, <1>7, <1>9
<1> QED BY <1>1, <1>8, <1>9, <1>10, <1>11, CronsMove

\* Crons are deleted: their records leave the store's list, which is a new one.
LEMMA RemovalKeeps ==
  ASSUME DatesInv, walk' = Rebound, UNCHANGED <<clock, fired>>,
         NEW gone \in SUBSET CronIds, \A c \in gone : cron[c].live,
         cron' = [c \in CronIds |-> IF c \in gone THEN Removed(c) ELSE cron[c]]
  PROVE  DatesInv'
<1>1. WalkTypes /\ WalkOnce
  BY DEF DatesInv
<1>2. ASSUME NEW c \in gone PROVE Removed(c) \in Cron /\ ~ Removed(c).live /\ Removed(c).next = cron[c].next
                                  /\ cron[c] # NoCron
  <2>1. cron[c] \in Cron
    BY <1>1, <1>2, CronFields
  <2> QED BY <2>1, NotNoCron DEF Removed, Cron
<1>3. \A c \in CronIds : cron'[c] = IF c \in gone THEN Removed(c) ELSE cron[c]
  OBVIOUS
<1>4. WalkTypes'
  <2>1. cron' \in [CronIds -> {NoCron} \cup Cron]
    BY <1>1, <1>2 DEF WalkTypes
  <2> QED BY <1>1, <2>1, WalkSame DEF WalkTypes
<1>5. WalkOnce'
  <2>1. \A c \in CronIds : cron'[c] = NoCron => cron[c] = NoCron
    BY <1>2, <1>3, NotNoCron
  <2> QED BY <1>1, <2>1, WalkSame DEF WalkOnce
<1>6. \A c \in CronIds : cron'[c].live \/ Walked(c)' => (cron[c].live \/ Walked(c)) /\ cron'[c].next = cron[c].next
  BY <1>2, <1>3, WalkSame
<1> QED BY <1>4, <1>5, <1>6, WalkSame, CronsMove

\* Crons go one by one, with their threads and their assistants.
LEMMA DeletionsKeep ==
  ASSUME DatesInv,
         \/ \E c \in CronIds : DeleteCron(c)
         \/ \E a \in AssistantIds : FinishDeleteAssistant(a)
  PROVE  DatesInv'
<1>1. WalkTypes
  BY DEF DatesInv
<1>2. ASSUME NEW c \in CronIds, DeleteCron(c) PROVE DatesInv'
  <2>1. cron[c].live /\ cron' = [cron EXCEPT ![c] = Removed(c)] /\ walk' = Rebound /\ UNCHANGED <<clock, fired>>
    BY <1>2 DEF DeleteCron
  <2>2. cron' = [k \in CronIds |-> IF k \in {c} THEN Removed(k) ELSE cron[k]]
    BY <1>1, <2>1 DEF WalkTypes
  <2>3. {c} \in SUBSET CronIds /\ \A k \in {c} : cron[k].live
    BY <2>1
  <2> QED BY <2>1, <2>2, <2>3, RemovalKeeps
<1>3. ASSUME NEW a \in AssistantIds, FinishDeleteAssistant(a) PROVE DatesInv'
  <2> DEFINE gone == {c \in CronIds : cron[c].live /\ cron[c].asst = a}
  <2>1. /\ walk' = Rebound /\ UNCHANGED <<clock, fired>>
        /\ cron' = [c \in CronIds |-> IF cron[c].live /\ cron[c].asst = a THEN Removed(c) ELSE cron[c]]
    BY <1>3 DEF FinishDeleteAssistant
  <2>2. cron' = [c \in CronIds |-> IF c \in gone THEN Removed(c) ELSE cron[c]]
    BY <2>1
  <2>3. gone \in SUBSET CronIds /\ \A c \in gone : cron[c].live
    OBVIOUS
  <2> HIDE DEF gone
  <2> QED BY <2>1, <2>2, <2>3, RemovalKeeps
<1> QED BY <1>2, <1>3

\* Time goes on, and assistants change without their crons.
LEMMA TickKeeps ==
  ASSUME DatesInv, UNCHANGED <<cron, walk, fired>>, clock' \in 0..MaxClock, clock <= clock'
  PROVE  DatesInv'
<1>1. WalkTypes /\ WalkOnce
  BY DEF DatesInv
<1>2. walk.now \in Nat /\ clock \in Nat /\ clock' \in Nat
  BY <1>1, WalkFields, CronStoreAssumption
<1>3. WalkTypes'
  BY <1>1 DEF WalkTypes
<1>4. WalkOnce' /\ DatesPast'
  BY <1>1, <1>2 DEF DatesInv, WalkOnce, DatesPast, Walked, HandedOut
<1> QED BY <1>3, <1>4 DEF DatesInv

\* A pass begins, over the live crons in some order, at a later time than the one before.
LEMMA StartPassKeeps == ASSUME DatesInv, StartPass PROVE DatesInv'
<1> DEFINE live == {c \in CronIds : cron[c].live}
           n == Cardinality(live)
<1>1. PICK list \in [1..n -> live] :
        /\ \A i, j \in DOMAIN list : i # j => list[i] # list[j]
        /\ walk' = [walk EXCEPT !.pc = "walking", !.rest = list, !.same = TRUE, !.now = clock]
  BY DEF StartPass
<1>2. walk.pc = "asleep" /\ UNCHANGED <<cron, clock, fired>>
  BY DEF StartPass
<1>3. WalkTypes /\ WalkOnce /\ DatesPast
  BY DEF DatesInv
<1>4. n \in Nat
  <2>1. IsFiniteSet(live)
    BY CronStoreAssumption, FS_Subset
  <2> HIDE DEF live
  <2> QED BY <2>1, FS_CardinalityType
<1>5. live \subseteq CronIds /\ \A c \in live : cron[c].live
  OBVIOUS
<1> HIDE DEF live, n
<1>6. list \in Seq(CronIds) /\ Len(list) = n /\ DOMAIN list = 1..n
  BY <1>4, <1>5, SeqDef
<1>7. clock \in 0..MaxClock
  BY <1>3 DEF WalkTypes
<1>8. /\ walk' \in Pass /\ walk'.pc = "walking" /\ walk'.rest = list /\ walk'.now = clock
  BY <1>1, <1>3, <1>6, <1>7 DEF WalkTypes, Pass
<1>9. WalkTypes'
  BY <1>2, <1>3, <1>8 DEF WalkTypes
<1>10. \A c : (Walked(c)' => c \in live) /\ ~ HandedOut(c)'
  BY <1>1, <1>6, <1>8 DEF Walked, HandedOut
<1>11. WalkOnce'
  <2>1. \A c \in CronIds : Walked(c)' => cron'[c] # NoCron
    BY <1>2, <1>5, <1>10 DEF NoCron
  <2>2. \A i, j \in 1..Len(walk'.rest) : walk'.rest[i] = walk'.rest[j] => i = j
    BY <1>1, <1>6, <1>8
  <2>3. walk'.now <= clock'
    BY <1>2, <1>7, <1>8
  <2> QED BY <1>8, <1>10, <2>1, <2>2, <2>3 DEF WalkOnce
<1>12. DatesPast'
  <2>1. \A f \in fired : f.date <= clock /\ f.times = 1
    <3>1. walk.now \in Nat /\ clock \in Nat /\ walk.now <= clock
      BY <1>3, WalkFields DEF WalkOnce
    <3> QED BY <1>3, <3>1 DEF DatesPast, WalkTypes
  <2>2. \A f \in fired : cron[f.id].live => f.date < cron[f.id].next
    BY <1>2, <1>3 DEF DatesPast
  <2>3. \A f \in fired : Walked(f.id)' => cron[f.id].live
    BY <1>5, <1>10
  <2> QED BY <1>2, <1>8, <2>1, <2>2, <2>3 DEF DatesPast
<1> QED BY <1>9, <1>11, <1>12 DEF DatesInv

\* The pass goes on to the next record of its list: over it, out with it or to its end.
LEMMA WalkOnKeeps == ASSUME DatesInv, WalkOn PROVE DatesInv'
<1> DEFINE c == Head(walk.rest)
           tail == Tail(walk.rest)
<1>1. /\ walk.pc = "walking" /\ UNCHANGED <<cron, clock, fired>>
      /\ \/ walk.rest = <<>> /\ walk' = [walk EXCEPT !.pc = "asleep"]
         \/ walk.rest # <<>> /\ walk' = [walk EXCEPT !.rest = tail]
         \/ walk.rest # <<>> /\ walk' = [walk EXCEPT !.pc = "asleep", !.rest = <<>>]
         \/ /\ walk.rest # <<>> /\ IsDue(c, walk.now)
            /\ walk' = [walk EXCEPT !.rest = tail, !.pc = "creating", !.id = c, !.date = cron[c].next,
                                    !.sched = cron[c].sched]
  BY DEF WalkOn
<1>2. WalkTypes /\ WalkOnce /\ DatesPast /\ walk.rest \in Seq(CronIds) /\ walk \in Pass
  BY WalkFields DEF DatesInv, WalkTypes
<1>3. ASSUME walk' \in Pass, walk'.now = walk.now, walk'.pc = "asleep" => walk'.rest = <<>>,
             walk'.pc # "advancing",
             \A i, j \in 1..Len(walk'.rest) : walk'.rest[i] = walk'.rest[j] => i = j,
             \A k \in CronIds : Walked(k)' => Walked(k) /\ ~ HandedOut(k)',
             \A k \in CronIds : HandedOut(k)' => Walked(k) /\ walk'.date <= walk.now /\ walk'.date = cron[k].next
      PROVE  DatesInv'
  <2>1. WalkTypes'
    BY <1>1, <1>2, <1>3 DEF WalkTypes
  <2>2. WalkOnce'
    BY <1>1, <1>2, <1>3 DEF WalkOnce
  <2>3. \A f \in fired : f.id \in CronIds /\ f.date \in Nat
    BY <1>2 DEF WalkTypes
  <2>4. ASSUME NEW f \in fired, Walked(f.id) \/ cron[f.id].live PROVE f.date < cron[f.id].next
    BY <1>1, <1>2, <2>4 DEF DatesPast
  <2>5. ASSUME walk'.pc \in {"creating", "advancing"}
        PROVE  \E k \in CronIds : k = walk'.id /\ Walked(k) /\ walk'.date <= walk'.now /\ walk'.date = cron[k].next
    <3>1. PICK k \in CronIds : k = walk'.id
      BY <1>3 DEF Pass
    <3>2. HandedOut(k)'
      BY <2>5, <3>1 DEF HandedOut
    <3> QED BY <1>3, <3>1, <3>2
  <2>6. ASSUME walk'.pc = "creating", NEW f \in fired PROVE ~ (f.id = walk'.id /\ f.date = walk'.date)
    <3>1. PICK k \in CronIds : k = walk'.id /\ Walked(k) /\ walk'.date = cron[k].next
      BY <2>5, <2>6
    <3>2. f.id = k => f.date < walk'.date
      BY <2>4, <3>1
    <3>3. f.date \in Nat
      BY <2>3
    <3> QED BY <3>1, <3>2, <3>3
  <2>7. DatesPast'
    BY <1>1, <1>2, <1>3, <2>3, <2>4, <2>5, <2>6 DEF DatesPast
  <2> QED BY <2>1, <2>2, <2>7 DEF DatesInv
<1>4. CASE walk.rest = <<>> /\ walk' = [walk EXCEPT !.pc = "asleep"]
  <2>1. walk' \in Pass /\ walk'.pc = "asleep" /\ walk'.rest = <<>> /\ walk'.now = walk.now
    BY <1>2, <1>4 DEF Pass
  <2>2. \A k : ~ Walked(k)' /\ ~ HandedOut(k)'
    BY <2>1 DEF Walked, HandedOut
  <2> QED BY <1>3, <2>1, <2>2
<1>5. CASE walk.rest # <<>> /\ walk' = [walk EXCEPT !.pc = "asleep", !.rest = <<>>]
  <2>1. walk' \in Pass /\ walk'.pc = "asleep" /\ walk'.rest = <<>> /\ walk'.now = walk.now
    <3>1. <<>> \in Seq(CronIds)
      OBVIOUS
    <3> QED BY <1>2, <1>5, <3>1 DEF Pass
  <2>2. \A k : ~ Walked(k)' /\ ~ HandedOut(k)'
    BY <2>1 DEF Walked, HandedOut
  <2> QED BY <1>3, <2>1, <2>2
<1>6. ASSUME walk.rest # <<>>
      PROVE  /\ c \in CronIds /\ Walked(c) /\ tail \in Seq(CronIds)
             /\ \A i \in 1..Len(tail) : tail[i] # c /\ \E j \in 1..Len(walk.rest) : tail[i] = walk.rest[j]
             /\ \A i, j \in 1..Len(tail) : tail[i] = tail[j] => i = j
  <2>1. /\ Len(walk.rest) \in Nat \ {0} /\ c = walk.rest[1] /\ tail \in Seq(CronIds)
        /\ Len(tail) = Len(walk.rest) - 1 /\ \A i \in 1..Len(tail) : tail[i] = walk.rest[i + 1]
    BY <1>2, <1>6
  <2> HIDE DEF c, tail
  <2>2. \A i \in 1..Len(tail) : i + 1 \in 1..Len(walk.rest) /\ 1 \in 1..Len(walk.rest) /\ i + 1 # 1
    BY <2>1
  <2>3. c \in CronIds /\ Walked(c)
    BY <1>2, <2>1 DEF Walked
  <2>4. \A i \in 1..Len(tail) : tail[i] # c
    BY <1>2, <2>1, <2>2 DEF WalkOnce
  <2>5. \A i, j \in 1..Len(tail) : tail[i] = tail[j] => i = j
    <3> SUFFICES ASSUME NEW i \in 1..Len(tail), NEW j \in 1..Len(tail), tail[i] = tail[j] PROVE i = j
      OBVIOUS
    <3>1. i + 1 = j + 1
      BY <1>2, <2>1, <2>2 DEF WalkOnce
    <3> QED BY <3>1
  <2> QED BY <2>1, <2>2, <2>3, <2>4, <2>5
<1> HIDE DEF c, tail
<1>7. CASE walk.rest # <<>> /\ walk' = [walk EXCEPT !.rest = tail]
  <2>1. walk' \in Pass /\ walk'.pc = "walking" /\ walk'.rest = tail /\ walk'.now = walk.now
    BY <1>1, <1>2, <1>6, <1>7 DEF Pass
  <2>2. \A k : (Walked(k)' => Walked(k)) /\ ~ HandedOut(k)'
    BY <1>6, <1>7, <2>1 DEF Walked, HandedOut
  <2> QED BY <1>3, <1>6, <1>7, <2>1, <2>2
<1>8. CASE /\ walk.rest # <<>> /\ IsDue(c, walk.now)
           /\ walk' = [walk EXCEPT !.rest = tail, !.pc = "creating", !.id = c, !.date = cron[c].next,
                                   !.sched = cron[c].sched]
  <2>1. cron[c].next \in Nat /\ cron[c].sched \in Schedules /\ cron[c].next <= walk.now
    <3>1. cron[c] # NoCron
      BY <1>2, <1>6, <1>8 DEF WalkOnce
    <3> QED BY <1>2, <1>6, <1>8, <3>1, CronFields DEF IsDue
  <2>2. /\ walk' \in Pass /\ walk'.pc = "creating" /\ walk'.rest = tail /\ walk'.now = walk.now
        /\ walk'.id = c /\ walk'.date = cron[c].next
    BY <1>2, <1>6, <1>8, <2>1 DEF Pass
  <2>3. \A k : /\ Walked(k)' => Walked(k) /\ k # c
               /\ (HandedOut(k)' <=> k = c)
    BY <1>6, <1>8, <2>2 DEF Walked, HandedOut
  <2> QED BY <1>3, <1>6, <1>8, <2>1, <2>2, <2>3
<1> QED BY <1>1, <1>4, <1>5, <1>7, <1>8

\* The run of the date is created, or not.
LEMMA CreateCronRunKeeps == ASSUME DatesInv, CreateCronRun PROVE DatesInv'
<1> DEFINE before == {f \in fired : f.id = walk.id /\ f.date = walk.date}
           new == [id |-> walk.id, date |-> walk.date, times |-> IF before = {} THEN 1 ELSE 2]
<1>1. /\ walk.pc = "creating" /\ walk' = [walk EXCEPT !.pc = "advancing"]
      /\ fired' = fired \/ fired' = (fired \ before) \cup {new}
      /\ UNCHANGED <<cron, clock>>
  BY DEF CreateCronRun
<1>2. WalkTypes /\ WalkOnce /\ DatesPast /\ walk \in Pass
  BY DEF DatesInv, WalkTypes
<1>3. /\ walk' \in Pass /\ walk'.pc = "advancing" /\ walk'.rest = walk.rest /\ walk'.now = walk.now
      /\ walk'.id = walk.id /\ walk'.date = walk.date
  BY <1>1, <1>2 DEF Pass
<1>4. \A k : (Walked(k)' <=> Walked(k)) /\ (HandedOut(k)' <=> HandedOut(k))
  BY <1>1, <1>3 DEF Walked, HandedOut
<1>5. before = {}
  BY <1>1, <1>2 DEF DatesPast
<1>6. new.id = walk.id /\ new.date = walk.date /\ new.times = 1
  BY <1>5
<1> HIDE DEF new, before
<1>7. \A f \in fired' : f \in fired \/ f = new
  BY <1>1
<1>8. WalkTypes'
  BY <1>1, <1>2, <1>3, <1>6, <1>7, WalkFields DEF WalkTypes
<1>9. WalkOnce'
  BY <1>1, <1>2, <1>3, <1>4 DEF WalkOnce
<1>10. DatesPast'
  <2>1. \A f \in fired' : f.date <= walk'.now /\ f.times = 1
    BY <1>1, <1>2, <1>3, <1>6, <1>7 DEF DatesPast
  <2>2. \A f \in fired' : cron'[f.id].live \/ Walked(f.id)' =>
                            (walk'.pc = "advancing" /\ walk'.id = f.id) \/ f.date < cron'[f.id].next
    BY <1>1, <1>2, <1>3, <1>4, <1>6, <1>7 DEF DatesPast
  <2>3. walk'.date <= walk'.now /\ walk'.pc # "creating"
    BY <1>1, <1>2, <1>3 DEF DatesPast
  <2> QED BY <2>1, <2>2, <2>3 DEF DatesPast
<1> QED BY <1>8, <1>9, <1>10 DEF DatesInv

\* The date of the record moves to the future of the pass, if the record is still there.
LEMMA SetNextRunDateKeeps == ASSUME DatesInv, SetNextRunDate PROVE DatesInv'
<1> DEFINE c == walk.id
           due == IF cron[c].live THEN NextDate(walk.sched, walk.now) ELSE cron[c].next
           new == [cron[c] EXCEPT !.next = due]
<1>1. /\ walk.pc = "advancing" /\ walk' = [walk EXCEPT !.pc = "walking"]
      /\ cron' = [cron EXCEPT ![walk.id].next = IF cron[walk.id].live THEN NextDate(walk.sched, walk.now) ELSE @]
      /\ UNCHANGED <<clock, fired>>
  BY DEF SetNextRunDate
<1>2. WalkTypes /\ WalkOnce /\ DatesPast /\ walk \in Pass /\ c \in CronIds /\ walk.now \in Nat
  BY WalkFields DEF DatesInv, WalkTypes
<1>3. HandedOut(c) /\ ~ Walked(c) /\ cron[c] # NoCron
  BY <1>1, <1>2 DEF WalkOnce, HandedOut
<1>4. cron[c] \in Cron /\ cron[c].next \in Nat
  <2> HIDE DEF c
  <2> QED BY <1>2, <1>3, CronFields
<1>5. due \in Nat /\ (cron[c].live => due > walk.now)
  <2>1. NextDate(walk.sched, walk.now) \in Nat /\ NextDate(walk.sched, walk.now) > walk.now
    <3>1. walk.sched \in Schedules
      BY <1>2, WalkFields
    <3> HIDE DEF c, due, new
    <3> QED BY <1>2, <3>1, NextDateIsLater
  <2> QED BY <1>4, <2>1
<1>6. cron' = [cron EXCEPT ![c] = new]
  BY <1>1, <1>2, <1>4 DEF WalkTypes, Cron
<1>7. new \in Cron /\ new.next = due /\ new.live = cron[c].live
  <2> HIDE DEF due
  <2> QED BY <1>4, <1>5 DEF Cron
<1> HIDE DEF new, due
<1>8. \A k \in CronIds : cron'[k] = IF k = c THEN new ELSE cron[k]
  <2> HIDE DEF c
  <2> QED BY <1>2, <1>6 DEF WalkTypes
<1>9. /\ walk' \in Pass /\ walk'.pc = "walking" /\ walk'.rest = walk.rest /\ walk'.now = walk.now
  BY <1>1, <1>2 DEF Pass
<1>10. WalkTypes'
  <2>1. cron' \in [CronIds -> {NoCron} \cup Cron]
    <3> HIDE DEF c
    <3> QED BY <1>2, <1>6, <1>7 DEF WalkTypes
  <2> QED BY <1>1, <1>2, <1>9, <2>1 DEF WalkTypes
<1>11. \A k : (Walked(k)' <=> Walked(k)) /\ ~ HandedOut(k)'
  BY <1>9 DEF Walked, HandedOut
<1>12. WalkOnce'
  BY <1>1, <1>2, <1>7, <1>8, <1>9, <1>11, NotNoCron DEF WalkOnce
<1>13. ASSUME NEW f \in fired, cron'[f.id].live \/ Walked(f.id)' PROVE f.date < cron'[f.id].next
  <2>1. f.id \in CronIds /\ f.date \in Nat /\ f.date <= walk.now
    BY <1>2 DEF WalkTypes, DatesPast
  <2>2. CASE f.id = c
    <3>1. cron[c].live
      BY <1>2, <1>3, <1>7, <1>8, <1>11, <1>13, <2>2
    <3> QED BY <1>2, <1>5, <1>7, <1>8, <2>1, <2>2, <3>1
  <2>3. CASE f.id # c
    BY <1>2, <1>8, <1>11, <1>13, <2>1, <2>3 DEF DatesPast
  <2> QED BY <2>2, <2>3
<1>14. DatesPast'
  BY <1>1, <1>2, <1>9, <1>13 DEF DatesPast
<1> QED BY <1>10, <1>12, <1>14 DEF DatesInv

\* No cron is stored and the scheduler has not walked.
LEMMA DatesStart == CronStoreInit => DatesInv
<1> SUFFICES ASSUME CronStoreInit PROVE DatesInv
  OBVIOUS
<1> DEFINE id == CHOOSE c \in CronIds : TRUE
           sched == CHOOSE s \in Schedules : TRUE
<1>1. /\ cron = [c \in CronIds |-> NoCron] /\ clock = 0 /\ fired = {}
      /\ walk = [pc |-> "asleep", rest |-> <<>>, same |-> TRUE, now |-> 0, date |-> 0, id |-> id, sched |-> sched]
  BY DEF CronStoreInit
<1>2. id \in CronIds /\ sched \in Schedules
  BY CronStoreAssumption DEF Schedules
<1>3. 0 \in 0..MaxClock /\ <<>> \in Seq(CronIds)
  BY CronStoreAssumption
<1> HIDE DEF id, sched
<1>4. walk \in Pass /\ walk.pc = "asleep" /\ walk.rest = <<>> /\ walk.now = 0
  BY <1>1, <1>2, <1>3 DEF Pass
<1>5. WalkTypes
  BY <1>1, <1>3, <1>4 DEF WalkTypes
<1>6. WalkOnce
  BY <1>1, <1>4 DEF WalkOnce, Walked, HandedOut
<1>7. DatesPast
  BY <1>1, <1>4 DEF DatesPast
<1> QED BY <1>5, <1>6, <1>7 DEF DatesInv

\* Every request, every step of the walk and every tick keeps the invariant.
LEMMA DatesStep == DatesInv /\ [CronStoreNext]_csVars => DatesInv'
<1> SUFFICES ASSUME DatesInv, [CronStoreNext]_csVars PROVE DatesInv'
  OBVIOUS
<1>1. clock \in 0..MaxClock /\ MaxClock \in Nat
  BY CronStoreAssumption DEF DatesInv, WalkTypes
<1>2. CASE UNCHANGED <<cron, clock, walk, fired>>
  BY <1>1, <1>2, TickKeeps
<1>3. CASE Tick
  <2>1. UNCHANGED <<cron, walk, fired>> /\ clock' \in 0..MaxClock /\ clock <= clock'
    BY <1>1, <1>3 DEF Tick
  <2> QED BY <2>1, TickKeeps
<1>4. ASSUME NEW a \in AssistantIds,
             \/ \E config \in Configs : PutAssistant(a, config) \/ PatchAssistant(a, config)
             \/ \E n \in 1..MaxVersion : SetLatest(a, n)
             \/ BeginDeleteAssistant(a)
      PROVE  DatesInv'
  <2>1. UNCHANGED <<cron, clock, walk, fired>>
    BY <1>4 DEF PutAssistant, PatchAssistant, SetLatest, BeginDeleteAssistant
  <2> QED BY <1>2, <2>1
<1>5. CASE UNCHANGED csVars
  BY <1>2, <1>5 DEF csVars
<1>6. CASE CronStoreNext
  BY <1>3, <1>4, <1>6, DeletionsKeep, PutCronKeeps, UpdateCronKeeps, StartPassKeeps, WalkOnKeeps,
     CreateCronRunKeeps, SetNextRunDateKeeps DEF CronStoreNext
<1> QED BY <1>5, <1>6

\* What the walk has fired is what the invariant says was fired once.
LEMMA DatesSafe == DatesInv => FiresOncePerDate
<1> QED BY DEF DatesInv, DatesPast, FiresOncePerDate

\* No date of a cron is fired twice (Crons.next and set_next_run_date of both runtimes,
\* cron_scheduler): for all crons, schedules and times, and whatever requests do to the
\* crons meanwhile; in the Postgres runtime with one scheduler.
THEOREM DatesAlwaysFireOnce == Spec => []DatesFireOnce
<1>1. Init => DatesInv /\ PgCronInv
  BY DatesStart, PgCronStart DEF Init
<1>2. DatesInv /\ PgCronInv /\ [Next]_recordVars => DatesInv' /\ PgCronInv'
  <2>1. [Next]_recordVars => [CronStoreNext]_csVars /\ [PgCronNext]_pcVars
    BY DEF Next, Others, recordVars, csVars, pcVars
  <2> QED BY <2>1, DatesStep, PgCronStep
<1>3. DatesInv /\ PgCronInv => DatesFireOnce
  BY DatesSafe, PgCronSafe DEF DatesFireOnce
<1> QED BY <1>1, <1>2, <1>3, PTL DEF Spec

(***************************************************************************)
(* Listings                                                                *)
(***************************************************************************)
RowRecord ==
  [there : BOOLEAN, fits : BOOLEAN, mine : BOOLEAN, threadMine : BOOLEAN, created : Nat, updated : Nat]

ListTypes ==
  /\ query \in Queries /\ rows \in [1..NRows -> RowRecord] /\ now \in Nat \ {0}
  /\ pageWalk \in [pc : {"idle", "counted", "paging", "done", "refused"}, offset : Nat, got : SUBSET (1..NRows),
                   count : Nat, total : Nat, start : SUBSET (1..NRows), touched : SUBSET (1..NRows),
                   gone : BOOLEAN, changed : BOOLEAN]

\* The times of the rows are in the past, and distinct.
TimesApart ==
  /\ \A i \in 1..NRows : rows[i].created < now /\ rows[i].updated < now
  /\ \A i \in 1..NRows : rows[i].there => rows[i].created # 0 /\ rows[i].updated # 0
  /\ \A i, j \in 1..NRows : rows[i].created = rows[j].created /\ rows[i].created # 0 => i = j
  /\ \A i, j \in 1..NRows : rows[i].updated = rows[j].updated /\ rows[i].updated # 0 => i = j

\* The rows that are sorted and cut into pages, and the ones of them that are shown.
Sorted ==
  IF query.runtime = "pg" \/ query.kind = "runs" THEN Fitting
  ELSE {i \in Fitting : Own(i) /\ (query.kind = "crons" => OwnThread(i))}
Shown ==
  IF query.runtime = "inmem" THEN Sorted
  ELSE {i \in Fitting : IF query.kind = "runs" THEN MatchesFilter(TRUE) ELSE Own(i)}

RankIn(B, i) == Cardinality({j \in B : Before(j, i)})

\* The client that will be told of every row that stands still: it has seen it, or the row
\* is not in front of the page that comes next.
Told == /\ pageWalk.pc \in {"paging", "done"} /\ ~ pageWalk.gone
        /\ query.sort = "updatedAsc" => pageWalk.touched = {}
        /\ query.runtime = "pg" => query.form # "operator"

CoverInv ==
  Told => /\ pageWalk.start \subseteq Expected
          /\ \A i \in pageWalk.start \ pageWalk.touched :
               i \in pageWalk.got \/ (pageWalk.pc = "paging" /\ RankIn(Sorted, i) >= pageWalk.offset)

\* While nothing changes, the client has the rows in front of the next page.
CountInv ==
  (pageWalk.pc \in {"counted", "paging", "done"} /\ ~ pageWalk.changed /\ query.kind # "runs") =>
    /\ pageWalk.count = Cardinality(Shown)
    /\ pageWalk.offset <= Cardinality(Sorted)
    /\ pageWalk.got = IF pageWalk.pc = "done" THEN Shown
                      ELSE {i \in Shown : RankIn(Sorted, i) < pageWalk.offset}
    /\ pageWalk.pc = "done" /\ query.runtime = "inmem" => pageWalk.total = pageWalk.count

ListingInv ==
  /\ ListTypes /\ TimesApart
  /\ pageWalk.pc \in {"idle", "counted"} => pageWalk.offset = 0 /\ pageWalk.got = {}
  /\ pageWalk.pc = "counted" => query.kind # "runs"
  /\ pageWalk.pc \in {"paging", "done"} => ThreadFound
  /\ CoverInv /\ CountInv

\* Sets of rows are finite, and none has more than another one that includes it.
LEMMA RowsFinite ==
  ASSUME NEW B \in SUBSET (1..NRows)
  PROVE  /\ IsFiniteSet(B) /\ Cardinality(B) \in Nat
         /\ \A C \in SUBSET B : Cardinality(C) \in Nat /\ Cardinality(C) <= Cardinality(B)
<1>1. IsFiniteSet(1..NRows)
  BY ListingAssumption, FS_Interval
<1>2. IsFiniteSet(B)
  BY <1>1, FS_Subset
<1>3. ASSUME NEW C \in SUBSET B PROVE Cardinality(C) \in Nat /\ Cardinality(C) <= Cardinality(B)
  BY <1>2, FS_Subset, FS_CardinalityType
<1>4. Cardinality(B) \in Nat
  BY <1>2, FS_CardinalityType
<1> QED BY <1>2, <1>3, <1>4

\* The order of the search is a strict one of the rows that are there.
LEMMA Ordered ==
  ASSUME ListTypes, TimesApart
  PROVE  /\ Fitting \subseteq 1..NRows
         /\ \A i, j \in Fitting : i # j => Before(i, j) \/ Before(j, i)
         /\ \A i \in Fitting : ~ Before(i, i)
         /\ \A i, j, k \in Fitting : Before(i, j) /\ Before(j, k) => Before(i, k)
<1>1. \A i \in Fitting : i \in 1..NRows /\ SortKey(i) \in Nat
  BY DEF Fitting, SortKey, ListTypes, RowRecord
<1>2. \A i, j \in Fitting : SortKey(i) = SortKey(j) => i = j
  <2> SUFFICES ASSUME NEW i \in Fitting, NEW j \in Fitting, SortKey(i) = SortKey(j) PROVE i = j
    OBVIOUS
  <2>1. rows[i].created # 0 /\ rows[i].updated # 0 /\ i \in 1..NRows /\ j \in 1..NRows
    BY DEF Fitting, TimesApart
  <2> QED BY <2>1 DEF SortKey, TimesApart
<1>3. ASSUME NEW i \in Fitting, NEW j \in Fitting
      PROVE  Before(i, j) <=> IF query.sort = "default" THEN SortKey(i) > SortKey(j) ELSE SortKey(i) < SortKey(j)
  BY DEF Before
<1> QED BY <1>1, <1>2, <1>3

\* The rank of a row is the number of rows in front of it: ranks are distinct, and there is
\* a row at every one.
LEMMA RanksFill ==
  ASSUME ListTypes, TimesApart, NEW B \in SUBSET Fitting
  PROVE  /\ IsFiniteSet(B) /\ Cardinality(B) \in Nat
         /\ \A i \in B : RankIn(B, i) \in Nat /\ RankIn(B, i) < Cardinality(B)
         /\ \A i, j \in B : RankIn(B, i) = RankIn(B, j) => i = j
         /\ \A m \in Nat : m < Cardinality(B) => \E i \in B : RankIn(B, i) = m
<1> DEFINE front(i) == {j \in B : Before(j, i)}
           n == Cardinality(B)
           rank == [i \in B |-> Cardinality(front(i))]
<1>1. IsFiniteSet(B) /\ n \in Nat
  BY Ordered, RowsFinite
<1>2. ASSUME NEW i \in B PROVE IsFiniteSet(front(i)) /\ Cardinality(front(i)) \in Nat
  <2>1. front(i) \in SUBSET B
    OBVIOUS
  <2> HIDE DEF front
  <2> QED BY <1>1, <2>1, FS_Subset, FS_CardinalityType
<1>3. ASSUME NEW i \in B, NEW S \in SUBSET B, front(i) \subseteq S, i \in S
      PROVE  Cardinality(front(i)) < Cardinality(S)
  <2>1. i \notin front(i)
    BY Ordered
  <2> HIDE DEF front
  <2>2. /\ IsFiniteSet(front(i) \cup {i})
        /\ Cardinality(front(i) \cup {i}) = Cardinality(front(i)) + 1
    BY <1>2, <2>1, FS_AddElement
  <2>3. IsFiniteSet(S) /\ Cardinality(S) \in Nat
    BY <1>1, FS_Subset, FS_CardinalityType
  <2>4. front(i) \cup {i} \in SUBSET S
    BY <1>3
  <2>5. Cardinality(front(i) \cup {i}) <= Cardinality(S)
    BY <2>3, <2>4, FS_Subset
  <2> QED BY <1>2, <2>2, <2>3, <2>5
<1>4. \A i \in B : Cardinality(front(i)) < n
  <2>1. \A i \in B : front(i) \subseteq B
    OBVIOUS
  <2> HIDE DEF front
  <2> QED BY <1>3, <2>1
<1>5. ASSUME NEW i \in B, NEW j \in B, Before(i, j)
      PROVE  Cardinality(front(i)) < Cardinality(front(j))
  <2>1. front(i) \subseteq front(j) /\ i \in front(j) /\ front(j) \in SUBSET B
    BY <1>5, Ordered
  <2> HIDE DEF front
  <2> QED BY <1>3, <2>1
<1>6. ASSUME NEW i \in B, NEW j \in B, Cardinality(front(i)) = Cardinality(front(j)) PROVE i = j
  <2>1. ~ Before(i, j) /\ ~ Before(j, i)
    <3> HIDE DEF front
    <3> QED BY <1>2, <1>5, <1>6
  <2> QED BY <2>1, Ordered
<1>7. rank \in Injection(B, 0..n - 1)
  <2>1. \A i \in B : Cardinality(front(i)) \in 0..n - 1
    <3> HIDE DEF front, n
    <3> QED BY <1>1, <1>2, <1>4
  <2>2. rank \in [B -> 0..n - 1]
    <3> HIDE DEF front, n
    <3> QED BY <2>1
  <2>3. \A i, j \in B : rank[i] = rank[j] => i = j
    <3> HIDE DEF front
    <3> QED BY <1>6
  <2> HIDE DEF rank
  <2> QED BY <2>2, <2>3 DEF Injection, IsInjective
<1>8. IsFiniteSet(0..n - 1) /\ Cardinality(0..n - 1) = n
  <2> HIDE DEF n
  <2> QED BY <1>1, FS_Interval
<1>9. rank \in Surjection(B, 0..n - 1)
  <2> HIDE DEF rank
  <2> QED BY <1>7, <1>8, FS_Injection
<1>10. \A m \in 0..n - 1 : \E i \in B : rank[i] = m
  <2> HIDE DEF rank
  <2> QED BY <1>9 DEF Surjection
<1>11. \A i : RankIn(B, i) = Cardinality(front(i))
  BY DEF RankIn
<1>12. ASSUME NEW m \in Nat, m < n PROVE \E i \in B : RankIn(B, i) = m
  <2>1. m \in 0..n - 1
    BY <1>1, <1>12
  <2>2. PICK i \in B : rank[i] = m
    <3> HIDE DEF rank
    <3> QED BY <1>10, <2>1
  <2> HIDE DEF front
  <2> QED BY <1>11, <2>2
<1> HIDE DEF front, rank
<1> QED BY <1>1, <1>2, <1>4, <1>6, <1>11, <1>12

\* As many rows have their rank between two numbers as there are numbers.
LEMMA SliceOfRanks ==
  ASSUME ListTypes, TimesApart, NEW B \in SUBSET Fitting, NEW a \in Nat, NEW b \in Nat,
         a <= b, b <= Cardinality(B)
  PROVE  Cardinality({i \in B : a <= RankIn(B, i) /\ RankIn(B, i) < b}) = b - a
<1> DEFINE S == {i \in B : a <= RankIn(B, i) /\ RankIn(B, i) < b}
           rank == [i \in S |-> RankIn(B, i)]
<1>1. \A i, j \in S : rank[i] = rank[j] => i = j
  BY RanksFill
<1>2. rank \in [S -> a..b - 1]
  BY RanksFill
<1>3. rank \in Injection(S, a..b - 1)
  <2> HIDE DEF rank, S
  <2> QED BY <1>1, <1>2 DEF Injection, IsInjective
<1>4. ASSUME NEW m \in a..b - 1 PROVE \E i \in S : rank[i] = m
  <2>1. m \in Nat /\ m < Cardinality(B)
    BY RanksFill
  <2>2. PICK i \in B : RankIn(B, i) = m
    BY <2>1, RanksFill
  <2>3. i \in S
    BY <2>2
  <2> QED BY <2>2, <2>3
<1>5. rank \in Surjection(S, a..b - 1)
  <2> HIDE DEF rank, S
  <2> QED BY <1>2, <1>4 DEF Surjection
<1>6. IsFiniteSet(a..b - 1) /\ Cardinality(a..b - 1) = b - a
  <2> DEFINE c == b - 1
  <2>1. a \in Int /\ c \in Int /\ (IF a > c THEN 0 ELSE c - a + 1) = b - a
    OBVIOUS
  <2> HIDE DEF c
  <2>2. IsFiniteSet(a..c) /\ Cardinality(a..c) = IF a > c THEN 0 ELSE c - a + 1
    BY <2>1, FS_Interval
  <2> QED BY <2>1, <2>2 DEF c
<1> HIDE DEF rank, S
<1>7. Cardinality(S) = Cardinality(a..b - 1)
  BY <1>3, <1>5, <1>6, FS_Injection
<1> QED BY <1>6, <1>7 DEF S

\* What a search answers: the page of the sorted rows, as far as it is shown.
LEMMA AnsweredIs ==
  ASSUME ListTypes, ThreadFound
  PROVE  /\ Answered.page = Page(Sorted, pageWalk.offset) \cap Shown
         /\ Answered.more = (Cardinality(Sorted) > pageWalk.offset + PageLimit)
         /\ Shown \subseteq Sorted /\ Sorted \subseteq Fitting
         /\ query.runtime = "inmem" => Shown = Sorted
<1>1. query.kind \in {"assistants", "threads", "runs", "crons"} /\ query.runtime \in {"inmem", "pg"}
  BY ListingAssumption DEF ListTypes, Kinds
<1>2. \A S : Page(S, pageWalk.offset) \subseteq S
  BY DEF Page
<1>3. Shown \subseteq Sorted /\ Sorted \subseteq Fitting /\ (query.runtime = "inmem" => Shown = Sorted)
  <2>1. Sorted \subseteq Fitting
    BY DEF Sorted
  <2>2. CASE query.runtime = "inmem"
    BY <2>1, <2>2 DEF Shown
  <2>3. CASE query.runtime = "pg"
    <3>1. Sorted = Fitting
      BY <2>3 DEF Sorted
    <3> QED BY <2>3, <3>1 DEF Shown
  <2> QED BY <1>1, <2>1, <2>2, <2>3
<1>4. CASE query.runtime = "pg"
  <2>1. Sorted = Fitting
    BY <1>4 DEF Sorted
  <2>2. Answered = PgCut(Fitting, Shown)
    BY <1>1, <1>4 DEF Answered, Shown, PgAssistants, PgThreads, PgRuns, PgCronListing
  <2> QED BY <1>3, <2>1, <2>2 DEF PgCut
<1>5. CASE query.runtime = "inmem"
  <2>1. Answered = InmemCut(Sorted)
    <3>1. CASE query.kind = "assistants"
      <4>1. Sorted = InmemAssistants
        BY <1>5, <3>1 DEF Sorted, InmemAssistants
      <4> QED BY <1>5, <3>1, <4>1 DEF Answered
    <3>2. CASE query.kind = "threads"
      <4>1. Sorted = InmemThreads
        BY <1>5, <3>2 DEF Sorted, InmemThreads
      <4> QED BY <1>5, <3>2, <4>1 DEF Answered
    <3>3. CASE query.kind = "runs"
      <4>1. Sorted = InmemRuns
        BY <1>5, <3>3 DEF Sorted, InmemRuns, ThreadFound
      <4> QED BY <1>5, <3>3, <4>1 DEF Answered
    <3>4. CASE query.kind = "crons"
      <4>1. Sorted = InmemCrons
        BY <1>5, <3>4 DEF Sorted, InmemCrons
      <4> QED BY <1>5, <3>4, <4>1 DEF Answered
    <3> QED BY <1>1, <3>1, <3>2, <3>3, <3>4
  <2> QED BY <1>2, <1>3, <1>5, <2>1 DEF InmemCut
<1> QED BY <1>1, <1>3, <1>4, <1>5

\* A caller's own rows are sorted and shown, unless the Postgres runtime meets an operator.
LEMMA ExpectedShown ==
  ASSUME ListTypes, query.runtime = "pg" => query.form # "operator"
  PROVE  Expected \subseteq Sorted /\ Expected \subseteq Shown
<1>1. /\ query.kind \in {"assistants", "threads", "runs", "crons"} /\ query.runtime \in {"inmem", "pg"}
      /\ query.form \in {"none", "plain", "operator"}
  BY ListingAssumption DEF ListTypes, Kinds, QueryForms
<1>2. \A m \in BOOLEAN : MatchesFilter(m) = (query.form = "none" \/ m)
  BY <1>1 DEF MatchesFilter
<1>3. \A i \in Fitting : rows[i].mine \in BOOLEAN /\ rows[i].threadMine \in BOOLEAN
  BY DEF Fitting, ListTypes, RowRecord
<1>4. \A i \in Fitting : /\ Own(i) = (query.form = "none" \/ rows[i].mine)
                         /\ OwnThread(i) = (query.form = "none" \/ rows[i].threadMine)
  BY <1>2, <1>3 DEF Own, OwnThread
<1>5. MatchesFilter(TRUE)
  BY <1>2
<1>6. ASSUME NEW i \in Expected PROVE i \in Sorted /\ i \in Shown
  <2>1. /\ i \in Fitting /\ (query.form # "none" /\ query.kind # "runs" => rows[i].mine)
        /\ (query.form # "none" /\ query.kind = "crons" /\ query.runtime = "inmem" => rows[i].threadMine)
    BY DEF Expected
  <2>2. i \in Sorted
    BY <1>1, <1>4, <2>1 DEF Sorted
  <2>3. i \in Shown
    BY <1>1, <1>4, <1>5, <2>1, <2>2 DEF Shown
  <2> QED BY <2>2, <2>3
<1> QED BY <1>6

\* In an answer a row of the page is there by its rank.
LEMMA OnPage ==
  ASSUME NEW i, NEW B, NEW offset
  PROVE  i \in Page(B, offset) <=> i \in B /\ offset <= RankIn(B, i) /\ RankIn(B, i) < offset + PageLimit
<1> QED BY DEF Page, RankIn

\* The next page: the client comes to the rows in front of it in their order.
LEMMA NextPageKeeps == ASSUME ListingInv, NextPage PROVE ListingInv'
<1> DEFINE w == pageWalk
           page == Page(Sorted, w.offset) \cap Shown
           offset == IF More THEN w.offset + PageLimit ELSE w.offset
           pc == IF More THEN "paging" ELSE "done"
           n == Cardinality(Sorted)
<1>1. /\ w.pc = "paging" /\ UNCHANGED <<query, rows, now>>
      /\ pageWalk' = [w EXCEPT !.got = @ \cup Answered.page, !.total = Total, !.offset = IF More THEN @ + PageLimit ELSE @,
                               !.pc = IF More THEN "paging" ELSE "done"]
  BY DEF NextPage
<1>2. ListTypes /\ TimesApart /\ ThreadFound /\ CoverInv /\ CountInv
  BY <1>1 DEF ListingInv
<1>3. /\ Answered.page = page /\ Answered.more = (n > w.offset + PageLimit)
      /\ Shown \subseteq Sorted /\ Sorted \subseteq Fitting /\ Fitting \subseteq 1..NRows
      /\ (query.runtime = "inmem" => Shown = Sorted)
  BY <1>2, AnsweredIs DEF Fitting
<1>4. n \in Nat /\ w.offset \in Nat /\ PageLimit \in Nat \ {0} /\ page \subseteq Sorted /\ page \subseteq Shown
      /\ Cardinality(page) \in Nat
  <2>1. page \subseteq Shown
    OBVIOUS
  <2> HIDE DEF page
  <2> QED BY <1>2, <1>3, <2>1, RowsFinite, ListingAssumption DEF ListTypes
<1>5. /\ query.kind # "runs" => (More <=> n > w.offset + PageLimit)
      /\ query.kind = "runs" => (More <=> Cardinality(page) = PageLimit)
  <2> HIDE DEF n, page
  <2>1. CASE query.kind = "runs"
    BY <1>3, <2>1 DEF More
  <2>2. CASE query.kind # "runs"
    BY <1>3, <2>2 DEF More
  <2> QED BY <2>1, <2>2
<1>6. Total \in Nat /\ (~ More => Total = Cardinality(page) + w.offset)
  <2> HIDE DEF n, page
  <2> QED BY <1>3, <1>4 DEF Total
<1> HIDE DEF n, page
<1>7. /\ pageWalk'.got = w.got \cup page /\ pageWalk'.total = Total /\ pageWalk'.offset = offset /\ pageWalk'.pc = pc
      /\ pageWalk'.start = w.start /\ pageWalk'.touched = w.touched /\ pageWalk'.gone = w.gone
      /\ pageWalk'.changed = w.changed /\ pageWalk'.count = w.count
  BY <1>1, <1>2, <1>3 DEF ListTypes
<1>8. ListTypes'
  <2>1. offset \in Nat /\ pc \in {"paging", "done"} /\ w.got \cup page \in SUBSET (1..NRows)
    <3>1. offset \in Nat
      BY <1>4
    <3>2. w.got \in SUBSET (1..NRows)
      BY <1>2 DEF ListTypes
    <3> QED BY <1>3, <1>4, <3>1, <3>2
  <2> HIDE DEF offset, pc
  <2>2. pageWalk' = [pc |-> pc, offset |-> offset, got |-> w.got \cup page, count |-> w.count, total |-> Total,
                     start |-> w.start, touched |-> w.touched, gone |-> w.gone, changed |-> w.changed]
    BY <1>1, <1>2, <1>3 DEF ListTypes, offset, pc
  <2> QED BY <1>1, <1>2, <1>6, <2>1, <2>2 DEF ListTypes
<1>9. TimesApart'
  BY <1>1, <1>2 DEF TimesApart
<1>10. /\ Sorted' = Sorted /\ Shown' = Shown /\ Expected' = Expected /\ ThreadFound' = ThreadFound
       /\ \A i : RankIn(Sorted, i)' = RankIn(Sorted, i)
  BY <1>1 DEF Sorted, Shown, Expected, ThreadFound, RankIn, Fitting, Own, OwnThread, MatchesFilter, Before, SortKey
<1>11. ASSUME NEW i \in Sorted, RankIn(Sorted, i) >= w.offset, i \in Shown, query.kind = "runs" => Shown = Sorted
       PROVE  i \in page \/ (More /\ RankIn(Sorted, i) >= offset)
  <2>1. RankIn(Sorted, i) \in Nat /\ RankIn(Sorted, i) < n
    BY <1>2, <1>3, RanksFill DEF n
  <2>2. CASE RankIn(Sorted, i) < w.offset + PageLimit
    BY <1>11, <2>2, OnPage DEF page
  <2>3. CASE ~ (RankIn(Sorted, i) < w.offset + PageLimit)
    <3>1. w.offset + PageLimit <= n /\ n > w.offset + PageLimit
      BY <1>4, <2>1, <2>3
    <3>2. More
      <4>1. CASE query.kind # "runs"
        BY <1>5, <3>1, <4>1
      <4>2. CASE query.kind = "runs"
        <5>1. page = {j \in Sorted : w.offset <= RankIn(Sorted, j) /\ RankIn(Sorted, j) < w.offset + PageLimit}
          BY <1>11, <4>2, OnPage DEF page
        <5>2. w.offset + PageLimit \in Nat /\ w.offset <= w.offset + PageLimit
              /\ (w.offset + PageLimit) - w.offset = PageLimit
          BY <1>4
        <5>3. Cardinality({j \in Sorted : w.offset <= RankIn(Sorted, j) /\ RankIn(Sorted, j) < w.offset + PageLimit})
                = (w.offset + PageLimit) - w.offset
          BY <1>2, <1>3, <1>4, <3>1, <5>2, SliceOfRanks DEF n
        <5> QED BY <1>5, <4>2, <5>1, <5>2, <5>3
      <4> QED BY <4>1, <4>2
    <3> QED BY <1>4, <2>1, <2>3, <3>2
  <2> QED BY <2>2, <2>3
<1>12. CoverInv'
  <2> SUFFICES ASSUME Told'
               PROVE  /\ pageWalk'.start \subseteq Expected'
                      /\ \A i \in pageWalk'.start \ pageWalk'.touched :
                           \/ i \in pageWalk'.got
                           \/ pageWalk'.pc = "paging" /\ RankIn(Sorted, i)' >= pageWalk'.offset
    BY DEF CoverInv
  <2>1. Told
    BY <1>1, <1>7 DEF Told
  <2>2. Expected \subseteq Sorted /\ Expected \subseteq Shown
    BY <1>2, <2>1, ExpectedShown DEF Told
  <2>3. query.kind = "runs" => Shown = Sorted
    BY <1>2, <1>3 DEF ThreadFound, Shown, Sorted
  <2>4. w.start \subseteq Expected
    BY <1>2, <2>1 DEF CoverInv
  <2>5. ASSUME NEW i \in w.start \ w.touched
        PROVE  \/ i \in w.got \cup page
               \/ More /\ RankIn(Sorted, i) >= offset
    <3>1. CASE i \in w.got
      BY <3>1
    <3>2. CASE i \notin w.got
      <4>1. RankIn(Sorted, i) >= w.offset
        BY <1>2, <2>1, <2>5, <3>2 DEF CoverInv
      <4>2. i \in Sorted /\ i \in Shown
        BY <2>2, <2>4, <2>5
      <4> HIDE DEF offset
      <4> QED BY <1>11, <2>3, <4>1, <4>2
    <3> QED BY <3>1, <3>2
  <2> HIDE DEF offset
  <2> QED BY <1>7, <1>10, <2>4, <2>5
<1>13. CountInv'
  <2> SUFFICES ASSUME ~ w.changed, query.kind # "runs"
               PROVE  /\ w.count = Cardinality(Shown)
                      /\ offset <= n
                      /\ w.got \cup page = IF pc = "done" THEN Shown
                                           ELSE {i \in Shown : RankIn(Sorted, i) < offset}
                      /\ pc = "done" /\ query.runtime = "inmem" => Total = w.count
    <3> HIDE DEF offset, pc
    <3> QED BY <1>1, <1>7, <1>10 DEF CountInv, n
  <2>1. w.count = Cardinality(Shown) /\ w.offset <= n /\ w.got = {i \in Shown : RankIn(Sorted, i) < w.offset}
    BY <1>1, <1>2 DEF CountInv, n
  <2>2. \A i \in Shown : i \in Sorted /\ RankIn(Sorted, i) \in Nat /\ RankIn(Sorted, i) < n
    BY <1>2, <1>3, RanksFill DEF n
  <2>3. page = {i \in Shown : w.offset <= RankIn(Sorted, i) /\ RankIn(Sorted, i) < w.offset + PageLimit}
    BY <2>2, OnPage DEF page
  <2>4. w.got \cup page = {i \in Shown : RankIn(Sorted, i) < w.offset + PageLimit}
    BY <1>4, <2>1, <2>2, <2>3
  <2>5. CASE More
    BY <1>4, <1>5, <2>1, <2>4, <2>5
  <2>6. CASE ~ More
    <3>1. n <= w.offset + PageLimit
      BY <1>4, <1>5, <2>6
    <3>2. w.got \cup page = Shown
      BY <1>4, <2>2, <2>4, <3>1
    <3>3. query.runtime = "inmem" => Total = w.count
      <4> SUFFICES ASSUME query.runtime = "inmem" PROVE Total = w.count
        OBVIOUS
      <4>1. Shown = Sorted
        BY <1>3
      <4>2. page = {i \in Sorted : w.offset <= RankIn(Sorted, i) /\ RankIn(Sorted, i) < n}
        BY <1>4, <2>2, <2>3, <3>1, <4>1
      <4>3. Cardinality(page) = n - w.offset
        BY <1>2, <1>3, <1>4, <2>1, <4>2, SliceOfRanks DEF n
      <4> QED BY <1>4, <1>6, <2>1, <2>6, <4>1, <4>3 DEF n
    <3> QED BY <2>1, <2>6, <3>2, <3>3
  <2> QED BY <1>5, <2>5, <2>6
<1>14. pageWalk'.pc \in {"paging", "done"}
  BY <1>7
<1> QED BY <1>2, <1>8, <1>9, <1>10, <1>12, <1>13, <1>14 DEF ListingInv

\* The number that is counted is the number of rows that are shown.
LEMMA CountKeeps ==
  ASSUME ListingInv, CountAssistants \/ CountThreads \/ CountCrons
  PROVE  ListingInv'
<1> DEFINE w == pageWalk
           n == Cardinality(Shown)
<1>1. w.pc = "idle" /\ query.kind # "runs" /\ UNCHANGED <<query, rows, now>>
  BY DEF CountAssistants, CountThreads, CountCrons, CountRows
<1>2. /\ ListTypes /\ TimesApart /\ w.offset = 0 /\ w.got = {}
      /\ query.runtime \in {"inmem", "pg"}
  BY <1>1, ListingAssumption DEF ListingInv, ListTypes
<1>3. pageWalk' = [w EXCEPT !.pc = "counted", !.count = n]
  <2>1. CASE query.runtime = "inmem"
    <3>1. CASE CountAssistants
      <4>1. Shown = InmemAssistants
        BY <2>1, <3>1 DEF CountAssistants, CountRows, Shown, Sorted, InmemAssistants
      <4> QED BY <2>1, <3>1, <4>1 DEF CountAssistants, CountRows, InmemCount
    <3>2. CASE CountThreads
      <4>1. Shown = InmemThreads
        BY <2>1, <3>2 DEF CountThreads, CountRows, Shown, Sorted, InmemThreads
      <4> QED BY <2>1, <3>2, <4>1 DEF CountThreads, CountRows, InmemCount
    <3>3. CASE CountCrons
      <4>1. Shown = InmemCrons
        BY <2>1, <3>3 DEF CountCrons, CountRows, Shown, Sorted, InmemCrons
      <4> QED BY <2>1, <3>3, <4>1 DEF CountCrons, CountRows, InmemCount
    <3> QED BY <3>1, <3>2, <3>3
  <2>2. CASE query.runtime = "pg"
    <3>1. Shown = {i \in Fitting : Own(i)}
      BY <1>1, <2>2 DEF Shown
    <3>2. query.form = "none" => {i \in Fitting : Own(i)} = Fitting
      BY DEF Own, MatchesFilter
    <3>3. PgCount = n
      BY <3>1, <3>2 DEF PgCount
    <3> HIDE DEF n
    <3> QED BY <2>2, <3>3 DEF CountAssistants, CountThreads, CountCrons, CountRows
  <2> QED BY <1>2, <2>1, <2>2
<1>4. Sorted \subseteq Fitting /\ Shown \subseteq Sorted /\ Shown \subseteq 1..NRows
  BY <1>1, <1>2, AnsweredIs DEF ThreadFound, Fitting
<1>5. n \in Nat /\ Cardinality(Sorted) \in Nat /\ \A i \in Sorted : RankIn(Sorted, i) \in Nat
  BY <1>2, <1>4, RowsFinite, RanksFill
<1> HIDE DEF n
<1>6. /\ pageWalk'.pc = "counted" /\ pageWalk'.count = n /\ pageWalk'.offset = 0 /\ pageWalk'.got = {}
      /\ ListTypes'
  BY <1>1, <1>2, <1>3, <1>5 DEF ListTypes
<1>7. TimesApart'
  BY <1>1, <1>2 DEF TimesApart
<1>8. Sorted' = Sorted /\ Shown' = Shown /\ \A i : RankIn(Sorted, i)' = RankIn(Sorted, i)
  BY <1>1 DEF Sorted, Shown, RankIn, Fitting, Own, OwnThread, MatchesFilter, Before, SortKey
<1>9. CountInv'
  <2>1. {i \in Shown : RankIn(Sorted, i) < 0} = {}
    <3>1. \A i \in Shown : RankIn(Sorted, i) \in Nat
      BY <1>4, <1>5
    <3>2. \A i \in Shown : ~ (RankIn(Sorted, i) < 0)
      BY <3>1
    <3> QED BY <3>2
  <2> QED BY <1>5, <1>6, <1>8, <2>1 DEF CountInv, n
<1>10. CoverInv'
  BY <1>6 DEF CoverInv, Told
<1> QED BY <1>1, <1>6, <1>7, <1>9, <1>10 DEF ListingInv

\* The client begins with the first page.
LEMMA SearchKeeps == ASSUME ListingInv, Search \/ ListRuns PROVE ListingInv'
<1> DEFINE w == pageWalk
<1>1. /\ UNCHANGED <<query, rows, now>>
      /\ \/ /\ pageWalk' = [w EXCEPT !.pc = "paging", !.start = Expected]
            /\ w.pc \in {"idle", "counted"} /\ ThreadFound /\ (query.kind = "runs" \/ w.pc = "counted")
         \/ pageWalk' = [w EXCEPT !.pc = "refused"] /\ w.pc = "idle"
  BY DEF Search, ListRuns, ListingInv, ThreadFound
<1>2. /\ ListTypes /\ TimesApart /\ w.offset = 0 /\ w.got = {} /\ CountInv
  BY <1>1 DEF ListingInv
<1>3. TimesApart'
  BY <1>1, <1>2 DEF TimesApart
<1>4. Expected \subseteq Fitting /\ Expected \in SUBSET (1..NRows)
  BY DEF Expected, Fitting
<1>5. CASE pageWalk' = [w EXCEPT !.pc = "refused"]
  <2>1. pageWalk'.pc = "refused" /\ ListTypes'
    BY <1>1, <1>2, <1>5 DEF ListTypes
  <2> QED BY <1>3, <2>1 DEF ListingInv, CoverInv, Told, CountInv
<1>6. CASE /\ pageWalk' = [w EXCEPT !.pc = "paging", !.start = Expected]
           /\ w.pc \in {"idle", "counted"} /\ ThreadFound /\ (query.kind = "runs" \/ w.pc = "counted")
  <2>1. /\ pageWalk'.pc = "paging" /\ pageWalk'.start = Expected /\ pageWalk'.offset = 0 /\ pageWalk'.got = w.got
        /\ pageWalk'.touched = w.touched /\ pageWalk'.changed = w.changed /\ pageWalk'.count = w.count
        /\ pageWalk'.gone = w.gone /\ ListTypes'
    BY <1>1, <1>2, <1>4, <1>6 DEF ListTypes
  <2>2. /\ Sorted' = Sorted /\ Shown' = Shown /\ Expected' = Expected /\ ThreadFound' = ThreadFound
        /\ \A i : RankIn(Sorted, i)' = RankIn(Sorted, i)
    BY <1>1 DEF Sorted, Shown, Expected, ThreadFound, RankIn, Fitting, Own, OwnThread, MatchesFilter, Before, SortKey
  <2>3. CoverInv'
    <3>1. ASSUME Told', NEW i \in Expected PROVE RankIn(Sorted, i) >= 0
      <4>1. query.runtime = "pg" => query.form # "operator"
        BY <1>1, <3>1 DEF Told
      <4>2. i \in Sorted /\ Sorted \subseteq Fitting
        BY <1>2, <1>6, <4>1, ExpectedShown, AnsweredIs
      <4> QED BY <1>2, <4>2, RanksFill
    <3> QED BY <2>1, <2>2, <3>1 DEF CoverInv
  <2>4. CountInv'
    BY <1>1, <1>2, <1>6, <2>1, <2>2 DEF CountInv
  <2> QED BY <1>3, <1>6, <2>1, <2>2, <2>3, <2>4 DEF ListingInv
<1> QED BY <1>1, <1>5, <1>6

\* A row gets times of its own.
LEMMA TimesStayApart ==
  ASSUME ListTypes, TimesApart, NEW i \in 1..NRows, NEW r \in RowRecord, rows' = [rows EXCEPT ![i] = r],
         now' = now + 1, r.created \in {rows[i].created, now}, r.updated \in {rows[i].updated, now},
         r.there => r.created # 0 /\ r.updated # 0
  PROVE  TimesApart'
<1>1. \A k \in 1..NRows : /\ rows'[k] = IF k = i THEN r ELSE rows[k]
                          /\ rows[k].created \in Nat /\ rows[k].updated \in Nat
  BY DEF ListTypes, RowRecord
<1>2. now \in Nat
  BY DEF ListTypes
<1>3. \A k \in 1..NRows : rows'[k].created < now' /\ rows'[k].updated < now'
  BY <1>1, <1>2 DEF TimesApart
<1>4. \A k \in 1..NRows : rows'[k].there => rows'[k].created # 0 /\ rows'[k].updated # 0
  BY <1>1 DEF TimesApart
<1>5. \A j, k \in 1..NRows : rows'[j].created = rows'[k].created /\ rows'[j].created # 0 => j = k
  BY <1>1, <1>2 DEF TimesApart
<1>6. \A j, k \in 1..NRows : rows'[j].updated = rows'[k].updated /\ rows'[j].updated # 0 => j = k
  BY <1>1, <1>2 DEF TimesApart
<1> QED BY <1>3, <1>4, <1>5, <1>6 DEF TimesApart

\* Another request changes a row: the rows that stand still move away from the client.
LEMMA RowChanges ==
  ASSUME ListingInv, MayChange, NEW i \in 1..NRows, NEW r \in RowRecord, rows' = [rows EXCEPT ![i] = r],
         NEW touched \in SUBSET (1..NRows), NEW gone \in BOOLEAN,
         pageWalk' = [pageWalk EXCEPT !.changed = TRUE, !.touched = touched, !.gone = gone], UNCHANGED query,
         TimesApart', pageWalk.touched \subseteq touched, pageWalk.gone => gone,
         ~ gone /\ i \in Fitting =>
           /\ r.there /\ r.fits /\ r.mine = rows[i].mine /\ r.threadMine = rows[i].threadMine
           /\ r.created = rows[i].created
           /\ r.updated = rows[i].updated \/ (r.updated = now /\ i \in touched)
  PROVE  ListingInv'
<1> DEFINE w == pageWalk
<1>1. ListTypes /\ TimesApart /\ CoverInv /\ w.pc \in {"counted", "paging"} /\ now' = now + 1
  BY DEF ListingInv, MayChange
<1>2. /\ pageWalk'.pc = w.pc /\ pageWalk'.changed /\ pageWalk'.touched = touched /\ pageWalk'.gone = gone
      /\ pageWalk'.offset = w.offset /\ pageWalk'.got = w.got /\ pageWalk'.start = w.start
  BY <1>1 DEF ListTypes
<1>3. ListTypes'
  <2>1. rows' \in [1..NRows -> RowRecord]
    BY <1>1 DEF ListTypes
  <2>2. now' \in Nat \ {0}
    BY <1>1 DEF ListTypes
  <2>3. pageWalk' \in [pc : {"idle", "counted", "paging", "done", "refused"}, offset : Nat, got : SUBSET (1..NRows),
                       count : Nat, total : Nat, start : SUBSET (1..NRows), touched : SUBSET (1..NRows),
                       gone : BOOLEAN, changed : BOOLEAN]
    BY <1>1 DEF ListTypes
  <2> QED BY <1>1, <2>1, <2>2, <2>3 DEF ListTypes
<1>4. \A k \in 1..NRows : rows'[k] = IF k = i THEN r ELSE rows[k]
  BY <1>1 DEF ListTypes
<1>5. ASSUME Told'
      PROVE  /\ Told
             /\ Fitting \subseteq Fitting'
             /\ \A k \in Fitting : /\ rows'[k].mine = rows[k].mine /\ rows'[k].threadMine = rows[k].threadMine
                                   /\ rows'[k].created = rows[k].created
                                   /\ \/ rows'[k].updated = rows[k].updated
                                      \/ rows'[k].updated = now /\ k = i /\ i \in touched /\ query.sort # "updatedAsc"
  <2>1. Told /\ ~ gone /\ (query.sort = "updatedAsc" => touched = {})
    BY <1>2, <1>5 DEF Told
  <2>2. Fitting \subseteq Fitting'
    BY <1>4, <2>1 DEF Fitting
  <2>3. \A k \in Fitting : k \in 1..NRows
    BY DEF Fitting
  <2> QED BY <1>4, <2>1, <2>2, <2>3
<1>6. ASSUME Told' PROVE Expected \subseteq Expected' /\ Sorted \subseteq Sorted'
  <2>1. \A k \in Fitting : k \in Fitting' /\ (Own(k) => Own(k)') /\ (OwnThread(k) => OwnThread(k)')
    BY <1>5, <1>6 DEF Own, OwnThread, MatchesFilter
  <2>2. Sorted \subseteq Sorted'
    BY <2>1 DEF Sorted
  <2>3. Expected \subseteq Expected'
    BY <1>5, <1>6 DEF Expected
  <2> QED BY <2>2, <2>3
<1>7. ASSUME Told', NEW k \in w.start \ touched PROVE RankIn(Sorted, k)' >= RankIn(Sorted, k)
                                                      /\ RankIn(Sorted, k) \in Nat /\ RankIn(Sorted, k)' \in Nat
  <2>1. Told /\ k \in Expected /\ k \in Fitting /\ w.pc = "paging"
    BY <1>1, <1>5, <1>7 DEF CoverInv, Expected, Told
  <2>2. rows'[k].updated = rows[k].updated /\ rows'[k].created = rows[k].created
    BY <1>5, <1>7, <2>1
  <2>3. \A j \in Fitting : j \in 1..NRows /\ rows[j].created \in Nat /\ rows[j].updated \in Nat
    BY <1>1 DEF Fitting, ListTypes, RowRecord
  <2>4. now \in Nat /\ rows[k].updated < now
    BY <1>1, <2>1, <2>3 DEF ListTypes, TimesApart
  <2>5. query.sort \in {"default", "createdAsc", "updatedAsc"}
    BY <1>1, ListingAssumption DEF ListTypes, Sorts
  <2>6. ASSUME NEW j \in Fitting, Before(j, k) PROVE Before(j, k)'
    <3>1. SortKey(k)' = SortKey(k)
      BY <2>2 DEF SortKey
    <3>2. CASE rows'[j].updated = rows[j].updated
      <4>1. SortKey(j)' = SortKey(j)
        BY <1>5, <1>7, <3>2 DEF SortKey
      <4> QED BY <2>6, <3>1, <4>1 DEF Before
    <3>3. CASE rows'[j].updated = now /\ query.sort # "updatedAsc"
      <4>1. CASE query.sort = "default" /\ query.kind = "threads"
        <5>1. SortKey(j)' = now /\ SortKey(k) = rows[k].updated
          BY <3>3, <4>1 DEF SortKey
        <5> QED BY <2>4, <3>1, <4>1, <5>1 DEF Before
      <4>2. CASE ~ (query.sort = "default" /\ query.kind = "threads")
        <5>1. SortKey(j)' = SortKey(j)
          BY <1>5, <1>7, <3>3, <4>2 DEF SortKey
        <5> QED BY <2>6, <3>1, <5>1 DEF Before
      <4> QED BY <4>1, <4>2
    <3> QED BY <1>5, <1>7, <3>2, <3>3
  <2> DEFINE front == {j \in Sorted : Before(j, k)}
             front1 == {j \in Sorted' : Before(j, k)'}
  <2>7. front \subseteq front1 /\ front1 \in SUBSET (1..NRows)
    <3>1. Sorted \subseteq Fitting /\ Sorted' \subseteq 1..NRows
      BY DEF Sorted, Fitting
    <3> QED BY <1>6, <1>7, <2>6, <3>1
  <2>8. RankIn(Sorted, k) = Cardinality(front) /\ RankIn(Sorted, k)' = Cardinality(front1)
    BY DEF RankIn
  <2> HIDE DEF front, front1
  <2> QED BY <2>7, <2>8, RowsFinite
<1>8. CoverInv'
  <2> SUFFICES ASSUME Told'
               PROVE  /\ w.start \subseteq Expected'
                      /\ \A k \in w.start \ touched :
                           k \in w.got \/ (w.pc = "paging" /\ RankIn(Sorted, k)' >= w.offset)
    BY <1>2 DEF CoverInv
  <2>1. w.start \subseteq Expected'
    BY <1>1, <1>5, <1>6 DEF CoverInv
  <2>2. w.offset \in Nat
    BY <1>1 DEF ListTypes
  <2>3. \A k \in w.start \ touched : k \in w.got \/ (w.pc = "paging" /\ RankIn(Sorted, k) >= w.offset)
    BY <1>1, <1>5 DEF CoverInv
  <2> QED BY <1>7, <2>1, <2>2, <2>3
<1>9. CountInv'
  BY <1>2 DEF CountInv
<1>10. /\ (pageWalk'.pc \in {"idle", "counted"} => pageWalk'.offset = 0 /\ pageWalk'.got = {})
       /\ (pageWalk'.pc = "counted" => query'.kind # "runs") /\ (pageWalk'.pc \in {"paging", "done"} => ThreadFound')
  BY <1>1, <1>2 DEF ListingInv, ThreadFound, MatchesFilter
<1> QED BY <1>3, <1>8, <1>9, <1>10 DEF ListingInv

\* A new row is a row, created and updated at the time of the clock.
LEMMA NewRowIs ==
  ASSUME NEW t \in Nat, NEW r \in NewRows(t)
  PROVE  r \in RowRecord /\ r.created = t /\ r.updated = t
<1> DEFINE M == {TRUE, query.form = "none"}
           H == {TRUE, query.kind # "crons"}
           row(f, m, h) ==
             [there |-> TRUE, fits |-> f, mine |-> m, threadMine |-> h, created |-> t, updated |-> t]
<1>1. NewRows(t) = {row(f, m, h) : f \in BOOLEAN, m \in M, h \in H}
  BY DEF NewRows
<1>2. \A m \in M \cup H : m \in BOOLEAN
  OBVIOUS
<1>3. \A f, m, h \in BOOLEAN : row(f, m, h) \in RowRecord
                              /\ row(f, m, h).created = t /\ row(f, m, h).updated = t
  BY DEF RowRecord
<1> HIDE DEF M, H, row
<1>4. PICK f \in BOOLEAN, m \in M, h \in H : r = row(f, m, h)
  BY <1>1
<1> QED BY <1>2, <1>3, <1>4

\* A new row is one that the search could not find before.
LEMMA InsertKeeps == ASSUME ListingInv, NEW i \in 1..NRows, InsertRow(i) PROVE ListingInv'
<1>1. MayChange /\ ~ rows[i].there /\ UNCHANGED query /\ pageWalk' = [pageWalk EXCEPT !.changed = TRUE]
  BY DEF InsertRow
<1>2. PICK r \in NewRows(now) : rows' = [rows EXCEPT ![i] = r]
  BY DEF InsertRow
<1>3. ListTypes /\ TimesApart /\ now' = now + 1
  BY <1>1 DEF ListingInv, MayChange
<1>4. r \in RowRecord /\ r.created = now /\ r.updated = now /\ now # 0
  <2>1. now \in Nat /\ now # 0
    BY <1>3 DEF ListTypes
  <2> QED BY <2>1, NewRowIs
<1>5. TimesApart'
  BY <1>2, <1>3, <1>4, TimesStayApart
<1>6. i \notin Fitting
  BY <1>1 DEF Fitting
<1>7. /\ pageWalk.touched \in SUBSET (1..NRows) /\ pageWalk.gone \in BOOLEAN
      /\ pageWalk' = [pageWalk EXCEPT !.changed = TRUE, !.touched = pageWalk.touched, !.gone = pageWalk.gone]
  BY <1>1, <1>3 DEF ListTypes
<1> DEFINE touched == pageWalk.touched
           gone == pageWalk.gone
<1>8. pageWalk.touched \subseteq touched /\ (pageWalk.gone => gone)
  OBVIOUS
<1>9. ~ gone /\ i \in Fitting =>
        /\ r.there /\ r.fits /\ r.mine = rows[i].mine /\ r.threadMine = rows[i].threadMine
        /\ r.created = rows[i].created
        /\ r.updated = rows[i].updated \/ (r.updated = now /\ i \in touched)
  BY <1>6
<1>10. /\ touched \in SUBSET (1..NRows) /\ gone \in BOOLEAN
       /\ pageWalk' = [pageWalk EXCEPT !.changed = TRUE, !.touched = touched, !.gone = gone]
  BY <1>7
<1> HIDE DEF touched, gone
<1>11. r \in RowRecord
  BY <1>4
<1> QED BY <1>1, <1>2, <1>5, <1>8, <1>9, <1>10, <1>11, RowChanges

\* A row is updated, its labels too, or removed.
LEMMA PatchKeeps ==
  ASSUME ListingInv, NEW i \in 1..NRows, Touch(i) \/ Relabel(i) \/ Remove(i)
  PROVE  ListingInv'
<1> DEFINE w == pageWalk
<1>1. ListTypes /\ TimesApart /\ MayChange /\ now' = now + 1 /\ rows[i].there /\ UNCHANGED query
      /\ w.touched \in SUBSET (1..NRows) /\ w.gone \in BOOLEAN /\ rows[i] \in RowRecord /\ now \in Nat \ {0}
  BY DEF ListingInv, MayChange, Touch, Relabel, Remove, ListTypes
<1>2. CASE Touch(i)
  <2> DEFINE r == [rows[i] EXCEPT !.updated = now]
  <2>1. rows' = [rows EXCEPT ![i].updated = now] /\ w' = [w EXCEPT !.changed = TRUE, !.touched = @ \cup {i}]
    BY <1>2 DEF Touch
  <2>2. rows' = [rows EXCEPT ![i] = r]
    BY <1>1, <2>1 DEF ListTypes
  <2>3. /\ r \in RowRecord /\ r.there /\ r.fits = rows[i].fits /\ r.mine = rows[i].mine
        /\ r.threadMine = rows[i].threadMine /\ r.created = rows[i].created /\ r.updated = now
    BY <1>1 DEF RowRecord
  <2>4. w' = [w EXCEPT !.changed = TRUE, !.touched = w.touched \cup {i}, !.gone = w.gone]
    BY <1>1, <2>1 DEF ListTypes
  <2> HIDE DEF r
  <2>5. TimesApart'
    BY <1>1, <2>2, <2>3, TimesStayApart DEF TimesApart
  <2>6. i \in Fitting => r.fits
    BY <2>3 DEF Fitting
  <2>7. w.touched \cup {i} \in SUBSET (1..NRows)
    BY <1>1
  <2> DEFINE touched == w.touched \cup {i}
             gone == w.gone
  <2>8. ~ gone /\ i \in Fitting =>
          /\ r.there /\ r.fits /\ r.mine = rows[i].mine /\ r.threadMine = rows[i].threadMine
          /\ r.created = rows[i].created
          /\ r.updated = rows[i].updated \/ (r.updated = now /\ i \in touched)
    BY <2>3, <2>6
  <2>9. /\ pageWalk.touched \subseteq touched /\ (pageWalk.gone => gone)
        /\ touched \in SUBSET (1..NRows) /\ gone \in BOOLEAN
        /\ pageWalk' = [pageWalk EXCEPT !.changed = TRUE, !.touched = touched, !.gone = gone]
    BY <1>1, <2>4, <2>7
  <2>10. r \in RowRecord
    BY <2>3
  <2> HIDE DEF touched, gone, w
  <2> QED BY <1>1, <2>2, <2>5, <2>8, <2>9, <2>10, RowChanges
<1>3. CASE Relabel(i)
  <2> DEFINE r == [rows[i] EXCEPT !.fits = ~ rows[i].fits, !.updated = now]
             gone == w.gone \/ rows[i].fits
  <2>1. rows' = [rows EXCEPT ![i].fits = ~@, ![i].updated = now]
        /\ w' = [w EXCEPT !.changed = TRUE, !.touched = @ \cup {i}, !.gone = @ \/ rows[i].fits]
    BY <1>3 DEF Relabel
  <2>2. rows' = [rows EXCEPT ![i] = r]
    BY <1>1, <2>1 DEF ListTypes, RowRecord
  <2>3. r \in RowRecord /\ r.there /\ r.created = rows[i].created /\ r.updated = now
    BY <1>1 DEF RowRecord
  <2>4. w' = [w EXCEPT !.changed = TRUE, !.touched = w.touched \cup {i}, !.gone = gone]
    BY <1>1, <2>1 DEF ListTypes
  <2>5. gone \in BOOLEAN /\ (i \in Fitting => gone)
    BY <1>1 DEF Fitting, RowRecord
  <2>6. w.gone => gone
    OBVIOUS
  <2> HIDE DEF r, gone
  <2>7. TimesApart'
    BY <1>1, <2>2, <2>3, TimesStayApart DEF TimesApart
  <2>8. w.touched \cup {i} \in SUBSET (1..NRows)
    BY <1>1
  <2> DEFINE touched == w.touched \cup {i}
  <2>9. ~ gone /\ i \in Fitting =>
          /\ r.there /\ r.fits /\ r.mine = rows[i].mine /\ r.threadMine = rows[i].threadMine
          /\ r.created = rows[i].created
          /\ r.updated = rows[i].updated \/ (r.updated = now /\ i \in touched)
    BY <2>5
  <2>10. /\ pageWalk.touched \subseteq touched /\ (pageWalk.gone => gone)
         /\ touched \in SUBSET (1..NRows) /\ gone \in BOOLEAN
         /\ pageWalk' = [pageWalk EXCEPT !.changed = TRUE, !.touched = touched, !.gone = gone]
    BY <2>4, <2>5, <2>6, <2>8
  <2>11. r \in RowRecord
    BY <2>3
  <2> HIDE DEF touched, w
  <2> QED BY <1>1, <2>2, <2>7, <2>9, <2>10, <2>11, RowChanges
<1>4. CASE Remove(i)
  <2> DEFINE r == [rows[i] EXCEPT !.there = FALSE]
  <2>1. rows' = [rows EXCEPT ![i].there = FALSE] /\ w' = [w EXCEPT !.changed = TRUE, !.gone = TRUE]
    BY <1>4 DEF Remove
  <2>2. rows' = [rows EXCEPT ![i] = r]
    BY <1>1, <2>1 DEF ListTypes
  <2>3. r \in RowRecord /\ ~ r.there /\ r.created = rows[i].created /\ r.updated = rows[i].updated
    BY <1>1 DEF RowRecord
  <2>4. w' = [w EXCEPT !.changed = TRUE, !.touched = w.touched, !.gone = TRUE]
    BY <1>1, <2>1 DEF ListTypes
  <2> HIDE DEF r
  <2>5. TimesApart'
    BY <1>1, <2>2, <2>3, TimesStayApart
  <2> DEFINE touched == w.touched
             gone == TRUE
  <2>6. ~ gone /\ i \in Fitting =>
          /\ r.there /\ r.fits /\ r.mine = rows[i].mine /\ r.threadMine = rows[i].threadMine
          /\ r.created = rows[i].created
          /\ r.updated = rows[i].updated \/ (r.updated = now /\ i \in touched)
    OBVIOUS
  <2>7. /\ pageWalk.touched \subseteq touched /\ (pageWalk.gone => gone)
        /\ touched \in SUBSET (1..NRows) /\ gone \in BOOLEAN
        /\ pageWalk' = [pageWalk EXCEPT !.changed = TRUE, !.touched = touched, !.gone = gone]
    BY <1>1, <2>4
  <2>8. r \in RowRecord
    BY <2>3
  <2> HIDE DEF touched, gone, w
  <2> QED BY <1>1, <2>2, <2>5, <2>6, <2>7, <2>8, RowChanges
<1> QED BY <1>2, <1>3, <1>4

\* The rows were created one after the other and the client has asked nothing.
LEMMA ListingStart == ListingInit => ListingInv
<1> SUFFICES ASSUME ListingInit PROVE ListingInv
  OBVIOUS
<1>1. /\ query \in Queries /\ now = NStored + 1 /\ pageWalk = NoWalk
      /\ rows \in [1..NRows -> {NoRow} \cup UNION {NewRows(t) : t \in 1..NStored}]
      /\ \A i \in 1..NRows : IF i <= NStored THEN rows[i] \in NewRows(i) ELSE rows[i] = NoRow
  BY DEF ListingInit
<1>2. NStored \in Nat /\ NRows \in Nat
  BY ListingAssumption
<1>3. \A t \in Nat : \A r \in NewRows(t) : r \in RowRecord /\ r.created = t /\ r.updated = t
  BY NewRowIs
<1>4. NoRow \in RowRecord /\ NoRow.created = 0 /\ NoRow.updated = 0 /\ ~ NoRow.there
  BY DEF NoRow, RowRecord
<1>5. \A i \in 1..NRows : /\ rows[i] \in RowRecord
                          /\ \/ i <= NStored /\ rows[i].created = i /\ rows[i].updated = i
                             \/ rows[i].created = 0 /\ rows[i].updated = 0 /\ ~ rows[i].there
  <2> SUFFICES ASSUME NEW i \in 1..NRows
               PROVE  /\ rows[i] \in RowRecord
                      /\ \/ i <= NStored /\ rows[i].created = i /\ rows[i].updated = i
                         \/ rows[i].created = 0 /\ rows[i].updated = 0 /\ ~ rows[i].there
    OBVIOUS
  <2>1. CASE i <= NStored
    BY <1>1, <1>3, <2>1
  <2>2. CASE ~ (i <= NStored)
    BY <1>1, <1>4, <2>2
  <2> QED BY <2>1, <2>2
<1>6. rows \in [1..NRows -> RowRecord]
  BY <1>1, <1>5
<1>7. ListTypes
  BY <1>1, <1>2, <1>6 DEF ListTypes, NoWalk
<1>8. TimesApart
  BY <1>1, <1>2, <1>5 DEF TimesApart
<1>9. pageWalk.pc = "idle" /\ pageWalk.offset = 0 /\ pageWalk.got = {}
  BY <1>1 DEF NoWalk
<1> QED BY <1>7, <1>8, <1>9 DEF ListingInv, CoverInv, Told, CountInv

\* Every step of the client and of other requests keeps the invariant.
LEMMA ListingStep == ListingInv /\ [ListingNext]_liVars => ListingInv'
<1> SUFFICES ASSUME ListingInv, [ListingNext]_liVars PROVE ListingInv'
  OBVIOUS
<1>1. CASE UNCHANGED liVars
  <2>1. query' = query /\ rows' = rows /\ now' = now /\ pageWalk' = pageWalk
    BY <1>1 DEF liVars
  <2>2. Fitting' = Fitting /\ \A i : Own(i)' = Own(i) /\ OwnThread(i)' = OwnThread(i)
    BY <2>1 DEF Fitting, Own, OwnThread, MatchesFilter
  <2>3. \A i, j : Before(i, j)' = Before(i, j)
    BY <2>1 DEF Before, SortKey
  <2>4. Sorted' = Sorted /\ Shown' = Shown
    BY <2>1, <2>2 DEF Sorted, Shown, MatchesFilter
  <2>5. Expected' = Expected
    BY <2>1, <2>2 DEF Expected
  <2>6. \A i : RankIn(Sorted, i)' = RankIn(Sorted, i)
    BY <2>3, <2>4 DEF RankIn
  <2>7. Told' = Told /\ ThreadFound' = ThreadFound
    BY <2>1 DEF Told, ThreadFound, MatchesFilter
  <2>8. ListTypes' /\ TimesApart'
    BY <2>1 DEF ListingInv, ListTypes, TimesApart
  <2>9. CoverInv'
    BY <2>1, <2>5, <2>6, <2>7 DEF ListingInv, CoverInv
  <2>10. CountInv'
    BY <2>1, <2>4, <2>6 DEF ListingInv, CountInv
  <2> QED BY <2>1, <2>7, <2>8, <2>9, <2>10 DEF ListingInv
<1>2. CASE ListingNext
  BY <1>2, CountKeeps, SearchKeeps, NextPageKeeps, InsertKeeps, PatchKeeps DEF ListingNext
<1> QED BY <1>1, <1>2

\* At the end of the walk the invariant is the property.
LEMMA ListingSafe == ListingInv => ListingComplete /\ CountAgrees
<1> SUFFICES ASSUME ListingInv PROVE ListingComplete /\ CountAgrees
  OBVIOUS
<1>1. ListingComplete
  BY DEF ListingInv, CoverInv, Told, ListingComplete
<1>2. CountAgrees
  BY DEF ListingInv, CountInv, CountAgrees
<1> QED BY <1>1, <1>2

\* Pages followed to the end show every row that stood still, and counts agree with them
\* (search and list of threads, assistants, crons and runs, get_pagination_headers): for
\* all numbers of rows, limits of pages, searches and changes.
THEOREM ListingsAlwaysAgree == Spec => []ListingsAgree
<1>1. Init => ListingInv
  BY ListingStart DEF Init
<1>2. ListingInv /\ [Next]_recordVars => ListingInv'
  <2>1. [Next]_recordVars => [ListingNext]_liVars
    BY DEF Next, Others, recordVars, liVars
  <2> QED BY <2>1, ListingStep
<1>3. ListingInv => ListingsAgree
  BY ListingSafe DEF ListingsAgree
<1> QED BY <1>1, <1>2, <1>3, PTL DEF Spec

(***************************************************************************)
(* Types                                                                   *)
(***************************************************************************)
\* A request whose locals have their type begins.
LEMMA BeginsTyped ==
  ASSUME ThreadStoreTypeOK, NEW q \in Requests, NEW locals \in PendingRun, Begin(q, locals)
  PROVE  ThreadStoreTypeOK'
BY DEF ThreadStoreTypeOK, Begin

\* Where a request has found a record: an index of the list.
LEMMA LocalsTyped ==
  ASSUME NEW list \in Seq(ThreadRecord), list # <<>>, Len(list) <= MaxRecords,
         NEW u \in Users, NEW t \in ThreadIds, NEW todo \in Seq(ThreadIds)
  PROVE  Locals(list, u, t, todo) \in PendingRun
<1> DEFINE at == {i \in 1..Len(list) : list[i].id = t}
           idx == IF at = {} THEN 0 ELSE CHOOSE i \in at : \A j \in at : i <= j
           n == IF idx = 0 THEN Len(list) ELSE idx
<1>1. idx \in {0} \cup at
  <2>1. at \subseteq Nat
    OBVIOUS
  <2>2. CASE at # {}
    <3>1. \E i \in at : \A j \in at : i <= j
      BY <2>1, <2>2, LeastIndex
    <3> QED BY <2>2, <3>1
  <2> QED BY <2>2
<1>2. Len(list) \in Nat \ {0} /\ MaxRecords \in Nat
  BY ThreadStoreAssumption
<1> HIDE DEF idx
<1>3. idx \in 0..Len(list)
  BY <1>1, <1>2
<1>4. n \in 1..Len(list) /\ idx \in 0..MaxRecords
  BY <1>2, <1>3
<1> HIDE DEF n
<1>5. list[n].owner \in Users
  <2>1. list[n] \in ThreadRecord
    BY <1>4
  <2> QED BY <2>1 DEF ThreadRecord
<1>6. Locals(list, u, t, todo) =
        [op |-> "delete", user |-> u, id |-> t, idx |-> idx, who |-> list[n].owner, todo |-> todo]
  BY DEF Locals, idx, n
<1> QED BY <1>4, <1>5, <1>6 DEF PendingRun

\* The locals of a request in progress, by its operation.
LEMMA PendingTyped ==
  ASSUME ThreadStoreTypeOK, NEW q \in Requests, req[q].op # "none"
  PROVE  /\ req[q] \in PendingRun /\ req[q].user \in Users /\ req[q].id \in ThreadIds
         /\ req[q].op \in {"patch", "delete"} => req[q].idx \in 0..MaxRecords
         /\ req[q].op = "delete" => req[q].todo \in Seq(ThreadIds)
<1>1. req[q] \in PendingRun
  BY DEF ThreadStoreTypeOK, Idle
<1> QED BY <1>1 DEF PendingRun

\* The list with one more record.
LEMMA AppendTyped ==
  ASSUME ThreadStoreTypeOK, Room, NEW t \in ThreadIds, NEW o \in Users, NEW u \in Users,
         NEW via \in {"put", "copy", "run"}, AppendRecord(t, o, u, via)
  PROVE  threads' \in Seq(ThreadRecord) /\ Len(threads') <= MaxRecords
<1>1. [id |-> t, owner |-> o, by |-> u, via |-> via] \in ThreadRecord
  BY DEF ThreadRecord
<1> QED BY <1>1, ThreadStoreAssumption DEF AppendRecord, Room, ThreadStoreTypeOK

\* Every step of a request keeps the types.
LEMMA ThreadStoreTyped == ThreadStoreTypeOK /\ [ThreadStoreNext]_tsVars => ThreadStoreTypeOK'
<1> SUFFICES ASSUME ThreadStoreTypeOK, [ThreadStoreNext]_tsVars PROVE ThreadStoreTypeOK'
  OBVIOUS
<1>0. threads \in Seq(ThreadRecord) /\ Len(threads) <= MaxRecords /\ Len(threads) \in Nat /\ MaxRecords \in Nat
  BY ThreadStoreAssumption DEF ThreadStoreTypeOK
<1>1. ASSUME NEW t, HasThread(t)
      PROVE  FirstIndex(t) \in 1..Len(threads) /\ threads[FirstIndex(t)].owner \in Users
  <2>1. FirstIndex(t) \in 1..Len(threads)
    BY <1>0, <1>1, FirstIndexFinds
  <2>2. threads[FirstIndex(t)] \in ThreadRecord
    BY <1>0, <2>1
  <2> QED BY <2>1, <2>2 DEF ThreadRecord
<1>2. ASSUME NEW q \in Requests, NEW op, Finish(q, op)
      PROVE  req' \in [Requests -> {Idle} \cup PendingRun]
  BY <1>2 DEF Finish, ThreadStoreTypeOK
<1>3. ASSUME NEW q \in Requests, NEW u \in Users, NEW t \in ThreadIds,
             \/ BeginPut(q, u, t) \/ BeginCopy(q, u, t) \/ BeginPatch(q, u, t)
             \/ BeginDelete(q, u, t) \/ BeginRun(q, u, t)
      PROVE  ThreadStoreTypeOK'
  <2>1. CASE BeginPut(q, u, t)
    <3>1. [op |-> "put", user |-> u, id |-> t] \in PendingRun
      BY DEF PendingRun
    <3> QED BY <2>1, <3>1, BeginsTyped DEF BeginPut
  <2>2. CASE BeginCopy(q, u, t)
    <3>1. [op |-> "copy", user |-> u, id |-> t] \in PendingRun
      BY DEF PendingRun
    <3> QED BY <2>2, <3>1, BeginsTyped DEF BeginCopy
  <2>3. CASE BeginPatch(q, u, t)
    <3>1. FirstIndex(t) \in 0..MaxRecords
      BY <1>0, <1>1, <2>3 DEF BeginPatch
    <3>2. [op |-> "patch", user |-> u, id |-> t, idx |-> FirstIndex(t), who |-> u, todo |-> <<>>] \in PendingRun
      BY <3>1 DEF PendingRun
    <3> QED BY <2>3, <3>2, BeginsTyped DEF BeginPatch
  <2>4. CASE BeginDelete(q, u, t)
    <3>1. threads # <<>> /\ Begin(q, Locals(threads, u, t, <<>>))
      BY <2>4 DEF BeginDelete
    <3>2. <<>> \in Seq(ThreadIds)
      OBVIOUS
    <3>3. Locals(threads, u, t, <<>>) \in PendingRun
      BY <1>0, <3>1, <3>2, LocalsTyped
    <3> QED BY <3>1, <3>3, BeginsTyped
  <2>5. CASE BeginRun(q, u, t)
    <3> DEFINE who == IF HasThread(t) THEN threads[FirstIndex(t)].owner ELSE u
               locals == [op |-> "run", user |-> u, id |-> t, found |-> HasThread(t), who |-> who]
    <3>1. who \in Users
      BY <1>1
    <3>2. HasThread(t) \in BOOLEAN
      BY DEF HasThread
    <3>3. Begin(q, locals)
      BY <2>5 DEF BeginRun
    <3> HIDE DEF who
    <3>4. locals \in PendingRun
      BY <3>1, <3>2 DEF PendingRun
    <3> QED BY <3>3, <3>4, BeginsTyped
  <2> QED BY <1>3, <2>1, <2>2, <2>3, <2>4, <2>5
<1>4. ASSUME NEW q \in Requests, NEW u \in Users, NEW s \in ThreadIds, NEW t \in ThreadIds,
             BeginPrune(q, u, <<s, t>>)
      PROVE  ThreadStoreTypeOK'
  <2>1. Head(<<s, t>>) = s /\ Tail(<<s, t>>) \in Seq(ThreadIds) /\ Len(<<s, t>>) = 2 /\ 1 \in 1..2
    OBVIOUS
  <2>2. threads # <<>>
    <3>1. \E i \in 1..Len(threads) : threads[i].id = <<s, t>>[1]
      BY <1>4, <2>1 DEF BeginPrune
    <3> QED BY <3>1
  <2>3. Locals(threads, u, s, Tail(<<s, t>>)) \in PendingRun
    BY <1>0, <2>1, <2>2, LocalsTyped
  <2> QED BY <1>4, <2>1, <2>3, BeginsTyped DEF BeginPrune
<1>5. ASSUME NEW q \in Requests, FinishPut(q) PROVE ThreadStoreTypeOK'
  <2>1. req[q].user \in Users /\ req[q].id \in ThreadIds
    BY <1>5, PendingTyped DEF FinishPut, Finish
  <2>2. threads' \in Seq(ThreadRecord) /\ Len(threads') <= MaxRecords
    BY <1>0, <1>5, <2>1, AppendTyped DEF FinishPut
  <2> QED BY <1>2, <1>5, <2>2 DEF FinishPut, ThreadStoreTypeOK
<1>6. ASSUME NEW q \in Requests, FinishCopy(q) PROVE ThreadStoreTypeOK'
  <2> DEFINE i == FirstIndex(req[q].id)
  <2>1. req[q].user \in Users
    BY <1>6, PendingTyped DEF FinishCopy, Finish
  <2>2. i > 0 => threads[i].owner \in Users
    <3>1. i > 0 => HasThread(req[q].id)
      BY DEF FirstIndex
    <3> QED BY <1>1, <3>1
  <2>3. \/ UNCHANGED threads
        \/ i > 0 /\ Room /\ \E t \in ThreadIds : AppendRecord(t, threads[i].owner, req[q].user, "copy")
    BY <1>6 DEF FinishCopy
  <2> HIDE DEF i
  <2>4. threads' \in Seq(ThreadRecord) /\ Len(threads') <= MaxRecords
    BY <1>0, <2>1, <2>2, <2>3, AppendTyped
  <2> QED BY <1>2, <1>6, <2>4 DEF FinishCopy, ThreadStoreTypeOK
<1>7. ASSUME NEW q \in Requests, FinishPatch(q) PROVE ThreadStoreTypeOK'
  <2> DEFINE i == req[q].idx
  <2>1. req[q].user \in Users /\ i \in 0..MaxRecords
    BY <1>7, PendingTyped DEF FinishPatch, Finish
  <2>2. \/ UNCHANGED threads
        \/ threads' = [threads EXCEPT ![i].by = req[q].user]
    BY <1>7 DEF FinishPatch
  <2>3. threads' \in Seq(ThreadRecord) /\ Len(threads') = Len(threads)
    <3>1. CASE i \in 1..Len(threads) /\ threads' = [threads EXCEPT ![i].by = req[q].user]
      <4>1. threads[i] \in ThreadRecord
        BY <1>0, <3>1
      <4>2. [threads[i] EXCEPT !.by = req[q].user] \in ThreadRecord
        BY <2>1, <4>1 DEF ThreadRecord
      <4> QED BY <1>0, <3>1, <4>2
    <3>2. CASE i \notin 1..Len(threads) /\ threads' = [threads EXCEPT ![i].by = req[q].user]
      <4>1. DOMAIN threads = 1..Len(threads) /\ threads = [k \in DOMAIN threads |-> threads[k]]
        BY <1>0
      <4>2. threads' = [k \in DOMAIN threads |-> threads[k]]
        BY <3>2, <4>1
      <4> QED BY <1>0, <4>1, <4>2
    <3> QED BY <1>0, <2>2, <3>1, <3>2
  <2> QED BY <1>0, <1>2, <1>7, <2>3 DEF FinishPatch, ThreadStoreTypeOK
<1>8. ASSUME NEW q \in Requests, FinishDelete(q) PROVE ThreadStoreTypeOK'
  <2>1. /\ req[q].op = "delete" /\ req[q].user \in Users /\ req[q].idx \in 0..MaxRecords
        /\ req[q].todo \in Seq(ThreadIds)
    BY <1>8, PendingTyped DEF FinishDelete
  <2>2. \/ UNCHANGED threads
        \/ req[q].idx \in 1..Len(threads) /\ threads' = Pop(threads, req[q].idx)
    BY <1>0, <1>8, <2>1 DEF FinishDelete
  <2>3. threads' \in Seq(ThreadRecord) /\ Len(threads') <= MaxRecords
    BY <1>0, <2>2, PopMovesUp
  <2>4. AfterDelete(q, threads') \in {Idle} \cup PendingRun
    <3>1. CASE req[q].todo = <<>> \/ threads' = <<>>
      BY <3>1 DEF AfterDelete
    <3>2. CASE ~ (req[q].todo = <<>> \/ threads' = <<>>)
      <4>1. Head(req[q].todo) \in ThreadIds /\ Tail(req[q].todo) \in Seq(ThreadIds)
        BY <2>1, <3>2
      <4>2. Locals(threads', req[q].user, Head(req[q].todo), Tail(req[q].todo)) \in PendingRun
        BY <2>1, <2>3, <3>2, <4>1, LocalsTyped
      <4> QED BY <3>2, <4>2 DEF AfterDelete
    <3> QED BY <3>1, <3>2
  <2>5. req' \in [Requests -> {Idle} \cup PendingRun]
    BY <1>8, <2>4 DEF FinishDelete, ThreadStoreTypeOK
  <2>6. runThreads' \subseteq ThreadIds /\ cronThreads' \subseteq ThreadIds
    BY <1>8 DEF FinishDelete, ThreadStoreTypeOK
  <2> QED BY <2>3, <2>5, <2>6 DEF ThreadStoreTypeOK
<1>9. ASSUME NEW q \in Requests, FinishRun(q) PROVE ThreadStoreTypeOK'
  <2>1. req[q].user \in Users /\ req[q].id \in ThreadIds
    BY <1>9, PendingTyped DEF FinishRun, Finish
  <2>2. \/ UNCHANGED threads
        \/ Room /\ AppendRecord(req[q].id, req[q].user, req[q].user, "run")
    BY <1>9 DEF FinishRun
  <2>3. threads' \in Seq(ThreadRecord) /\ Len(threads') <= MaxRecords
    BY <1>0, <2>1, <2>2, AppendTyped
  <2>4. runThreads' \subseteq ThreadIds /\ cronThreads' \subseteq ThreadIds
    BY <1>9, <2>1 DEF FinishRun, ThreadStoreTypeOK
  <2> QED BY <1>2, <1>9, <2>3, <2>4 DEF FinishRun, ThreadStoreTypeOK
<1>10. ASSUME NEW u \in Users, NEW t \in ThreadIds, PutThreadCron(u, t) PROVE ThreadStoreTypeOK'
  BY <1>10 DEF PutThreadCron, ThreadStoreTypeOK
<1>11. CASE UNCHANGED tsVars
  BY <1>11 DEF tsVars, ThreadStoreTypeOK
<1> QED BY <1>3, <1>4, <1>5, <1>6, <1>7, <1>8, <1>9, <1>10, <1>11 DEF ThreadStoreNext

\* Assistants, their versions and the ones being deleted.
AssistantTypes ==
  /\ assistant \in [AssistantIds -> {NoAssistant} \cup [version : 1..MaxVersion, config : Configs]]
  /\ versions \subseteq [asst : AssistantIds, version : 1..MaxVersion, config : Configs]
  /\ deleting \subseteq AssistantIds

\* Every request keeps them, since the next version is one more than a number.
LEMMA AssistantsTyped ==
  AssistantTypes /\ AssistantsInv /\ [CronStoreNext]_csVars => AssistantTypes'
<1> SUFFICES ASSUME AssistantTypes, AssistantsInv, [CronStoreNext]_csVars PROVE AssistantTypes'
  OBVIOUS
<1>1. ASSUME NEW a \in AssistantIds, NEW f \in Configs, NEW n \in 1..MaxVersion,
             assistant' = [assistant EXCEPT ![a] = [version |-> n, config |-> f]],
             versions' \subseteq versions \cup {[asst |-> a, version |-> n, config |-> f]},
             UNCHANGED deleting
      PROVE  AssistantTypes'
  BY <1>1 DEF AssistantTypes
<1>2. ASSUME NEW a \in AssistantIds, NEW f \in Configs, PutAssistant(a, f) PROVE AssistantTypes'
  <2>1. 1 \in 1..MaxVersion
    BY CronStoreAssumption
  <2> QED BY <1>1, <1>2, <2>1 DEF PutAssistant
<1>3. ASSUME NEW a \in AssistantIds, NEW f \in Configs, PatchAssistant(a, f) PROVE AssistantTypes'
  <2>1. Latest(a) \in Nat /\ NextVersion(a) <= MaxVersion
    BY <1>3, VersionNumbers DEF PatchAssistant
  <2>2. NextVersion(a) \in 1..MaxVersion
    BY <2>1, CronStoreAssumption DEF NextVersion
  <2> QED BY <1>1, <1>3, <2>2 DEF PatchAssistant
<1>4. ASSUME NEW a \in AssistantIds, NEW n \in 1..MaxVersion, SetLatest(a, n) PROVE AssistantTypes'
  <2>1. PICK v \in versions : assistant' = [assistant EXCEPT ![a] = [version |-> n, config |-> v.config]]
    BY <1>4 DEF SetLatest
  <2>2. v.config \in Configs
    BY DEF AssistantTypes
  <2> QED BY <1>4, <2>1, <2>2 DEF SetLatest, AssistantTypes
<1>5. ASSUME NEW a \in AssistantIds, BeginDeleteAssistant(a) \/ FinishDeleteAssistant(a) PROVE AssistantTypes'
  BY <1>5 DEF BeginDeleteAssistant, FinishDeleteAssistant, AssistantTypes
<1>6. CASE UNCHANGED <<assistant, versions, deleting>>
  BY <1>6 DEF AssistantTypes
<1>7. ASSUME NEW c \in CronIds, DeleteCron(c) PROVE AssistantTypes'
  BY <1>6, <1>7 DEF DeleteCron
<1>8. ASSUME NEW c \in CronIds, NEW a \in AssistantIds, NEW own \in BOOLEAN, NEW s \in Schedules,
             PutCron(c, a, own, s)
      PROVE  AssistantTypes'
  BY <1>6, <1>8 DEF PutCron
<1>9. ASSUME NEW c \in CronIds, NEW e \in BOOLEAN, NEW s \in Schedules, UpdateCron(c, e, s)
      PROVE  AssistantTypes'
  BY <1>6, <1>9 DEF UpdateCron
<1>10. CASE Tick \/ StartPass \/ WalkOn \/ CreateCronRun \/ SetNextRunDate \/ UNCHANGED csVars
  BY <1>6, <1>10 DEF Tick, StartPass, WalkOn, CreateCronRun, SetNextRunDate, csVars
<1> QED BY <1>2, <1>3, <1>4, <1>5, <1>7, <1>8, <1>9, <1>10 DEF CronStoreNext

\* The bounds of what Core has made, and the single id of a call that waits for its files.
CoreBounds ==
  /\ Len(ownerOf) <= MaxMade
  /\ files \in [CoreIds -> SUBSET (1..MaxMade)]
  /\ \A c \in Callers : asked[c].pc = "files" => Len(asked[c].ids) = 1

\* Calls come to their files from a call for one thread.
LEMMA CoreBounded == CoreBounds /\ CoreInv /\ [GrpcThreadsNext]_gtVars => CoreBounds'
<1> SUFFICES ASSUME CoreBounds, CoreInv, [GrpcThreadsNext]_gtVars PROVE CoreBounds'
  OBVIOUS
<1>1. /\ ownerOf \in Seq(CoreUsers) /\ core \in [CoreIds -> 0..Len(ownerOf)] /\ asked \in [Callers -> CallType]
      /\ Len(ownerOf) \in Nat /\ Len(ownerOf) <= MaxMade /\ MaxMade \in Nat
      /\ files \in [CoreIds -> SUBSET (1..MaxMade)]
      /\ \A c \in Callers : asked[c].pc = "call" => Len(asked[c].ids) = 1
  BY GrpcThreadsAssumption DEF CoreInv, CoreOK, CallOK, CoreBounds
<1>2. ASSUME NEW c \in Callers, NEW r, Become(c, r), r.pc = "files" => Len(r.ids) = 1
      PROVE  \A b \in Callers : asked'[b].pc = "files" => Len(asked'[b].ids) = 1
  BY <1>1, <1>2 DEF Become, CoreBounds
<1>3. ASSUME NEW c \in Callers, NEW r, NEW pc \in {"answered", "refused", "failed"}, End(c, r, pc)
      PROVE  \A b \in Callers : asked'[b].pc = "files" => Len(asked'[b].ids) = 1
  <2> DEFINE e == [NoCall EXCEPT !.op = r.op, !.who = r.who, !.pc = pc, !.count = r.count, !.hit = r.hit]
  <2>1. Become(c, e) /\ e.pc = pc
    BY <1>3 DEF End, NoCall
  <2> HIDE DEF e
  <2> QED BY <1>2, <2>1
<1>4. ASSUME UNCHANGED <<ownerOf, files>>,
             \A b \in Callers : asked'[b].pc = "files" => Len(asked'[b].ids) = 1
      PROVE  CoreBounds'
  BY <1>4 DEF CoreBounds
<1>5. ASSUME NEW u \in CoreUsers, NEW i \in CoreIds, CreateThread(u, i) PROVE CoreBounds'
  BY <1>1, <1>5 DEF CreateThread, CoreBounds
<1>6. ASSUME NEW i \in CoreIds, WriteFile(i) PROVE CoreBounds'
  <2>1. core[i] \in 1..MaxMade
    BY <1>1, <1>6 DEF WriteFile
  <2> QED BY <1>1, <1>6, <2>1 DEF WriteFile, CoreBounds
<1>7. ASSUME NEW c \in Callers, NEW list \in PruneLists,
             NEW op \in {"look", "delete", "copy", "prune", "keep_latest"}, AskCore(c, op, list)
      PROVE  CoreBounds'
  <2> DEFINE pc == IF list = <<>> THEN "answered"
                   ELSE IF op \in {"prune", "keep_latest"}
                   THEN (IF guarded THEN "validate" ELSE "batch") ELSE "call"
             left == IF guarded /\ op \in {"prune", "keep_latest"} THEN 1..Len(list) ELSE {}
             r == [NoCall EXCEPT !.op = op, !.who = UserOf[c], !.ids = list, !.pc = pc, !.left = left]
  <2>1. Become(c, r) /\ UNCHANGED <<ownerOf, files>>
    BY <1>7 DEF AskCore
  <2>2. pc # "files" /\ r.pc = pc
    BY DEF NoCall
  <2> HIDE DEF r, pc
  <2> QED BY <1>2, <1>4, <2>1, <2>2
<1>8. ASSUME NEW c \in Callers, LookOrPatch(c) PROVE CoreBounds'
  <2>1. UNCHANGED <<ownerOf, files>> /\ \E r : \E pc \in {"answered", "refused", "failed"} : End(c, r, pc)
    BY <1>8 DEF LookOrPatch
  <2> QED BY <1>3, <1>4, <2>1
<1>9. ASSUME NEW c \in Callers, SearchCore(c) PROVE CoreBounds'
  <2> DEFINE hit == {core[i] : i \in {j \in CoreIds : Sees(UserOf[c], j)}}
             r == [NoCall EXCEPT !.op = "look", !.who = UserOf[c], !.pc = "answered", !.hit = hit]
  <2>1. Become(c, r) /\ UNCHANGED <<ownerOf, files>> /\ r.pc = "answered"
    BY <1>9 DEF SearchCore, NoCall
  <2> HIDE DEF r
  <2> QED BY <1>2, <1>4, <2>1
<1>10. ASSUME NEW c \in Callers, DeleteCall(c) PROVE CoreBounds'
  <2> DEFINE r == asked[c]
             i == r.ids[1]
             d == [r EXCEPT !.hit = {core[i]}, !.pc = "files"]
  <2>1. /\ UNCHANGED <<ownerOf, files>> /\ r.pc = "call"
        /\ Become(c, d) \/ \E q : \E pc \in {"answered", "refused", "failed"} : End(c, q, pc)
    BY <1>10 DEF DeleteCall
  <2>2. d.ids = r.ids /\ Len(r.ids) = 1
    BY <1>1, <2>1 DEF CallType
  <2> HIDE DEF d
  <2> QED BY <1>2, <1>3, <1>4, <2>1, <2>2
<1>11. ASSUME NEW c \in Callers, NEW j \in CoreIds, CopyCall(c, j) PROVE CoreBounds'
  <2> DEFINE r == asked[c]
             i == r.ids[1]
             d == [r EXCEPT !.hit = {core[i]}, !.pc = "files", !.new = j]
  <2>1. /\ UNCHANGED files /\ r.pc = "call"
        /\ Become(c, d) \/ \E q : \E pc \in {"answered", "refused", "failed"} : End(c, q, pc)
    BY <1>11 DEF CopyCall
  <2>2. d.ids = r.ids /\ Len(r.ids) = 1
    BY <1>1, <2>1 DEF CallType
  <2>3. Len(ownerOf') <= MaxMade
    <3>1. \/ ownerOf' = ownerOf
          \/ Len(ownerOf) < MaxMade /\ ownerOf' = Append(ownerOf, ownerOf[core[i]])
      BY <1>11 DEF CopyCall
    <3> QED BY <1>1, <3>1
  <2> HIDE DEF d
  <2>4. \A b \in Callers : asked'[b].pc = "files" => Len(asked'[b].ids) = 1
    BY <1>2, <1>3, <2>1, <2>2
  <2> QED BY <2>1, <2>3, <2>4 DEF CoreBounds
<1>12. ASSUME NEW c \in Callers, FilesFollow(c) PROVE CoreBounds'
  <2> DEFINE r == asked[c]
             i == r.ids[1]
  <2>1. /\ UNCHANGED ownerOf /\ r.pc = "files"
        /\ \E pc \in {"answered", "refused", "failed"} : End(c, r, pc)
        /\ \/ UNCHANGED files
           \/ files' = [files EXCEPT ![i] = {}]
           \/ files' = [files EXCEPT ![r.new] = files[i]]
    BY <1>12 DEF FilesFollow
  <2>2. i \in CoreIds
    <3>1. Len(r.ids) = 1 /\ r.ids \in Seq(CoreIds)
      BY <1>1, <2>1 DEF CoreBounds, CallType
    <3> QED BY <3>1
  <2>3. files' \in [CoreIds -> SUBSET (1..MaxMade)]
    <3>1. files[i] \in SUBSET (1..MaxMade)
      BY <1>1, <2>2
    <3> HIDE DEF i, r
    <3> QED BY <1>1, <2>1, <3>1
  <2> QED BY <1>1, <1>3, <2>1, <2>3 DEF CoreBounds
<1>13. ASSUME NEW c \in Callers, NextBatch(c) PROVE CoreBounds'
  <2> DEFINE r == asked[c]
             batch == {k \in 1..Len(r.ids) : k > r.base /\ k <= r.base + BatchSize}
             p == [r EXCEPT !.pc = "deleting", !.left = batch, !.base = @ + BatchSize]
             k1 == [r EXCEPT !.base = @ + BatchSize, !.count = @ + Cardinality(batch)]
             k2 == [r EXCEPT !.base = @ + BatchSize]
  <2>1. /\ UNCHANGED <<ownerOf, files>> /\ r.pc = "batch"
        /\ End(c, r, "answered") \/ Become(c, p) \/ Become(c, k1) \/ Become(c, k2)
    BY <1>13 DEF NextBatch
  <2>2. p.pc = "deleting" /\ k1.pc = "batch" /\ k2.pc = "batch"
    BY <1>1, <2>1 DEF CallType
  <2> HIDE DEF p, k1, k2
  <2> QED BY <1>2, <1>3, <1>4, <2>1, <2>2
<1>14. ASSUME NEW c \in Callers, NEW k, ValidateAccess(c, k) PROVE CoreBounds'
  <2> DEFINE r == asked[c]
             v == [r EXCEPT !.left = @ \ {k}, !.pc = IF r.left = {k} THEN "batch" ELSE "validate"]
  <2>1. UNCHANGED <<ownerOf, files>> /\ (Become(c, v) \/ End(c, r, "refused"))
    BY <1>14 DEF ValidateAccess
  <2>2. v.pc \in {"batch", "validate"}
    BY <1>1 DEF CallType
  <2> HIDE DEF v
  <2> QED BY <1>2, <1>3, <1>4, <2>1, <2>2
<1>15. ASSUME NEW r, NEW c \in Callers, Become(c, GatherEnds(r)), "pc" \in DOMAIN r
       PROVE  \A b \in Callers : asked'[b].pc = "files" => Len(asked'[b].ids) = 1
  <2>1. GatherEnds(r).pc # "files"
    BY <1>15 DEF GatherEnds
  <2> QED BY <1>2, <1>15, <2>1
<1>16. ASSUME NEW c \in Callers, NEW k, DeleteOne(c, k) PROVE CoreBounds'
  <2> DEFINE r == asked[c]
             i == r.ids[k]
             d == [r EXCEPT !.left = @ \ {k}, !.hit = @ \cup {core[i]},
                            !.clean = @ \cup (IF custom THEN {k} ELSE {}),
                            !.count = @ + (IF custom THEN 0 ELSE 1)]
             f == [r EXCEPT !.left = @ \ {k}, !.count = Counted(r)]
  <2>1. UNCHANGED <<ownerOf, files>> /\ (Become(c, GatherEnds(d)) \/ Become(c, GatherEnds(f)))
    BY <1>16 DEF DeleteOne
  <2>2. "pc" \in DOMAIN d /\ "pc" \in DOMAIN f
    BY <1>1 DEF CallType
  <2> HIDE DEF d, f
  <2> QED BY <1>4, <1>15, <2>1, <2>2
<1>17. ASSUME NEW c \in Callers, NEW k, CleanOne(c, k) PROVE CoreBounds'
  <2> DEFINE r == asked[c]
             d == [r EXCEPT !.clean = @ \ {k}, !.count = @ + 1]
  <2>1. /\ UNCHANGED ownerOf /\ Become(c, GatherEnds(d))
        /\ UNCHANGED files \/ files' = [files EXCEPT ![r.ids[k]] = {}]
    BY <1>17 DEF CleanOne
  <2>2. "pc" \in DOMAIN d
    BY <1>1 DEF CallType
  <2> HIDE DEF d
  <2>3. files' \in [CoreIds -> SUBSET (1..MaxMade)]
    BY <1>1, <2>1
  <2> QED BY <1>1, <1>15, <2>1, <2>2, <2>3 DEF CoreBounds
<1>18. CASE UNCHANGED gtVars
  BY <1>18 DEF gtVars, CoreBounds
<1> QED BY <1>5, <1>6, <1>7, <1>8, <1>9, <1>10, <1>11, <1>12, <1>13, <1>14, <1>16, <1>17, <1>18
        DEF GrpcThreadsNext

\* What EncInv does not say of the types: the context, the last firing and the histories.
EncTypes ==
  /\ backend \in {"inmem", "core"} /\ restored \in Contexts
  /\ made.outcome \in {"none", "run", "refused", "raised"}
  /\ eras \in [Records -> SUBSET (Contexts \cup {"aes"})]
  /\ saves \in 0..MaxSaves

\* Whoever writes, the writer is a context or AES.
LEMMA EncTyped == EncTypes /\ EncInv /\ [EncNext]_encVars => EncTypes'
<1> SUFFICES ASSUME EncTypes, EncInv, [EncNext]_encVars PROVE EncTypes'
  OBVIOUS
<1>1. \A ks : \A t \in Contexts : EraOf(ks, t) \subseteq Contexts \cup {"aes"}
  BY DEF EraOf
<1>2. Saved => saves' \in 0..MaxSaves
  BY EncryptedRecordAssumption DEF Saved, EncTypes
<1>3. \A x \in {"assistant", "item", "run"} \cup CronNames : x \in Records
  BY DEF Records
<1>4. ASSUME NEW x \in Records, NEW t \in Contexts, NEW ks, NEW y \in Records,
             \/ eras' = [eras EXCEPT ![x] = eras[y] \cup EraOf(ks, t)]
             \/ eras' = [eras EXCEPT ![x] = EraOf(ks, t)]
      PROVE  eras' \in [Records -> SUBSET (Contexts \cup {"aes"})]
  <2>1. EraOf(ks, t) \in SUBSET (Contexts \cup {"aes"}) /\ eras[y] \in SUBSET (Contexts \cup {"aes"})
    BY <1>1 DEF EncTypes
  <2>2. eras[y] \cup EraOf(ks, t) \in SUBSET (Contexts \cup {"aes"})
    BY <2>1
  <2> QED BY <1>4, <2>1, <2>2 DEF EncTypes
<1>5. ASSUME NEW t \in Contexts, NEW ks \in SUBSET Keys,
             \/ SaveAssistant(t, ks) \/ PutItem(t, ks) \/ CreateRun(t, ks)
             \/ \E c \in CronNames : CreateCron(c, t, ks) \/ PatchCron(c, t, ks)
      PROVE  EncTypes'
  <2>1. Saved /\ UNCHANGED <<backend, restored, made>>
    BY <1>5 DEF SaveAssistant, PutItem, CreateRun, CreateCron, PatchCron
  <2>2. \E x, y \in Records : \/ eras' = [eras EXCEPT ![x] = eras[y] \cup EraOf(ks, t)]
                              \/ eras' = [eras EXCEPT ![x] = EraOf(ks, t)]
    BY <1>3, <1>5 DEF SaveAssistant, PutItem, CreateRun, CreateCron, PatchCron, PutRunMetadata
  <2>3. eras' \in [Records -> SUBSET (Contexts \cup {"aes"})]
    BY <1>4, <2>2
  <2> QED BY <1>2, <2>1, <2>3 DEF EncTypes
<1>6. ASSUME NEW c \in CronNames, Fire(c) PROVE EncTypes'
  <2>1. restored' \in Contexts /\ UNCHANGED <<backend, saves>>
    BY <1>6 DEF Fire, RestoredContext, EncInv, ContextInv
  <2>2. made'.outcome \in {"run", "refused", "raised"}
    BY <1>6 DEF Fire
  <2>3. UNCHANGED eras \/ eras' = [eras EXCEPT !["run"] = eras["assistant"] \cup EraOf(FiredMetadata(c), restored')]
    BY <1>6 DEF Fire, PutRunMetadata
  <2>4. eras' \in [Records -> SUBSET (Contexts \cup {"aes"})]
    BY <1>3, <1>4, <2>1, <2>3 DEF EncTypes
  <2> QED BY <2>1, <2>2, <2>4 DEF EncTypes
<1>7. CASE Redeploy
  BY <1>7, Markers DEF Redeploy, EncTypes
<1>8. CASE UNCHANGED encVars
  BY <1>8 DEF encVars, EncTypes
<1> QED BY <1>5, <1>6, <1>7, <1>8 DEF EncNext

\* All that is known of the records of every component.
RecordTypes ==
  /\ ThreadStoreTypeOK
  /\ AssistantTypes /\ AssistantsInv /\ DatesInv
  /\ StateInv /\ ListingInv /\ PgCronInv
  /\ CoreBounds /\ CoreInv
  /\ EncTypes /\ EncInv

\* The initial states have the types.
LEMMA RecordTypesStart == Init => RecordTypes
<1> SUFFICES ASSUME Init PROVE RecordTypes
  OBVIOUS
<1>1. /\ ThreadStoreInit /\ CronStoreInit /\ ThreadStateInit /\ ListingInit /\ PgCronInit
      /\ GrpcThreadsInit /\ EncInit
  BY DEF Init
<1>2. ThreadStoreTypeOK
  BY <1>1, ThreadStoreAssumption DEF ThreadStoreInit, ThreadStoreTypeOK
<1>3. AssistantTypes
  BY <1>1 DEF CronStoreInit, AssistantTypes
<1>4. CoreBounds
  <2>1. NoCall.pc = "idle"
    BY DEF NoCall
  <2> QED BY <1>1, <2>1, GrpcThreadsAssumption DEF GrpcThreadsInit, CoreBounds
<1>5. EncTypes
  <2>1. eras = [x \in Records |-> {}] /\ restored \in Contexts /\ made.outcome = "none" /\ saves = 0
        /\ backend \in {"inmem", "core"}
    BY <1>1, Markers DEF EncInit
  <2> QED BY <2>1, EncryptedRecordAssumption DEF EncTypes
<1> QED BY <1>1, <1>2, <1>3, <1>4, <1>5, AssistantsStart, DatesStart, StateStart, ListingStart, PgCronStart,
           CoreStart, EncStart DEF RecordTypes

\* So has every state a step leads to.
LEMMA RecordTypesStep == RecordTypes /\ [Next]_recordVars => RecordTypes'
<1> SUFFICES ASSUME RecordTypes, [Next]_recordVars PROVE RecordTypes'
  OBVIOUS
<1>1. /\ [ThreadStoreNext]_tsVars /\ [CronStoreNext]_csVars /\ [ThreadStateNext]_stVars /\ [ListingNext]_liVars
      /\ [PgCronNext]_pcVars /\ [GrpcThreadsNext]_gtVars /\ [EncNext]_encVars
  <2>1. CASE Next
    BY <2>1 DEF Next, Others
  <2>2. CASE UNCHANGED recordVars
    BY <2>2 DEF recordVars
  <2> QED BY <2>1, <2>2
<1> QED BY <1>1, ThreadStoreTyped, AssistantsTyped, AssistantsStep, DatesStep, StateStep, ListingStep, PgCronStep,
           CoreBounded, CoreStep, EncTyped, EncStep DEF RecordTypes

\* And so the records of the component in focus have the types the runs check.
LEMMA RecordTypesSuffice == RecordTypes => RecordsTypeOK
<1> SUFFICES ASSUME RecordTypes PROVE RecordsTypeOK
  OBVIOUS
<1>1. CronStoreTypeOK
  <2>1. /\ cron \in [CronIds -> {NoCron} \cup Cron] /\ clock \in 0..MaxClock /\ walk \in Pass
        /\ \A f \in fired : f.id \in CronIds /\ f.date \in Nat /\ f.times = 1
    BY DEF RecordTypes, DatesInv, WalkTypes, DatesPast
  <2> QED BY <2>1 DEF RecordTypes, AssistantTypes, CronStoreTypeOK
<1>2. ThreadStateTypeOK
  BY ThreadStateAssumption DEF RecordTypes, StateInv, StateTypes, ThreadRecords, Checkpoints, ThreadStateTypeOK
<1>3. ListingTypeOK
  BY ListingAssumption DEF RecordTypes, ListingInv, ListTypes, ListingTypeOK
<1>4. PgCronTypeOK
  <2>1. date \in 0..MaxDate /\ cronRow \in [PgCrons -> [there : BOOLEAN, on : BOOLEAN, due : 0..MaxDate + 1]]
    BY DEF RecordTypes, PgCronInv, CronTypes, CronRows
  <2>2. ASSUME NEW s \in Schedulers
        PROVE  /\ beat[s].pc \in {"asleep", "pass", "fired"}
               /\ beat[s].todo \subseteq PgCrons /\ beat[s].moved \subseteq PgCrons
    BY DEF RecordTypes, PgCronInv, CronTypes, Beats
  <2>3. ASSUME NEW s \in Schedulers PROVE Cardinality(Pending(s)) <= 1
    <3>1. \E c : Pending(s) \subseteq {c}
      BY <2>2 DEF RecordTypes, PgCronInv, PassInv
    <3>2. PICK c : Pending(s) = {} \/ Pending(s) = {c}
      BY <3>1
    <3>3. Cardinality({}) = 0 /\ Cardinality({c}) = 1
      BY FS_EmptySet, FS_Singleton
    <3> QED BY <3>2, <3>3
  <2> QED BY <2>1, <2>2, <2>3 DEF PgCronTypeOK
<1>5. GrpcThreadsTypeOK
  <2>1. CoreOK(core, ownerOf) /\ CoreBounds /\ Len(ownerOf) \in Nat /\ MaxMade \in Nat
    BY GrpcThreadsAssumption DEF RecordTypes, CoreInv, CoreOK
  <2>2. ASSUME NEW c \in Callers PROVE asked[c].hit \subseteq 1..MaxMade /\ asked[c].count \in Nat
    <3>1. asked[c] \in CallType /\ \A n \in asked[c].hit : n \in 1..Len(ownerOf)
      BY DEF RecordTypes, CoreInv, CallOK
    <3> QED BY <2>1, <3>1 DEF CallType, CoreBounds
  <2> QED BY <2>1, <2>2 DEF CoreOK, CoreBounds, GrpcThreadsTypeOK
<1>6. EncTypeOK
  <2>1. doc \in [Records -> Docs] /\ payload \in [CronNames -> Docs] /\ deployed \in Deployments
    BY DEF RecordTypes, EncInv, RecordInv, DocOK
  <2> QED BY <2>1 DEF RecordTypes, EncTypes, EncInv, ContextInv, EncTypeOK
<1> QED BY <1>1, <1>2, <1>3, <1>4, <1>5, <1>6 DEF RecordTypes, RecordsTypeOK

\* The records of all seven stores keep their types (langgraph_runtime_inmem/ops.py and
\* database.py, langgraph_runtime_postgres_py/ops.py, langgraph_api/grpc and encryption):
\* for all instances.
THEOREM RecordsTyped == Spec => []RecordsTypeOK
<1> QED BY RecordTypesStart, RecordTypesStep, RecordTypesSuffice, PTL DEF Spec
=============================================================================
