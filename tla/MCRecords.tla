------------------------------ MODULE MCRecords ------------------------------
(***************************************************************************)
(* Instances of the components that keep records: threads and crons of the *)
(* in-memory runtime, thread state and checkpoints, listing, the crons of  *)
(* the Postgres runtime, threads behind gRPC and encrypted records.  They  *)
(* share no state, so one behaviour runs one of them, the one in focus,    *)
(* and the others stay in one of their initial states.                     *)
(***************************************************************************)
EXTENDS ThreadStore, CronStore, ThreadState, Listing, PgCron, GrpcThreads, EncryptedRecord

VARIABLE focus    \* the component that runs

RecordComponents ==
  {"ThreadStore", "CronStore", "ThreadState", "Listing", "PgCron", "GrpcThreads", "EncryptedRecord"}

On(c) == focus = c

\* The constants that are not numbers or sets of model values.
MCPeriod == [s \in {"often", "rare"} |-> IF s = "often" THEN 1 ELSE 2]
MCQueries == {q \in [kind : Kinds, runtime : {"inmem", "pg"}, sort : Sorts, form : QueryForms] :
                q.kind # "threads" => q.sort = "default"}
MCPruneLists == {<<>>, <<"i1">>, <<"i1", "i1", "i1">>}
MCUserOf == [c \in {"c1", "c2"} |-> IF c = "c1" THEN "u1" ELSE "u2"]
MCRedeploys == {<<"none", "aes">>, <<"none", "blob">>, <<"none", "custom">>, <<"aes", "both">>,
                <<"blob", "custom">>}

\* Where a component has several initial states, it stays in this one.
ThreadStateStands == runtime = "inmem" /\ thread = [there |-> TRUE, status |-> "idle", shown |-> 0, graph |-> TRUE]
ListingStands ==
  /\ query = [kind |-> "threads", runtime |-> "inmem", sort |-> "default", form |-> "none"]
  /\ rows = [i \in 1..NRows |-> IF i <= NStored THEN [NoRow EXCEPT !.there = TRUE, !.fits = TRUE, !.mine = TRUE,
                                                      !.threadMine = TRUE, !.created = i, !.updated = i]
                                ELSE NoRow]
GrpcThreadsStand == guarded = TRUE /\ custom = FALSE
RecordStands == deployed = "none" /\ backend = "inmem"

Init ==
  /\ focus \in RecordComponents
  /\ IF On("ThreadState") THEN TRUE ELSE ThreadStateStands
  /\ IF On("Listing") THEN TRUE ELSE ListingStands
  /\ IF On("GrpcThreads") THEN TRUE ELSE GrpcThreadsStand
  /\ IF On("EncryptedRecord") THEN TRUE ELSE RecordStands
  /\ ThreadStoreInit /\ CronStoreInit /\ ThreadStateInit /\ ListingInit /\ PgCronInit
  /\ GrpcThreadsInit /\ EncInit

\* Every component but one stands still.
Others(c) ==
  /\ UNCHANGED focus
  /\ IF c = "ThreadStore" THEN TRUE ELSE UNCHANGED tsVars
  /\ IF c = "CronStore" THEN TRUE ELSE UNCHANGED csVars
  /\ IF c = "ThreadState" THEN TRUE ELSE UNCHANGED stVars
  /\ IF c = "Listing" THEN TRUE ELSE UNCHANGED liVars
  /\ IF c = "PgCron" THEN TRUE ELSE UNCHANGED pcVars
  /\ IF c = "GrpcThreads" THEN TRUE ELSE UNCHANGED gtVars
  /\ IF c = "EncryptedRecord" THEN TRUE ELSE UNCHANGED encVars

Next ==
  \/ On("ThreadStore") /\ ThreadStoreNext /\ Others("ThreadStore")
  \/ On("CronStore") /\ CronStoreNext /\ Others("CronStore")
  \/ On("ThreadState") /\ ThreadStateNext /\ Others("ThreadState")
  \/ On("Listing") /\ ListingNext /\ Others("Listing")
  \/ On("PgCron") /\ PgCronNext /\ Others("PgCron")
  \/ On("GrpcThreads") /\ GrpcThreadsNext /\ Others("GrpcThreads")
  \/ On("EncryptedRecord") /\ EncNext /\ Others("EncryptedRecord")

recordVars == <<focus, tsVars, csVars, stVars, liVars, pcVars, gtVars, encVars>>

Spec == Init /\ [][Next]_recordVars

(***************************************************************************)
(* Properties                                                              *)
(***************************************************************************)
\* The records of the component in focus have their types (see each module).
RecordsTypeOK ==
  /\ On("ThreadStore") => ThreadStoreTypeOK
  /\ On("CronStore") => CronStoreTypeOK
  /\ On("ThreadState") => ThreadStateTypeOK
  /\ On("Listing") => ListingTypeOK
  /\ On("PgCron") => PgCronTypeOK
  /\ On("GrpcThreads") => GrpcThreadsTypeOK
  /\ On("EncryptedRecord") => EncTypeOK

\* Requests keep to their own user's threads though records move, vanish and are made
\* anew while they wait: in memory they write and copy no other (what Threads.delete pops
\* is another matter if its handler suspends), behind gRPC they touch no other at all.
OwnersOnly ==
  /\ On("ThreadStore") => OnlyOwnersWrite
  /\ On("GrpcThreads") => OnlyOwnThreads

\* Records agree with one another: threads are unique except for what Runs.put appends
\* after its wait, an assistant has the content of the version it names, and a prune
\* behind gRPC answers what it did.
RecordsAgree ==
  /\ On("ThreadStore") => DuplicatesByRunsOnly
  /\ On("CronStore") => VersionsConsistent
  /\ On("GrpcThreads") => PruneTellsWhatItDid

\* Deleting a thread or an assistant leaves no cron behind that has neither.
NoCronLeftBehind ==
  /\ On("ThreadStore") => NoOrphanCron
  /\ On("CronStore") => CronHasAssistant

\* No date of a cron is fired twice, by the walk of the in-memory scheduler over its
\* copies nor by the passes and the retries of the Postgres one.
DatesFireOnce ==
  /\ On("CronStore") => FiresOncePerDate
  /\ On("PgCron") => OncePerDate

\* A run and an update of the state of its thread do not undo each other's progress:
\* checkpoints form one history, a run goes on from the newest one, and the thread
\* stays busy for as long as the run is in flight.
ProgressIsKept == On("ThreadState") => HistoryLinear /\ RunUndisturbed /\ UpdatesKeepBusy

\* Pages followed to the end show every row that stood still, and counts agree.
ListingsAgree == On("Listing") => ListingComplete /\ CountAgrees

\* What is stored encrypted is never served as if it were data, can be read for as
\* long as one encryption wrote it, and a cron's run never works under the context
\* of the cron that was fired before.
EncryptionKept == On("EncryptedRecord") => CiphertextNeverServed /\ OneEraReadable /\ NoContextLeak
=============================================================================
