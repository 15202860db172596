------------------------------ MODULE CronStore ------------------------------
(***************************************************************************)
(* Assistants with their versions, crons and the cron scheduler of the     *)
(* in-memory runtime.  The scheduler walks over the list of crons while    *)
(* requests change the records, append to the list or replace it: a        *)
(* deletion binds a new list, and the walk goes on over the old one.       *)
(***************************************************************************)
EXTENDS Naturals, Sequences, FiniteSets

CONSTANTS
  AssistantIds, Configs,
  CronIds,
  Period,        \* the schedules: minutes between two dates, by name
  Poison,        \* crons whose payload cannot be decrypted
  MaxVersion,    \* bound: versions of an assistant
  MaxClock       \* bound: how far time runs

\* Every schedule has dates, and the list of crons ends; there is one of each to begin with.
ASSUME CronStoreAssumption ==
  /\ Period \in [DOMAIN Period -> Nat \ {0}] /\ DOMAIN Period # {}
  /\ IsFiniteSet(CronIds) /\ CronIds # {}
  /\ MaxVersion \in Nat \ {0} /\ MaxClock \in Nat

VARIABLES
  assistant,     \* store["assistants"]: version and content, or none
  versions,      \* store["assistant_versions"]
  deleting,      \* Assistants.delete calls between their check and their removal
  cron,          \* the cron records, those of former lists too
  clock,
  walk,          \* the scheduler's pass
  fired          \* history: the dates crons have created runs for

csVars == <<assistant, versions, deleting, cron, clock, walk, fired>>

Schedules == DOMAIN Period
NoAssistant == [version |-> 0]
NoCron == [live |-> FALSE, enabled |-> FALSE]
Cron == [live : BOOLEAN, enabled : BOOLEAN, asst : AssistantIds, thread : BOOLEAN,
         sched : Schedules, next : Nat]
Pass == [pc : {"asleep", "walking", "creating", "advancing"}, rest : Seq(CronIds), same : BOOLEAN,
         now : 0..MaxClock, id : CronIds, date : Nat, sched : Schedules]

\* The types of the records and of the scheduler's pass.
CronStoreTypeOK ==
  /\ assistant \in [AssistantIds -> {NoAssistant} \cup [version : 1..MaxVersion, config : Configs]]
  /\ versions \subseteq [asst : AssistantIds, version : 1..MaxVersion, config : Configs]
  /\ deleting \subseteq AssistantIds
  /\ cron \in [CronIds -> {NoCron} \cup Cron]
  /\ clock \in 0..MaxClock
  /\ walk \in Pass
  /\ \A f \in fired : f.id \in CronIds /\ f.date \in Nat /\ f.times \in 1..2

CronStoreInit ==
  /\ assistant = [a \in AssistantIds |-> NoAssistant] /\ versions = {} /\ deleting = {}
  /\ cron = [c \in CronIds |-> NoCron]
  /\ clock = 0
  /\ walk = [pc |-> "asleep", rest |-> <<>>, same |-> TRUE, now |-> 0, date |-> 0,
             id |-> CHOOSE c \in CronIds : TRUE, sched |-> CHOOSE s \in Schedules : TRUE]
  /\ fired = {}

(***************************************************************************)
(* Assistants.  Handlers are awaited before the store is looked at, so     *)
(* that every operation but delete is one step.                            *)
(***************************************************************************)
Known(a) == assistant[a] # NoAssistant
VersionsOf(a) == {v.version : v \in {w \in versions : w.asst = a}}
Latest(a) == CHOOSE n \in VersionsOf(a) : \A m \in VersionsOf(a) : m <= n

PutAssistant(a, config) ==
  /\ ~Known(a)
  /\ assistant' = [assistant EXCEPT ![a] = [version |-> 1, config |-> config]]
  /\ versions' = versions \cup {[asst |-> a, version |-> 1, config |-> config]}
  /\ UNCHANGED <<deleting, cron, clock, walk, fired>>

\* One more than the greatest version there is, whichever is current.
NextVersion(a) == Latest(a) + 1

PatchAssistant(a, config) ==
  /\ Known(a) /\ NextVersion(a) <= MaxVersion
  /\ assistant' = [assistant EXCEPT ![a] = [version |-> NextVersion(a), config |-> config]]
  /\ versions' = versions \cup {[asst |-> a, version |-> NextVersion(a), config |-> config]}
  /\ UNCHANGED <<deleting, cron, clock, walk, fired>>

SetLatest(a, n) ==
  /\ Known(a)
  /\ \E v \in versions : /\ v.asst = a /\ v.version = n
                         /\ assistant' = [assistant EXCEPT ![a] = [version |-> n, config |-> v.config]]
  /\ UNCHANGED <<versions, deleting, cron, clock, walk, fired>>

\* delete awaits the deletion of threads and the cancellation of runs in between.
BeginDeleteAssistant(a) ==
  /\ Known(a)
  /\ deleting' = deleting \cup {a}
  /\ UNCHANGED <<assistant, versions, cron, clock, walk, fired>>

\* Lists are replaced, so that a walk over the old list no longer sees the store's.
Rebound == [walk EXCEPT !.same = FALSE]
Removed(c) == [cron[c] EXCEPT !.live = FALSE]

\* Mutant of FinishDeleteAssistant: the crons stay.
FinishDeleteAssistantOnly(a) ==
  /\ a \in deleting
  /\ deleting' = deleting \ {a}
  /\ assistant' = [assistant EXCEPT ![a] = NoAssistant]
  /\ versions' = {v \in versions : v.asst # a}
  /\ UNCHANGED <<cron, clock, walk, fired>>

FinishDeleteAssistant(a) ==
  /\ a \in deleting
  /\ deleting' = deleting \ {a}
  /\ assistant' = [assistant EXCEPT ![a] = NoAssistant]
  /\ versions' = {v \in versions : v.asst # a}
  /\ cron' = [c \in CronIds |-> IF cron[c].live /\ cron[c].asst = a THEN Removed(c) ELSE cron[c]]
  /\ walk' = Rebound
  /\ UNCHANGED <<clock, fired>>

(***************************************************************************)
(* Crons                                                                   *)
(***************************************************************************)
\* next_cron_date: the first date of the schedule after the given time.
NextDate(s, time) == ((time \div Period[s]) + 1) * Period[s]

\* With a thread the handler for reading threads is awaited after the assistant was
\* found, so that the assistant may be gone.
PutCron(c, a, thread, s) ==
  /\ cron[c] = NoCron
  /\ Known(a) \/ thread
  /\ cron' = [cron EXCEPT ![c] = [live |-> TRUE, enabled |-> TRUE, asst |-> a, thread |-> thread,
                                   sched |-> s, next |-> NextDate(s, clock)]]
  /\ walk' = IF walk.same /\ walk.pc # "asleep" THEN [walk EXCEPT !.rest = Append(@, c)] ELSE walk
  /\ UNCHANGED <<assistant, versions, deleting, clock, fired>>

UpdateCron(c, enabled, s) ==
  /\ cron[c].live
  /\ cron' = [cron EXCEPT ![c].enabled = enabled, ![c].sched = s,
                          ![c].next = IF s # cron[c].sched THEN NextDate(s, clock) ELSE @]
  /\ UNCHANGED <<assistant, versions, deleting, clock, walk, fired>>

DeleteCron(c) ==
  /\ cron[c].live
  /\ cron' = [cron EXCEPT ![c] = Removed(c)]
  /\ walk' = Rebound
  /\ UNCHANGED <<assistant, versions, deleting, clock, fired>>

(***************************************************************************)
(* cron_scheduler                                                          *)
(***************************************************************************)
Tick ==
  /\ clock < MaxClock /\ clock' = clock + 1
  /\ UNCHANGED <<assistant, versions, deleting, cron, walk, fired>>

\* Crons.next reads the time and binds the list.
StartPass ==
  /\ walk.pc = "asleep"
  /\ \E list \in [1..Cardinality({c \in CronIds : cron[c].live}) -> {c \in CronIds : cron[c].live}] :
       /\ \A i, j \in DOMAIN list : i # j => list[i] # list[j]
       /\ walk' = [walk EXCEPT !.pc = "walking", !.rest = list, !.same = TRUE, !.now = clock]
  /\ UNCHANGED <<assistant, versions, deleting, cron, clock, fired>>

IsDue(c, now) == cron[c].enabled /\ cron[c].next <= now

\* The next record of the list: skipped, or handed out as a copy.  An error in front of
\* create_valid_run ends the pass.
WalkOn ==
  /\ walk.pc = "walking"
  /\ \/ /\ walk.rest = <<>>
        /\ walk' = [walk EXCEPT !.pc = "asleep"]
     \/ /\ walk.rest # <<>>
        /\ LET c == Head(walk.rest)
               past == [walk EXCEPT !.rest = Tail(@)]
           IN  walk' = IF ~IsDue(c, walk.now) THEN past
                       ELSE IF c \in Poison THEN [walk EXCEPT !.pc = "asleep", !.rest = <<>>]
                       ELSE [past EXCEPT !.pc = "creating", !.id = c, !.date = cron[c].next,
                                         !.sched = cron[c].sched]
  /\ UNCHANGED <<assistant, versions, deleting, cron, clock, fired>>

\* The run is created, or an exception is logged.
CreateCronRun ==
  /\ walk.pc = "creating"
  /\ walk' = [walk EXCEPT !.pc = "advancing"]
  /\ \/ UNCHANGED fired
     \/ LET before == {f \in fired : f.id = walk.id /\ f.date = walk.date}
        IN  fired' = (fired \ before)
                      \cup {[id |-> walk.id, date |-> walk.date,
                             times |-> IF before = {} THEN 1 ELSE 2]}
  /\ UNCHANGED <<assistant, versions, deleting, cron, clock>>

\* Mutant of SetNextRunDate: the pass ends with the run.
SetNextRunDateLate ==
  /\ walk.pc = "advancing"
  /\ walk' = [walk EXCEPT !.pc = "creating"]
  /\ UNCHANGED <<assistant, versions, deleting, cron, clock, fired>>

\* The next date is computed from the copy in a thread of the executor and written to
\* the record of the store, if it is still there.
SetNextRunDate ==
  /\ walk.pc = "advancing"
  /\ walk' = [walk EXCEPT !.pc = "walking"]
  /\ cron' = [cron EXCEPT ![walk.id].next =
                IF cron[walk.id].live THEN NextDate(walk.sched, walk.now) ELSE @]
  /\ UNCHANGED <<assistant, versions, deleting, clock, fired>>

CronStoreNext ==
  \/ \E a \in AssistantIds :
       \/ \E config \in Configs : PutAssistant(a, config) \/ PatchAssistant(a, config)
       \/ \E n \in 1..MaxVersion : SetLatest(a, n)
       \/ BeginDeleteAssistant(a) \/ FinishDeleteAssistant(a)
  \/ \E c \in CronIds :
       \/ \E a \in AssistantIds, thread \in BOOLEAN, s \in Schedules : PutCron(c, a, thread, s)
       \/ \E enabled \in BOOLEAN, s \in Schedules : UpdateCron(c, enabled, s)
       \/ DeleteCron(c)
  \/ Tick \/ StartPass \/ WalkOn \/ CreateCronRun \/ SetNextRunDate

CronStoreSpec == CronStoreInit /\ [][CronStoreNext]_csVars

(***************************************************************************)
(* Properties                                                              *)
(***************************************************************************)
\* An assistant has the content of the version it names, and its versions are numbered
\* without a gap or a double, across patches, returns to older versions and deletions.
VersionsConsistent ==
  \A a \in AssistantIds :
    /\ \A v, w \in versions : v.asst = w.asst /\ v.version = w.version => v = w
    /\ VersionsOf(a) = 1..Cardinality(VersionsOf(a))
    /\ Known(a) => \E v \in versions : v.asst = a /\ v.version = assistant[a].version
                                                  /\ v.config = assistant[a].config

\* A cron without a thread has an assistant: neither a deletion that was suspended nor
\* a cron created meanwhile leaves one behind.
CronHasAssistant == \A c \in CronIds : cron[c].live /\ ~cron[c].thread => Known(cron[c].asst)

\* No date of a cron creates two runs, although the walk uses copies of the record, the
\* record is changed meanwhile and its date is written back afterwards.
FiresOncePerDate == \A f \in fired : f.times = 1

=============================================================================
