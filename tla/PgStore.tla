------------------------------- MODULE PgStore -------------------------------
(***************************************************************************)
(* The Postgres operations that change a thread with its runs, and an      *)
(* assistant with its versions.  connect() opens a transaction that is     *)
(* committed when the request ends and rolled back when it raises.  The    *)
(* statements run at READ COMMITTED: each reads what is committed when it  *)
(* starts, and what its own transaction has written; a row that a          *)
(* transaction has written is locked until it ends.  The database is       *)
(* external and modelled by these rules.                                   *)
(***************************************************************************)
EXTENDS Naturals, FiniteSets

CONSTANTS
  Sessions,      \* requests in progress, each with a connection of the pool
  Mixes,         \* sets of operations; one of them is under way
  NRuns,         \* bound: runs of the thread
  NVersions,     \* bound: versions of the assistant
  PgConfigs      \* contents of an assistant

VARIABLES db, tx, mix

pgVars == <<db, tx, mix>>

ThreadRow == <<"thread", 0>>
AsstRow == <<"assistant", 0>>
RunRow(i) == <<"run", i>>
VersionRow(n) == <<"version", n>>
RunRows == {RunRow(i) : i \in 1..NRuns}
VersionRows == {VersionRow(n) : n \in 1..NVersions}
Rows == {ThreadRow, AsstRow} \cup RunRows \cup VersionRows

Value == [st : {"absent", "idle", "busy", "pending", "interrupted", "live"},
          version : 0..NVersions, config : PgConfigs]
AnyConfig == CHOOSE c \in PgConfigs : TRUE
Is(st) == [st |-> st, version |-> 0, config |-> AnyConfig]
Content(n, c) == [st |-> "live", version |-> n, config |-> c]
Gone == Is("absent")

Committing == 9

\* A session: the operation, its next statement, the run or version it is about, the
\* content it carries, a condition it has read or was given, the runs left to cancel.
OpNames == {"Runs.put", "Runs.cancel", "Runs.delete", "Threads.put", "Threads.delete",
          "State.post", "Assistants.put", "Assistants.patch", "Assistants.delete",
          "Assistants.set_latest"}
ASSUME PgStoreAssumption ==
  /\ Mixes \subseteq SUBSET OpNames
  /\ NRuns \in Nat /\ NVersions \in Nat \ {0} /\ PgConfigs # {}

Local == [op : OpNames \cup {"none"}, pc : 0..Committing,
          n : 0..NRuns + NVersions, config : PgConfigs, flag : BOOLEAN, todo : SUBSET (1..NRuns)]
AtRest == [op |-> "none", pc |-> 0, n |-> 0, config |-> AnyConfig, flag |-> FALSE, todo |-> {}]
NothingWritten == [row \in {} |-> Is("absent")]

\* Every row holds a value; a session writes rows.
PgStoreTypeOK ==
  /\ db \in [Rows -> Value]
  /\ DOMAIN tx = Sessions
  /\ \A s \in Sessions : tx[s].l \in Local /\ tx[s].w \in [DOMAIN tx[s].w -> Value]
  /\ \A s \in Sessions : DOMAIN tx[s].w \subseteq Rows
  /\ mix \in Mixes

PgStoreInit ==
  /\ db = [row \in Rows |-> CASE row = ThreadRow -> Is("idle")
                              [] row \in {AsstRow, VersionRow(1)} -> Content(1, AnyConfig)
                              [] OTHER -> Is("absent")]
  /\ tx = [s \in Sessions |-> [l |-> AtRest, w |-> NothingWritten]]
  /\ mix \in Mixes

(***************************************************************************)
(* Statements                                                              *)
(***************************************************************************)
SessionSees(s, row) == IF row \in DOMAIN tx[s].w THEN tx[s].w[row] ELSE db[row]
Present(v) == v.st # "absent"
Doing(s, op, pc) == tx[s].l.op = op /\ tx[s].l.pc = pc

\* A statement that only reads; the session goes on with the given locals.
Select(s, locals) == tx' = [tx EXCEPT ![s].l = locals] /\ UNCHANGED <<db, mix>>
Goes(s, pc) == [tx[s].l EXCEPT !.pc = pc]

\* One that writes a value to rows; an UPDATE or DELETE finds those that are there.
WithRows(w, hit, v) == [row \in DOMAIN w \cup hit |-> IF row \in hit THEN v ELSE w[row]]
WriteRows(s, hit, v, locals) ==
  /\ tx' = [tx EXCEPT ![s] = [l |-> locals, w |-> WithRows(tx[s].w, hit, v)]]
  /\ UNCHANGED <<db, mix>>

Modify(s, rows, v, locals) == WriteRows(s, {row \in rows : Present(SessionSees(s, row))}, v, locals)

\* The request raises: the connection's context rolls back.
Rollback(s) ==
  /\ tx' = [tx EXCEPT ![s] = [l |-> AtRest, w |-> NothingWritten]]
  /\ UNCHANGED <<db, mix>>

\* An INSERT of a row that is there already raises.
Insert(s, row, v, locals) ==
  IF Present(SessionSees(s, row)) THEN Rollback(s)
  ELSE WriteRows(s, {row}, v, locals)

Commit(s) ==
  /\ tx[s].l.pc = Committing
  /\ db' = [row \in Rows |-> SessionSees(s, row)]
  /\ tx' = [tx EXCEPT ![s] = [l |-> AtRest, w |-> NothingWritten]]
  /\ UNCHANGED mix

InflightFor(s) == {i \in 1..NRuns : SessionSees(s, RunRow(i)).st = "pending"}

(***************************************************************************)
(* Runs.put with prevent_insert_if_inflight (strategy "reject") and        *)
(* if_not_exists "create"                                                  *)
(***************************************************************************)
LookForAssistant(s) ==
  /\ Doing(s, "Runs.put", 1)
  /\ IF Present(SessionSees(s, AsstRow)) THEN Select(s, Goes(s, 2)) ELSE Rollback(s)

LookForThread(s) ==
  /\ Doing(s, "Runs.put", 2)
  /\ Select(s, [Goes(s, 3) EXCEPT !.flag = Present(SessionSees(s, ThreadRow))])

\* UPDATE of the thread that was found, which serialises the requests for it, or INSERT.
MakeBusy(s) ==
  /\ Doing(s, "Runs.put", 3)
  /\ IF tx[s].l.flag THEN Modify(s, {ThreadRow}, Is("busy"), Goes(s, 4))
     ELSE Insert(s, ThreadRow, Is("busy"), Goes(s, 4))

\* A request that finds runs in flight is answered with 409.
CheckInflight(s) ==
  /\ Doing(s, "Runs.put", 4)
  /\ IF InflightFor(s) # {} THEN Rollback(s) ELSE Select(s, Goes(s, 5))

InsertRun(s) ==
  /\ Doing(s, "Runs.put", 5)
  /\ IF \A row \in {ThreadRow, AsstRow} : Present(SessionSees(s, row))
     THEN Insert(s, RunRow(tx[s].l.n), Is("pending"), Goes(s, Committing))
     ELSE Rollback(s)

(***************************************************************************)
(* Runs.cancel: of a run of the thread, by status, or of an assistant that *)
(* is being deleted.  flag says that the action is "rollback".             *)
(***************************************************************************)
Cancelling(s, pc) == tx[s].l.op \in {"Runs.cancel", "Assistants.delete"} /\ tx[s].l.pc = pc
AfterCancel(s) == IF tx[s].l.op = "Runs.cancel" THEN Committing ELSE 4

CancelSelect(s) ==
  /\ Cancelling(s, 1)
  /\ LET byId == {i \in 1..NRuns : i = tx[s].l.n /\ Present(SessionSees(s, RunRow(i)))}
         found == IF tx[s].l.n > 0 THEN byId ELSE InflightFor(s) IN
       IF tx[s].l.op = "Assistants.delete" /\ ~Present(SessionSees(s, AsstRow)) THEN Rollback(s)
       ELSE IF found = {} /\ tx[s].l.op = "Runs.cancel" THEN Rollback(s)
       ELSE LET todo == found \cap InflightFor(s) IN
              Select(s, [Goes(s, IF todo = {} THEN AfterCancel(s) ELSE 2) EXCEPT !.todo = todo])

Current(s) == CHOOSE i \in tx[s].l.todo : \A j \in tx[s].l.todo : i <= j

CountOthers(s) ==
  /\ Cancelling(s, 2)
  /\ IF InflightFor(s) \subseteq {Current(s)}
     THEN Modify(s, {ThreadRow}, Is("idle"), Goes(s, 3))
     ELSE Select(s, Goes(s, 3))

Interrupt(s) ==
  /\ Cancelling(s, 3)
  /\ LET rest == tx[s].l.todo \ {Current(s)} IN
       Modify(s, {RunRow(Current(s))}, IF tx[s].l.flag THEN Gone ELSE Is("interrupted"),
              [Goes(s, IF rest = {} THEN AfterCancel(s) ELSE 2) EXCEPT !.todo = rest])

\* Runs.delete: 404 unless the run is there.
DeleteRunRow(s) ==
  \/ /\ Doing(s, "Runs.delete", 1)
     /\ IF Present(SessionSees(s, RunRow(tx[s].l.n))) THEN Select(s, Goes(s, 2)) ELSE Rollback(s)
  \/ /\ Doing(s, "Runs.delete", 2)
     /\ Modify(s, {RunRow(tx[s].l.n)}, Gone, Goes(s, Committing))

(***************************************************************************)
(* Threads.put; Threads.delete: the runs first, then the thread, with it   *)
(* the runs that were committed in between; State.post                     *)
(***************************************************************************)
PutThreadRow(s) ==
  \/ /\ Doing(s, "Threads.put", 1)
     /\ IF ~Present(SessionSees(s, ThreadRow)) THEN Select(s, Goes(s, 2))
        ELSE IF tx[s].l.flag THEN Select(s, Goes(s, Committing)) ELSE Rollback(s)
  \/ Doing(s, "Threads.put", 2) /\ Insert(s, ThreadRow, Is("idle"), Goes(s, Committing))

DeleteThreadRow(s) ==
  \/ /\ Doing(s, "Threads.delete", 1)
     /\ IF Present(SessionSees(s, ThreadRow)) THEN Select(s, Goes(s, 2)) ELSE Rollback(s)
  \/ /\ Doing(s, "Threads.delete", 2)
     /\ Modify(s, {row \in RunRows : Present(db[row])}, Gone, Goes(s, 3))
  \/ /\ Doing(s, "Threads.delete", 3)
     /\ Modify(s, {ThreadRow} \cup {row \in RunRows : Present(db[row])}, Gone, Goes(s, Committing))

\* The state is only written when the thread has no runs in flight; the graph then
\* writes a checkpoint, and set_status counts the runs again.
PostState(s) ==
  \/ /\ Doing(s, "State.post", 1)
     /\ IF Present(SessionSees(s, ThreadRow)) /\ InflightFor(s) = {} THEN Select(s, Goes(s, 2)) ELSE Rollback(s)
  \/ /\ Doing(s, "State.post", 2)
     /\ Select(s, [Goes(s, 3) EXCEPT !.flag = InflightFor(s) # {}])
  \/ /\ Doing(s, "State.post", 3)
     /\ Modify(s, {ThreadRow}, Is(IF tx[s].l.flag THEN "busy" ELSE "idle"),
               Goes(s, Committing))

(***************************************************************************)
(* Assistants.put, patch, set_latest and delete                            *)
(***************************************************************************)
VersionsIn(s) == {n \in 1..NVersions : Present(SessionSees(s, VersionRow(n)))}

\* MAX(version), or 0, and one more.
NewNumber(s) ==
  CHOOSE n \in 1..NVersions + 1 : /\ \A m \in VersionsIn(s) : m < n
                                  /\ n = 1 \/ n - 1 \in VersionsIn(s)

PgPutAssistant(s) ==
  \/ /\ Doing(s, "Assistants.put", 1)
     /\ IF ~Present(SessionSees(s, AsstRow)) THEN Select(s, Goes(s, 2))
        ELSE IF tx[s].l.flag THEN Select(s, Goes(s, Committing)) ELSE Rollback(s)
  \/ Doing(s, "Assistants.put", 2) /\ Insert(s, AsstRow, Content(1, tx[s].l.config), Goes(s, 3))
  \/ Doing(s, "Assistants.put", 3) /\ Insert(s, VersionRow(1), Content(1, tx[s].l.config), Goes(s, Committing))

SelectMax(s) ==
  /\ Doing(s, "Assistants.patch", 1)
  /\ IF Present(SessionSees(s, AsstRow)) /\ NewNumber(s) <= NVersions
     THEN Select(s, [Goes(s, 2) EXCEPT !.n = NewNumber(s)]) ELSE Rollback(s)

\* Mutant of InsertVersion: a number that is taken is passed over silently.
InsertVersionQuietly(s) ==
  /\ Doing(s, "Assistants.patch", 2)
  /\ IF Present(db[VersionRow(tx[s].l.n)]) THEN Select(s, Goes(s, 3))
     ELSE Insert(s, VersionRow(tx[s].l.n), Content(tx[s].l.n, tx[s].l.config), Goes(s, 3))

\* The number is part of the primary key: whoever comes second gets an error.
InsertVersion(s) ==
  /\ Doing(s, "Assistants.patch", 2)
  /\ IF Present(SessionSees(s, AsstRow))
     THEN Insert(s, VersionRow(tx[s].l.n), Content(tx[s].l.n, tx[s].l.config), Goes(s, 3))
     ELSE Rollback(s)

SelectVersion(s) ==
  /\ Doing(s, "Assistants.set_latest", 1)
  /\ IF Present(SessionSees(s, AsstRow)) /\ tx[s].l.n \in VersionsIn(s)
     THEN Select(s, [Goes(s, 3) EXCEPT !.config = SessionSees(s, VersionRow(tx[s].l.n)).config])
     ELSE Rollback(s)

UpdateAssistant(s) ==
  /\ tx[s].l.op \in {"Assistants.patch", "Assistants.set_latest"} /\ tx[s].l.pc = 3
  /\ Modify(s, {AsstRow}, Content(tx[s].l.n, tx[s].l.config), Goes(s, Committing))

\* After its runs are cancelled; the runs and the late versions go with the assistant.
DeleteAssistantRow(s) ==
  \/ /\ Doing(s, "Assistants.delete", 4)
     /\ Modify(s, {row \in VersionRows : Present(db[row])}, Gone, Goes(s, 5))
  \/ /\ Doing(s, "Assistants.delete", 5)
     /\ Modify(s, {AsstRow} \cup {row \in VersionRows \cup RunRows : Present(db[row])}, Gone,
               Goes(s, Committing))

(***************************************************************************)
(* Requests come in and, in the database, block each other                 *)
(***************************************************************************)
BeginRequest(s) ==
  /\ tx[s].l.op = "none"
  /\ \E op \in mix, n \in 0..IF NRuns > NVersions THEN NRuns ELSE NVersions, c \in PgConfigs, flag \in BOOLEAN :
       /\ op \in {"Runs.put", "Runs.delete"} => n \in 1..NRuns
       /\ op = "Runs.cancel" => n \in 0..NRuns
       /\ op = "Assistants.set_latest" => n \in 1..NVersions
       /\ op \notin {"Runs.put", "Runs.delete", "Runs.cancel", "Assistants.set_latest"} => n = 0
       /\ op \notin {"Assistants.put", "Assistants.patch"} => c = AnyConfig
       /\ op \notin {"Runs.cancel", "Threads.put", "Assistants.put"} => ~flag
       /\ Select(s, [AtRest EXCEPT !.op = op, !.pc = 1, !.n = n, !.config = c, !.flag = flag])

\* The rows that the next statement of a session writes: it waits while another
\* transaction has written one of them.
CommittedRuns == {row \in RunRows : Present(db[row])}
CommittedVersions == {row \in VersionRows : Present(db[row])}
Writes(s) ==
  LET l == tx[s].l IN
    CASE l.op = "Runs.put" /\ l.pc = 3 -> {ThreadRow}
      [] l.op = "Runs.put" /\ l.pc = 5 -> {RunRow(l.n)}
      [] Cancelling(s, 2) -> IF InflightFor(s) \subseteq {Current(s)} THEN {ThreadRow} ELSE {}
      [] Cancelling(s, 3) -> {RunRow(Current(s))}
      [] l.op = "Runs.delete" /\ l.pc = 2 -> {RunRow(l.n)}
      [] l.op = "Threads.put" /\ l.pc = 2 -> {ThreadRow}
      [] l.op = "Threads.delete" /\ l.pc = 2 -> CommittedRuns
      [] l.op = "Threads.delete" /\ l.pc = 3 -> {ThreadRow} \cup CommittedRuns
      [] l.op = "State.post" /\ l.pc = 3 -> {ThreadRow}
      [] l.op = "Assistants.put" /\ l.pc = 2 -> {AsstRow}
      [] l.op = "Assistants.put" /\ l.pc = 3 -> {VersionRow(1)}
      [] l.op = "Assistants.patch" /\ l.pc = 2 -> {VersionRow(l.n)}
      [] l.op \in {"Assistants.patch", "Assistants.set_latest"} /\ l.pc = 3 -> {AsstRow}
      [] l.op = "Assistants.delete" /\ l.pc = 4 -> CommittedVersions
      [] l.op = "Assistants.delete" /\ l.pc = 5 -> {AsstRow} \cup CommittedVersions \cup CommittedRuns
      [] OTHER -> {}

\* The rows that a row's foreign keys name are locked against deletion while the row is
\* inserted.
Parents(row) == CASE row \in RunRows -> {ThreadRow, AsstRow} [] row \in VersionRows -> {AsstRow} [] OTHER -> {}
Deletes(s) == IF Doing(s, "Threads.delete", 3) \/ Doing(s, "Assistants.delete", 5)
              THEN {ThreadRow, AsstRow} \cap Writes(s) ELSE {}
Inserts(s) == IF Doing(s, "Runs.put", 5) \/ Doing(s, "Assistants.patch", 2) THEN Writes(s) ELSE {}
Blockers(s) ==
  {o \in Sessions \ {s} : \E row \in DOMAIN tx[o].w :
     \/ row \in Writes(s)
     \/ Present(tx[o].w[row]) /\ ~Present(db[row]) /\ Parents(row) \cap Deletes(s) # {}
     \/ ~Present(tx[o].w[row]) /\ Present(db[row]) /\ \E new \in Inserts(s) : row \in Parents(new)}

\* One statement of the request that the session serves.
Statement(s) ==
  /\ Blockers(s) = {}
  /\ \/ LookForAssistant(s) \/ LookForThread(s) \/ MakeBusy(s) \/ CheckInflight(s) \/ InsertRun(s)
     \/ CancelSelect(s) \/ CountOthers(s) \/ Interrupt(s) \/ DeleteRunRow(s)
     \/ PutThreadRow(s) \/ DeleteThreadRow(s) \/ PostState(s)
     \/ PgPutAssistant(s) \/ SelectMax(s) \/ InsertVersion(s) \/ SelectVersion(s) \/ UpdateAssistant(s)
     \/ DeleteAssistantRow(s) \/ Commit(s)

\* Transactions that wait for each other in a circle: the database ends one of them.
BreakDeadlock(s) ==
  /\ \E D \in SUBSET Sessions : s \in D /\ \A d \in D : /\ Blockers(d) \cap D # {}
                                                     /\ \E o \in D : d \in Blockers(o)
  /\ Rollback(s)

PgStoreNext == \E s \in Sessions : BeginRequest(s) \/ Statement(s) \/ BreakDeadlock(s)

PgStoreSpec == PgStoreInit /\ [][PgStoreNext]_pgVars

\* The database serves every session and finds deadlocks.
PgStoreFairSpec ==
  PgStoreSpec /\ \A s \in Sessions : SF_pgVars(Statement(s)) /\ WF_pgVars(BreakDeadlock(s))

(***************************************************************************)
(* Properties                                                              *)
(***************************************************************************)
\* Requests with the strategy "reject" never leave two runs in flight on a thread that
\* is not deleted, although Runs.put looks for them and inserts in separate statements:
\* the update of the thread in front of them serialises the requests.
RejectKeepsOneInflight ==
  mix \cap {"Threads.delete"} = {} =>
    Cardinality({i \in 1..NRuns : db[RunRow(i)].st = "pending"}) <= 1

\* The committed assistant has the content of the version it names, however patches,
\* returns to older versions and deletions overlap, unless it is deleted and created
\* anew under the same id.
PgVersionsConsistent ==
  LET a == db[AsstRow] IN
    ~({"Assistants.put", "Assistants.delete"} \subseteq mix) =>
    /\ Present(a) => /\ Present(db[VersionRow(a.version)])
                     /\ db[VersionRow(a.version)].config = a.config
    /\ ~Present(a) => \A row \in VersionRows : ~Present(db[row])

\* Every request ends, although operations lock thread and runs in different orders.
PgRequestsEnd == \A s \in Sessions : tx[s].l.op # "none" ~> tx[s].l.op = "none"
=============================================================================
