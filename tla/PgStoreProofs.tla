--------------------------- MODULE PgStoreProofs ---------------------------
(***************************************************************************)
(* What MCServices promises of the Postgres operations whose transactions  *)
(* meet in the database, for all mixes of operations, connections, runs,   *)
(* versions and contents.  The inductive invariant says what a             *)
(* transaction in progress has written and locked, and what it has read    *)
(* that is still so when it commits.  At the end, with the invariants of   *)
(* ServicesProofs, the types of all the parts of MCServices.               *)
(***************************************************************************)
EXTENDS ServicesProofs, WellFoundedInduction

\* No two transactions have written the same row.
Locks == \A s, o \in Sessions : s # o => DOMAIN tx[s].w \cap DOMAIN tx[o].w = {}

\* A session's locals, and what it has written.
LocalOK(l) ==
  /\ l \in Local
  /\ l.op \in mix \cup {"none"}
  /\ l.op \in {"Runs.put", "Runs.delete"} => l.n \in 1..NRuns
  /\ l.op = "Assistants.set_latest" => l.n \in 1..NVersions
  /\ l.op = "Assistants.patch" /\ l.pc \in {2, 3, Committing} => l.n \in 1..NVersions
  /\ l.op \in {"Runs.cancel", "Assistants.delete"} /\ l.pc \in {2, 3} => l.todo # {}

WrittenOK(l, f) ==
  /\ f \in [DOMAIN f -> Value] /\ DOMAIN f \subseteq Rows
  /\ l.op = "none" => DOMAIN f = {}

SessionsOK ==
  \A s \in Sessions : /\ LocalOK(tx[s].l) /\ WrittenOK(tx[s].l, tx[s].w)
                      /\ tx[s] = [l |-> tx[s].l, w |-> tx[s].w]

(***************************************************************************)
(* One run in flight                                                       *)
(***************************************************************************)
ThreadStays == "Threads.delete" \notin mix

\* Runs.put holds the thread's row from its update on; after it has looked for runs in
\* flight there are none but its own.
RunsOK(l, f) ==
  /\ ThreadRow \in DOMAIN f => Present(f[ThreadRow])
  /\ \A i \in 1..NRuns : RunRow(i) \in DOMAIN f /\ f[RunRow(i)].st = "pending" =>
       l.op = "Runs.put" /\ l.pc = Committing /\ i = l.n
  /\ l.op = "Runs.put" =>
       /\ l.pc = 3 => l.flag
       /\ l.pc \in {1, 2, 3, 4, 5} => DOMAIN f \subseteq {ThreadRow}
       /\ l.pc \in {4, 5, Committing} => ThreadRow \in DOMAIN f
       /\ l.pc \in {5, Committing} => \A i \in 1..NRuns : db[RunRow(i)].st # "pending"

InflightInv ==
  ThreadStays =>
    /\ Present(db[ThreadRow])
    /\ \A i, j \in 1..NRuns : db[RunRow(i)].st = "pending" /\ db[RunRow(j)].st = "pending" => i = j
    /\ \A s \in Sessions : RunsOK(tx[s].l, tx[s].w)

(***************************************************************************)
(* The assistant and its versions                                          *)
(***************************************************************************)
AssistantStays == ~({"Assistants.put", "Assistants.delete"} \subseteq mix)
AssistantRows == {AsstRow} \cup VersionRows
VersionOps == {"Assistants.put", "Assistants.patch", "Assistants.set_latest", "Assistants.delete"}

\* A patch inserts the version that it numbered, which is not committed, and updates the
\* assistant to it last.
PatchOK(l, f) ==
  /\ l.pc \in {1, 2} => DOMAIN f = {}
  /\ l.pc \in {3, Committing} =>
       /\ VersionRow(l.n) \in DOMAIN f /\ DOMAIN f \subseteq {VersionRow(l.n), AsstRow}
       /\ f[VersionRow(l.n)] = Content(l.n, l.config)
       /\ ~ Present(db[VersionRow(l.n)]) /\ Present(db[AsstRow])
  /\ AsstRow \in DOMAIN f => l.pc = Committing /\ f[AsstRow] = Content(l.n, l.config)

\* A return to an older version writes what it has read of it, and the version stays.
ReturnOK(l, f) ==
  /\ DOMAIN f \subseteq {AsstRow}
  /\ l.pc \in {3, Committing} /\ Present(db[AsstRow]) =>
       Present(db[VersionRow(l.n)]) /\ db[VersionRow(l.n)].config = l.config
  /\ AsstRow \in DOMAIN f => /\ l.pc = Committing /\ f[AsstRow] = Content(l.n, l.config)
                             /\ Present(db[AsstRow])

\* A deletion takes the assistant's row last, and all that is committed with it.
DeleteOK(l, f) ==
  /\ \A row \in VersionRows \cap DOMAIN f : ~ Present(f[row])
  /\ AsstRow \in DOMAIN f => l.pc = Committing /\ ~ Present(f[AsstRow]) /\ Present(db[AsstRow])
  /\ l.pc = Committing => \A row \in AssistantRows : Present(db[row]) => row \in DOMAIN f

\* What a session has written of the assistant, by its operation.
VersionsOK(l, f) ==
  /\ l.op \notin VersionOps => DOMAIN f \cap AssistantRows = {}
  /\ l.op = "Assistants.put" => DOMAIN f = {} /\ l.pc \notin {2, 3}
  /\ l.op = "Assistants.patch" => PatchOK(l, f)
  /\ l.op = "Assistants.set_latest" => ReturnOK(l, f)
  /\ l.op = "Assistants.delete" => DeleteOK(l, f)

\* No version is on its way while the assistant is being deleted with all there are.
Fence ==
  \A d, o \in Sessions :
    ~ (Doing(d, "Assistants.delete", Committing) /\ (Doing(o, "Assistants.patch", 3) \/ Doing(o, "Assistants.patch", Committing)))

VersionInv ==
  AssistantStays =>
    /\ PgVersionsConsistent
    /\ "Assistants.delete" \notin mix => Present(db[AsstRow])
    /\ Present(db[AsstRow]) => db[AsstRow].version \in 1..NVersions
    /\ \A s \in Sessions : VersionsOK(tx[s].l, tx[s].w)
    /\ Fence

PgInv ==
  /\ PgStoreTypeOK /\ Locks
  /\ SessionsOK
  /\ InflightInv
  /\ VersionInv

(***************************************************************************)
(* Steps                                                                   *)
(***************************************************************************)
\* A step of one session that leaves the database alone: its locals, what it has
\* written.
Moved(s, l, f) == tx' = [tx EXCEPT ![s] = [l |-> l, w |-> f]] /\ UNCHANGED <<db, mix>>

\* A session that moves.
LEMMA MoveKeeps ==
  ASSUME PgInv, NEW s \in Sessions, NEW l, NEW f, Moved(s, l, f),
         LocalOK(l), WrittenOK(l, f), ThreadStays => RunsOK(l, f), AssistantStays => VersionsOK(l, f),
         \A o \in Sessions \ {s} : DOMAIN f \cap DOMAIN tx[o].w = {},
         AssistantStays => \A o \in Sessions \ {s} :
            /\ l.op = "Assistants.delete" /\ l.pc = Committing =>
                 ~ Doing(o, "Assistants.patch", 3) /\ ~ Doing(o, "Assistants.patch", Committing)
            /\ l.op = "Assistants.patch" /\ l.pc \in {3, Committing} =>
                 ~ Doing(o, "Assistants.delete", Committing)
  PROVE  PgInv'
<1>1. DOMAIN tx = Sessions /\ DOMAIN tx' = Sessions /\ tx'[s] = [l |-> l, w |-> f]
      /\ \A o \in Sessions \ {s} : tx'[o] = tx[o]
  BY DEF PgInv, PgStoreTypeOK, Moved
<1>2. tx'[s].l = l /\ tx'[s].w = f /\ db' = db /\ mix' = mix
  BY <1>1 DEF Moved
<1>3. PgStoreTypeOK'
  BY <1>1, <1>2 DEF PgInv, PgStoreTypeOK, LocalOK, WrittenOK
<1>4. Locks'
  BY <1>1, <1>2 DEF PgInv, Locks
<1>5. SessionsOK'
  BY <1>1, <1>2 DEF PgInv, SessionsOK, LocalOK, WrittenOK
<1>6. InflightInv'
  <2> SUFFICES ASSUME ThreadStays PROVE InflightInv'
    BY <1>2 DEF InflightInv, ThreadStays
  <2>1. \A o \in Sessions : RunsOK(tx'[o].l, tx'[o].w)
    BY <1>1, <1>2 DEF PgInv, InflightInv
  <2>2. (\A o \in Sessions : RunsOK(tx[o].l, tx[o].w))'
    BY <1>2, <2>1 DEF RunsOK
  <2> QED BY <1>2, <2>2 DEF PgInv, InflightInv
<1>7. VersionInv'
  <2> SUFFICES ASSUME AssistantStays PROVE VersionInv'
    BY <1>2 DEF VersionInv, AssistantStays
  <2>1. \A o \in Sessions : VersionsOK(tx'[o].l, tx'[o].w)
    BY <1>1, <1>2 DEF PgInv, VersionInv
  <2>2. (\A o \in Sessions : VersionsOK(tx[o].l, tx[o].w))'
    BY <1>2, <2>1 DEF VersionsOK, PatchOK, ReturnOK, DeleteOK
  <2>3. /\ PgVersionsConsistent' /\ ("Assistants.delete" \notin mix' => Present(db'[AsstRow]))
        /\ Present(db'[AsstRow]) => db'[AsstRow].version \in 1..NVersions
    BY <1>2 DEF PgInv, VersionInv, PgVersionsConsistent
  <2>4. Fence'
    BY <1>1, <1>2 DEF PgInv, VersionInv, Fence, Doing
  <2> QED BY <2>2, <2>3, <2>4 DEF VersionInv
<1> QED BY <1>3, <1>4, <1>5, <1>6, <1>7 DEF PgInv

\* A set of numbers has a least one.
LEMMA LeastNumber ==
  ASSUME NEW S, S \subseteq Nat, S # {}
  PROVE  \E i \in S : \A j \in S : i <= j
<1> DEFINE Less == {p \in Nat \X Nat : p[1] < p[2]}
<1>1. IsWellFoundedOn(Less, Nat)
  BY NatLessThanWellFounded DEF OpToRel
<1>2. PICK i \in S : \A j \in S : <<j, i>> \notin Less
  BY <1>1, WFMin
<1>3. \A j \in S : ~ (j < i)
  BY <1>2
<1> QED BY <1>3

\* The rows of the database are different rows.
LEMMA RowsApart ==
  /\ ThreadRow # AsstRow
  /\ \A i : /\ RunRow(i) # ThreadRow /\ RunRow(i) # AsstRow
            /\ VersionRow(i) # ThreadRow /\ VersionRow(i) # AsstRow
  /\ \A i, j : /\ RunRow(i) # VersionRow(j)
               /\ (RunRow(i) = RunRow(j) => i = j) /\ (VersionRow(i) = VersionRow(j) => i = j)
BY DEF ThreadRow, AsstRow, RunRow, VersionRow

\* What the model's values are.
LEMMA ValuesAre ==
  /\ AnyConfig \in PgConfigs
  /\ \A st \in {"absent", "idle", "busy", "pending", "interrupted", "live"} :
       Is(st) \in Value /\ Is(st).st = st /\ (Present(Is(st)) <=> st # "absent")
  /\ \A n \in 0..NVersions, c \in PgConfigs :
       /\ Content(n, c) \in Value /\ Present(Content(n, c)) /\ Content(n, c).st = "live"
       /\ Content(n, c).version = n /\ Content(n, c).config = c
  /\ Gone = Is("absent")
<1>1. AnyConfig \in PgConfigs
  BY PgStoreAssumption DEF AnyConfig
<1>2. 0 \in 0..NVersions
  BY PgStoreAssumption
<1> HIDE DEF AnyConfig
<1>3. \A st \in {"absent", "idle", "busy", "pending", "interrupted", "live"} :
        Is(st) \in Value /\ Is(st).st = st /\ (Present(Is(st)) <=> st # "absent")
  BY <1>1, <1>2 DEF Is, Value, Present
<1>4. \A n \in 0..NVersions, c \in PgConfigs :
        /\ Content(n, c) \in Value /\ Present(Content(n, c)) /\ Content(n, c).st = "live"
        /\ Content(n, c).version = n /\ Content(n, c).config = c
  BY DEF Content, Value, Present
<1> QED BY <1>1, <1>3, <1>4 DEF Gone

\* What a session is and may become.
LEMMA SessionHas ==
  ASSUME PgInv, NEW s \in Sessions
  PROVE  /\ tx[s].l \in Local /\ LocalOK(tx[s].l) /\ WrittenOK(tx[s].l, tx[s].w)
         /\ DOMAIN tx = Sessions /\ tx[s] = [l |-> tx[s].l, w |-> tx[s].w]
         /\ ThreadStays => RunsOK(tx[s].l, tx[s].w)
         /\ AssistantStays => VersionsOK(tx[s].l, tx[s].w)
         /\ \A pc \in 0..Committing :
              /\ Goes(s, pc) \in Local /\ Goes(s, pc).pc = pc /\ Goes(s, pc).op = tx[s].l.op
              /\ Goes(s, pc).n = tx[s].l.n /\ Goes(s, pc).config = tx[s].l.config
              /\ Goes(s, pc).flag = tx[s].l.flag /\ Goes(s, pc).todo = tx[s].l.todo
<1>1. tx[s].l \in Local /\ LocalOK(tx[s].l) /\ WrittenOK(tx[s].l, tx[s].w)
  BY DEF PgInv, SessionsOK, LocalOK
<1>2. DOMAIN tx = Sessions /\ tx[s] = [l |-> tx[s].l, w |-> tx[s].w]
  BY DEF PgInv, SessionsOK, PgStoreTypeOK
<1>3. ASSUME NEW pc \in 0..Committing
      PROVE  /\ Goes(s, pc) \in Local /\ Goes(s, pc).pc = pc /\ Goes(s, pc).op = tx[s].l.op
             /\ Goes(s, pc).n = tx[s].l.n /\ Goes(s, pc).config = tx[s].l.config
             /\ Goes(s, pc).flag = tx[s].l.flag /\ Goes(s, pc).todo = tx[s].l.todo
  BY <1>1, <1>3 DEF Goes, Local
<1> QED BY <1>1, <1>2, <1>3 DEF PgInv, InflightInv, VersionInv

\* A request that raises.
LEMMA RollbackKeeps ==
  ASSUME PgInv, NEW s \in Sessions, Rollback(s)
  PROVE  PgInv'
<1>1. Moved(s, AtRest, NothingWritten) /\ DOMAIN NothingWritten = {}
  BY DEF Rollback, Moved, NothingWritten
<1>2. AtRest \in Local /\ AtRest.op = "none"
  <2>1. 0 \in 0..Committing /\ 0 \in 0..NRuns + NVersions /\ {} \in SUBSET (1..NRuns)
    BY PgStoreAssumption DEF Committing
  <2> QED BY <2>1, ValuesAre DEF AtRest, Local
<1>3. LocalOK(AtRest) /\ WrittenOK(AtRest, NothingWritten)
  BY <1>1, <1>2 DEF LocalOK, WrittenOK, NothingWritten
<1>4. RunsOK(AtRest, NothingWritten)
  BY <1>1, <1>2 DEF RunsOK
<1>5. VersionsOK(AtRest, NothingWritten)
  BY <1>1, <1>2 DEF VersionsOK
<1> HIDE DEF AtRest, NothingWritten
<1> QED BY <1>1, <1>2, <1>3, <1>4, <1>5, MoveKeeps

\* A statement that only reads.
LEMMA SelectKeeps ==
  ASSUME PgInv, NEW s \in Sessions, NEW l, Select(s, l), LocalOK(l), l.op # "none",
         ThreadStays => RunsOK(l, tx[s].w), AssistantStays => VersionsOK(l, tx[s].w),
         l.op = "Assistants.delete" => l.pc # Committing,
         l.op = "Assistants.patch" => l.pc \notin {3, Committing}
  PROVE  PgInv'
<1> DEFINE f == tx[s].w
<1>1. Moved(s, l, f)
  <2>1. [tx[s] EXCEPT !.l = l] = [l |-> l, w |-> f]
    <3>1. PICK old : old = tx[s].l
      OBVIOUS
    <3>2. tx[s] = [l |-> old, w |-> f]
      BY <3>1, SessionHas
    <3> HIDE DEF f
    <3> QED BY <3>2
  <2>2. tx' = [tx EXCEPT ![s] = [tx[s] EXCEPT !.l = l]] /\ UNCHANGED <<db, mix>>
    BY DEF Select
  <2> QED BY <2>1, <2>2 DEF Moved
<1>2. WrittenOK(l, f)
  BY SessionHas DEF WrittenOK
<1>3. \A o \in Sessions \ {s} : DOMAIN f \cap DOMAIN tx[o].w = {}
  BY DEF PgInv, Locks
<1> HIDE DEF f
<1> QED BY <1>1, <1>2, <1>3, MoveKeeps DEF f

\* A statement that writes: its rows are not locked by another transaction.
LEMMA WriteKeeps ==
  ASSUME PgInv, NEW s \in Sessions, NEW l, NEW hit, NEW v \in Value, WriteRows(s, hit, v, l),
         Blockers(s) = {}, hit \subseteq Writes(s), hit \subseteq Rows, LocalOK(l), l.op # "none",
         ThreadStays => RunsOK(l, WithRows(tx[s].w, hit, v)),
         AssistantStays => VersionsOK(l, WithRows(tx[s].w, hit, v)),
         AssistantStays => \A o \in Sessions \ {s} :
            /\ l.op = "Assistants.delete" /\ l.pc = Committing =>
                 ~ Doing(o, "Assistants.patch", 3) /\ ~ Doing(o, "Assistants.patch", Committing)
            /\ l.op = "Assistants.patch" /\ l.pc \in {3, Committing} =>
                 ~ Doing(o, "Assistants.delete", Committing)
  PROVE  PgInv'
<1> DEFINE f == WithRows(tx[s].w, hit, v)
<1>1. Moved(s, l, f)
  BY DEF WriteRows, Moved
<1>2. WrittenOK(l, f) /\ DOMAIN f = DOMAIN tx[s].w \cup hit
  <2>1. tx[s].w \in [DOMAIN tx[s].w -> Value] /\ DOMAIN tx[s].w \subseteq Rows
    BY SessionHas DEF WrittenOK
  <2> QED BY <2>1 DEF WrittenOK, WithRows
<1>3. ASSUME NEW o \in Sessions \ {s} PROVE DOMAIN f \cap DOMAIN tx[o].w = {}
  <2>1. DOMAIN tx[s].w \cap DOMAIN tx[o].w = {}
    BY DEF PgInv, Locks
  <2>2. \A row \in DOMAIN tx[o].w : row \notin Writes(s)
    BY DEF Blockers
  <2> QED BY <1>2, <2>1, <2>2
<1> HIDE DEF f
<1> QED BY <1>1, <1>2, <1>3, MoveKeeps DEF f

\* What is in the rows after a write.
LEMMA RowsAfter ==
  \A w, hit, v : /\ DOMAIN WithRows(w, hit, v) = DOMAIN w \cup hit
                 /\ \A row \in DOMAIN w \cup hit :
                      WithRows(w, hit, v)[row] = IF row \in hit THEN v ELSE w[row]
BY DEF WithRows

\* What another operation than Runs.put writes.
LEMMA OtherRuns ==
  ASSUME PgInv, NEW s \in Sessions, tx[s].l.op # "Runs.put", ThreadStays,
         NEW l, l.op = tx[s].l.op, NEW hit, NEW v, v.st # "pending", ThreadRow \in hit => Present(v)
  PROVE  RunsOK(l, tx[s].w) /\ RunsOK(l, WithRows(tx[s].w, hit, v))
<1> DEFINE f == WithRows(tx[s].w, hit, v)
<1>1. RunsOK(tx[s].l, tx[s].w)
  BY SessionHas
<1>2. DOMAIN f = DOMAIN tx[s].w \cup hit
      /\ \A row \in DOMAIN f : f[row] = IF row \in hit THEN v ELSE tx[s].w[row]
  BY DEF WithRows
<1> HIDE DEF f
<1>3. RunsOK(l, f)
  BY <1>1, <1>2 DEF RunsOK
<1> QED BY <1>1, <1>3 DEF RunsOK, f

\* What an operation writes that is not about assistants.
LEMMA OtherVersions ==
  ASSUME PgInv, NEW s \in Sessions, tx[s].l.op \notin VersionOps, AssistantStays,
         NEW l, l.op = tx[s].l.op, NEW hit, NEW v, hit \cap AssistantRows = {}
  PROVE  VersionsOK(l, tx[s].w) /\ VersionsOK(l, WithRows(tx[s].w, hit, v))
<1>1. VersionsOK(tx[s].l, tx[s].w)
  BY SessionHas
<1>2. DOMAIN tx[s].w \cap AssistantRows = {}
  BY <1>1 DEF VersionsOK
<1>3. DOMAIN WithRows(tx[s].w, hit, v) \cap AssistantRows = {}
  BY <1>2 DEF WithRows
<1> QED BY <1>2, <1>3 DEF VersionsOK, VersionOps

\* The rows of a thread and its runs are none of an assistant.
LEMMA ThreadSide ==
  /\ ThreadRow \in Rows /\ RunRows \subseteq Rows /\ AssistantRows \subseteq Rows
  /\ ThreadRow \notin AssistantRows /\ RunRows \cap AssistantRows = {}
  /\ \A i \in 1..NRuns : RunRow(i) \in RunRows
  /\ \A n \in 1..NVersions : VersionRow(n) \in VersionRows
  /\ AsstRow \in AssistantRows /\ VersionRows \subseteq AssistantRows /\ ThreadRow \notin RunRows
BY RowsApart DEF Rows, RunRows, VersionRows, AssistantRows

\* A read of an operation about threads or runs, other than Runs.put.
LEMMA OtherSelect ==
  ASSUME PgInv, NEW s \in Sessions, NEW l, Select(s, l), LocalOK(l), l.op = tx[s].l.op,
         l.op \notin {"none", "Runs.put"} \cup VersionOps
  PROVE  PgInv'
<1>1. ThreadStays => RunsOK(l, tx[s].w)
  BY ValuesAre, OtherRuns
<1>2. AssistantStays => VersionsOK(l, tx[s].w)
  <2>1. {} \cap AssistantRows = {}
    OBVIOUS
  <2> QED BY <2>1, OtherVersions
<1> QED BY <1>1, <1>2, SelectKeeps DEF VersionOps

\* A write of an operation about threads or runs, other than Runs.put.
LEMMA OtherWrite ==
  ASSUME PgInv, NEW s \in Sessions, NEW l, NEW hit, NEW v \in Value, WriteRows(s, hit, v, l),
         Blockers(s) = {}, hit \subseteq Writes(s), hit \subseteq {ThreadRow} \cup RunRows,
         LocalOK(l), l.op = tx[s].l.op, l.op \notin {"none", "Runs.put"} \cup VersionOps,
         v.st # "pending", ThreadStays /\ ThreadRow \in hit => Present(v)
  PROVE  PgInv'
<1>1. hit \subseteq Rows /\ hit \cap AssistantRows = {}
  BY ThreadSide
<1>2. ThreadStays => RunsOK(l, WithRows(tx[s].w, hit, v))
  BY OtherRuns
<1>3. AssistantStays => VersionsOK(l, WithRows(tx[s].w, hit, v))
  BY <1>1, OtherVersions
<1> QED BY <1>1, <1>2, <1>3, WriteKeeps DEF VersionOps

\* The least of the runs that are left.
LEMMA CurrentIs ==
  ASSUME PgInv, NEW s \in Sessions, tx[s].l.todo # {}
  PROVE  Current(s) \in tx[s].l.todo /\ Current(s) \in 1..NRuns
<1>1. tx[s].l.todo \subseteq 1..NRuns
  BY SessionHas DEF Local
<1>2. \E i \in tx[s].l.todo : \A j \in tx[s].l.todo : i <= j
  BY <1>1, LeastNumber
<1> QED BY <1>1, <1>2 DEF Current

\* One more than the greatest version.
LEMMA NewNumberIs ==
  ASSUME NEW s \in Sessions
  PROVE  /\ NewNumber(s) \in 1..NVersions + 1
         /\ \A m \in VersionsIn(s) : m < NewNumber(s)
<1> DEFINE U == {n \in 1..NVersions + 1 : \A m \in VersionsIn(s) : m < n}
<1>1. VersionsIn(s) \subseteq 1..NVersions /\ NVersions \in Nat
  BY PgStoreAssumption DEF VersionsIn
<1>2. NVersions + 1 \in U /\ U \subseteq Nat
  BY <1>1
<1> HIDE DEF U
<1>3. PICK n \in U : \A k \in U : n <= k
  BY <1>2, LeastNumber
<1>4. n \in 1..NVersions + 1 /\ \A m \in VersionsIn(s) : m < n
  BY <1>3 DEF U
<1>5. n = 1 \/ n - 1 \in VersionsIn(s)
  <2> SUFFICES ASSUME n # 1 PROVE n - 1 \in VersionsIn(s)
    OBVIOUS
  <2>1. n - 1 \in 1..NVersions + 1 /\ n - 1 \notin U
    BY <1>1, <1>3, <1>4
  <2>2. PICK m \in VersionsIn(s) : ~ (m < n - 1)
    BY <2>1 DEF U
  <2>3. m = n - 1
    BY <1>1, <1>4, <2>2
  <2> QED BY <2>2, <2>3
<1> QED BY <1>4, <1>5 DEF NewNumber

\* The rows that each statement writes.
LEMMA WritesAre ==
  ASSUME NEW s \in Sessions
  PROVE  LET l == tx[s].l
         IN  /\ Doing(s, "Runs.put", 3) => Writes(s) = {ThreadRow}
             /\ Doing(s, "Runs.put", 5) => Writes(s) = {RunRow(l.n)}
             /\ Cancelling(s, 2) => Writes(s) = IF InflightFor(s) \subseteq {Current(s)} THEN {ThreadRow} ELSE {}
             /\ Cancelling(s, 3) => Writes(s) = {RunRow(Current(s))}
             /\ Doing(s, "Runs.delete", 2) => Writes(s) = {RunRow(l.n)}
             /\ Doing(s, "Threads.put", 2) => Writes(s) = {ThreadRow}
             /\ Doing(s, "Threads.delete", 2) => Writes(s) = CommittedRuns
             /\ Doing(s, "Threads.delete", 3) => Writes(s) = {ThreadRow} \cup CommittedRuns
             /\ Doing(s, "State.post", 3) => Writes(s) = {ThreadRow}
             /\ Doing(s, "Assistants.put", 2) => Writes(s) = {AsstRow}
             /\ Doing(s, "Assistants.put", 3) => Writes(s) = {VersionRow(1)}
             /\ Doing(s, "Assistants.patch", 2) => Writes(s) = {VersionRow(l.n)}
             /\ Doing(s, "Assistants.patch", 3) \/ Doing(s, "Assistants.set_latest", 3) => Writes(s) = {AsstRow}
             /\ Doing(s, "Assistants.delete", 4) => Writes(s) = CommittedVersions
             /\ Doing(s, "Assistants.delete", 5) =>
                  Writes(s) = {AsstRow} \cup CommittedVersions \cup CommittedRuns
<1> DEFINE l == tx[s].l
<1>1. Doing(s, "Runs.put", 3) => Writes(s) = {ThreadRow}
  BY DEF Doing, Cancelling, Writes
<1>2. Doing(s, "Runs.put", 5) => Writes(s) = {RunRow(l.n)}
  BY DEF Doing, Cancelling, Writes
<1>3. Cancelling(s, 2) => Writes(s) = IF InflightFor(s) \subseteq {Current(s)} THEN {ThreadRow} ELSE {}
  BY DEF Doing, Cancelling, Writes
<1>4. Cancelling(s, 3) => Writes(s) = {RunRow(Current(s))}
  BY DEF Doing, Cancelling, Writes
<1>5. Doing(s, "Runs.delete", 2) => Writes(s) = {RunRow(l.n)}
  BY DEF Doing, Cancelling, Writes
<1>6. Doing(s, "Threads.put", 2) => Writes(s) = {ThreadRow}
  BY DEF Doing, Cancelling, Writes
<1>7. Doing(s, "Threads.delete", 2) => Writes(s) = CommittedRuns
  BY DEF Doing, Cancelling, Writes
<1>8. Doing(s, "Threads.delete", 3) => Writes(s) = {ThreadRow} \cup CommittedRuns
  BY DEF Doing, Cancelling, Writes
<1>9. Doing(s, "State.post", 3) => Writes(s) = {ThreadRow}
  BY DEF Doing, Cancelling, Writes
<1>10. Doing(s, "Assistants.put", 2) => Writes(s) = {AsstRow}
  BY DEF Doing, Cancelling, Writes
<1>11. Doing(s, "Assistants.put", 3) => Writes(s) = {VersionRow(1)}
  BY DEF Doing, Cancelling, Writes
<1>12. Doing(s, "Assistants.patch", 2) => Writes(s) = {VersionRow(l.n)}
  BY DEF Doing, Cancelling, Writes
<1>13. Doing(s, "Assistants.patch", 3) \/ Doing(s, "Assistants.set_latest", 3) => Writes(s) = {AsstRow}
  BY DEF Doing, Cancelling, Writes
<1>14. Doing(s, "Assistants.delete", 4) => Writes(s) = CommittedVersions
  BY DEF Doing, Cancelling, Writes
<1>15. Doing(s, "Assistants.delete", 5) => Writes(s) = {AsstRow} \cup CommittedVersions \cup CommittedRuns
  BY DEF Doing, Cancelling, Writes
<1> QED BY <1>1, <1>2, <1>3, <1>4, <1>5, <1>6, <1>7, <1>8, <1>9, <1>10, <1>11, <1>12, <1>13, <1>14, <1>15

(***************************************************************************)
(* Runs.put                                                                *)
(***************************************************************************)
\* What Runs.put is about to do keeps off the assistant.
LEMMA PutSide ==
  ASSUME PgInv, NEW s \in Sessions, tx[s].l.op = "Runs.put",
         NEW l, l.op = "Runs.put", NEW hit, NEW v, hit \subseteq {ThreadRow} \cup RunRows
  PROVE  AssistantStays => VersionsOK(l, tx[s].w) /\ VersionsOK(l, WithRows(tx[s].w, hit, v))
<1>1. hit \cap AssistantRows = {}
  BY ThreadSide
<1> QED BY <1>1, OtherVersions DEF VersionOps

\* The runs that Runs.put sees before it inserts its own are those of the database.
LEMMA PutSees ==
  ASSUME PgInv, NEW s \in Sessions, ThreadStays, tx[s].l.op = "Runs.put", tx[s].l.pc \in {1, 2, 3, 4, 5}
  PROVE  /\ DOMAIN tx[s].w \subseteq {ThreadRow}
         /\ Present(SessionSees(s, ThreadRow))
         /\ InflightFor(s) = {i \in 1..NRuns : db[RunRow(i)].st = "pending"}
<1>1. DOMAIN tx[s].w \subseteq {ThreadRow} /\ (ThreadRow \in DOMAIN tx[s].w => Present(tx[s].w[ThreadRow]))
  BY SessionHas DEF RunsOK
<1>2. Present(db[ThreadRow])
  BY DEF PgInv, InflightInv
<1>3. \A i \in 1..NRuns : SessionSees(s, RunRow(i)) = db[RunRow(i)]
  BY <1>1, RowsApart DEF SessionSees
<1> QED BY <1>1, <1>2, <1>3 DEF SessionSees, InflightFor

\* The locals of Runs.put at its next statement.
LEMMA PutGoes ==
  ASSUME PgInv, NEW s \in Sessions, tx[s].l.op = "Runs.put", NEW pc \in 0..Committing
  PROVE  LocalOK(Goes(s, pc))
BY SessionHas DEF LocalOK

\* What Runs.put may become before it has written anything.
LEMMA PutReads ==
  ASSUME PgInv, NEW s \in Sessions, ThreadStays, tx[s].l.op = "Runs.put", tx[s].l.pc \in {1, 2},
         NEW l, l.op = "Runs.put", l.pc \in {2, 3}, l.pc = 3 => l.flag
  PROVE  RunsOK(l, tx[s].w)
<1>1. DOMAIN tx[s].w \subseteq {ThreadRow} /\ RunsOK(tx[s].l, tx[s].w)
  BY PutSees, SessionHas
<1> QED BY <1>1, RowsApart DEF RunsOK, Committing

\* Statements 1 to 3.
LEMMA PutBegins ==
  ASSUME PgInv, NEW s \in Sessions, Blockers(s) = {},
         LookForAssistant(s) \/ LookForThread(s) \/ MakeBusy(s)
  PROVE  PgInv'
<1>1. CASE LookForAssistant(s) /\ ~ Rollback(s)
  <2>1. Select(s, Goes(s, 2)) /\ tx[s].l.op = "Runs.put" /\ tx[s].l.pc = 1
    BY <1>1 DEF LookForAssistant, Doing
  <2>2. Goes(s, 2).op = "Runs.put" /\ Goes(s, 2).pc = 2 /\ LocalOK(Goes(s, 2))
    <3>1. 2 \in 0..Committing
      BY DEF Committing
    <3> QED BY <2>1, <3>1, PutGoes, SessionHas
  <2>3. ThreadStays => RunsOK(Goes(s, 2), tx[s].w)
    BY <2>1, <2>2, PutReads
  <2>4. AssistantStays => VersionsOK(Goes(s, 2), tx[s].w)
    <3>1. {} \subseteq {ThreadRow} \cup RunRows
      OBVIOUS
    <3> QED BY <2>1, <2>2, <3>1, PutSide
  <2> QED BY <2>1, <2>2, <2>3, <2>4, SelectKeeps
<1>2. CASE LookForThread(s)
  <2> DEFINE flag == Present(SessionSees(s, ThreadRow))
             l == [Goes(s, 3) EXCEPT !.flag = flag]
  <2>1. Select(s, l) /\ tx[s].l.op = "Runs.put" /\ tx[s].l.pc = 2
    BY <1>2 DEF LookForThread, Doing
  <2>2. 3 \in 0..Committing /\ flag \in BOOLEAN
    BY DEF Committing, Present
  <2>3. ThreadStays => flag
    BY <2>1, PutSees
  <2> HIDE DEF flag
  <2>4. Goes(s, 3) \in Local /\ Goes(s, 3).op = "Runs.put" /\ Goes(s, 3).pc = 3 /\ Goes(s, 3).n = tx[s].l.n
    BY <2>1, <2>2, SessionHas
  <2>5. l \in Local /\ l.op = "Runs.put" /\ l.pc = 3 /\ l.n = tx[s].l.n /\ l.flag = flag
    BY <2>2, <2>4 DEF Local
  <2> HIDE DEF l
  <2>6. LocalOK(l)
    BY <2>1, <2>5, SessionHas DEF LocalOK
  <2>7. ThreadStays => RunsOK(l, tx[s].w)
    BY <2>1, <2>3, <2>5, PutReads
  <2>8. AssistantStays => VersionsOK(l, tx[s].w)
    <3>1. {} \subseteq {ThreadRow} \cup RunRows
      OBVIOUS
    <3> QED BY <2>1, <2>5, <3>1, PutSide
  <2> QED BY <2>1, <2>5, <2>6, <2>7, <2>8, SelectKeeps
<1>3. CASE MakeBusy(s) /\ ~ Rollback(s)
  <2> DEFINE l == Goes(s, 4)
  <2>1. tx[s].l.op = "Runs.put" /\ tx[s].l.pc = 3 /\ 4 \in 0..Committing
    BY <1>3 DEF MakeBusy, Doing, Committing
  <2>2. l.op = "Runs.put" /\ l.pc = 4 /\ l.n = tx[s].l.n /\ LocalOK(l)
    BY <2>1, PutGoes, SessionHas
  <2>3. PICK hit \in SUBSET {ThreadRow} : WriteRows(s, hit, Is("busy"), l) /\ (ThreadStays => hit = {ThreadRow})
    <3>1. CASE tx[s].l.flag
      <4> DEFINE hit == {row \in {ThreadRow} : Present(SessionSees(s, row))}
      <4>1. WriteRows(s, hit, Is("busy"), l)
        BY <1>3, <3>1 DEF MakeBusy, Modify
      <4>2. ThreadStays => hit = {ThreadRow}
        BY <2>1, PutSees
      <4> QED BY <4>1, <4>2
    <3>2. CASE ~ tx[s].l.flag
      <4>1. WriteRows(s, {ThreadRow}, Is("busy"), l)
        BY <1>3, <3>2 DEF MakeBusy, Insert
      <4> QED BY <4>1
    <3> QED BY <3>1, <3>2
  <2>4. Is("busy") \in Value /\ Is("busy").st = "busy" /\ Present(Is("busy"))
    BY ValuesAre
  <2> HIDE DEF l
  <2>5. hit \subseteq Writes(s)
    BY <2>1, WritesAre DEF Doing
  <2>6. ThreadStays => RunsOK(l, WithRows(tx[s].w, hit, Is("busy")))
    <3> SUFFICES ASSUME ThreadStays PROVE RunsOK(l, WithRows(tx[s].w, hit, Is("busy")))
      OBVIOUS
    <3>1. DOMAIN tx[s].w \subseteq {ThreadRow} /\ hit = {ThreadRow}
      BY <2>1, <2>3, PutSees
    <3>2. DOMAIN WithRows(tx[s].w, hit, Is("busy")) = {ThreadRow}
          /\ WithRows(tx[s].w, hit, Is("busy"))[ThreadRow] = Is("busy")
      BY <3>1 DEF WithRows
    <3> QED BY <2>2, <2>4, <3>2, RowsApart DEF RunsOK, Committing
  <2>7. AssistantStays => VersionsOK(l, WithRows(tx[s].w, hit, Is("busy")))
    <3>1. hit \subseteq {ThreadRow} \cup RunRows
      OBVIOUS
    <3> QED BY <2>1, <2>2, <3>1, PutSide
  <2>8. hit \subseteq Rows
    BY ThreadSide
  <2> QED BY <2>2, <2>3, <2>4, <2>5, <2>6, <2>7, <2>8, WriteKeeps
<1>4. CASE Rollback(s)
  BY <1>4, RollbackKeeps
<1> QED BY <1>1, <1>2, <1>3, <1>4

\* Statements 4 and 5: whoever gets here has the thread's row, and nobody else inserts
\* a run before the transaction has ended.
LEMMA PutEnds ==
  ASSUME PgInv, NEW s \in Sessions, Blockers(s) = {}, CheckInflight(s) \/ InsertRun(s)
  PROVE  PgInv'
<1>1. CASE CheckInflight(s) /\ ~ Rollback(s)
  <2> DEFINE l == Goes(s, 5)
  <2>1. Select(s, l) /\ tx[s].l.op = "Runs.put" /\ tx[s].l.pc = 4 /\ InflightFor(s) = {} /\ 5 \in 0..Committing
    BY <1>1 DEF CheckInflight, Doing, Committing
  <2>2. l.op = "Runs.put" /\ l.pc = 5 /\ LocalOK(l)
    BY <2>1, PutGoes, SessionHas
  <2> HIDE DEF l
  <2>3. ThreadStays => RunsOK(l, tx[s].w)
    <3> SUFFICES ASSUME ThreadStays PROVE RunsOK(l, tx[s].w)
      OBVIOUS
    <3>1. DOMAIN tx[s].w \subseteq {ThreadRow} /\ RunsOK(tx[s].l, tx[s].w)
      BY <2>1, PutSees, SessionHas
    <3>2. \A i \in 1..NRuns : db[RunRow(i)].st # "pending"
      BY <2>1, PutSees
    <3> QED BY <2>1, <2>2, <3>1, <3>2, RowsApart DEF RunsOK, Committing
  <2>4. AssistantStays => VersionsOK(l, tx[s].w)
    <3>1. {} \subseteq {ThreadRow} \cup RunRows
      OBVIOUS
    <3> QED BY <2>1, <2>2, <3>1, PutSide
  <2> QED BY <2>1, <2>2, <2>3, <2>4, SelectKeeps
<1>2. CASE InsertRun(s) /\ ~ Rollback(s)
  <2> DEFINE l == Goes(s, Committing)
             row == RunRow(tx[s].l.n)
             v == Is("pending")
             f == WithRows(tx[s].w, {row}, v)
  <2>1. WriteRows(s, {row}, v, l) /\ tx[s].l.op = "Runs.put" /\ tx[s].l.pc = 5 /\ Committing \in 0..Committing
    BY <1>2 DEF InsertRun, Insert, Doing, Committing
  <2>2. l.op = "Runs.put" /\ l.pc = Committing /\ LocalOK(l) /\ l.n = tx[s].l.n /\ l.n \in 1..NRuns
    <3>1. l.op = "Runs.put" /\ l.pc = Committing /\ LocalOK(l) /\ l.n = tx[s].l.n
      BY <2>1, PutGoes, SessionHas
    <3> QED BY <3>1 DEF LocalOK
  <2>3. v \in Value
    BY ValuesAre
  <2> HIDE DEF l, v
  <2>4. {row} \subseteq Rows /\ {row} \subseteq {ThreadRow} \cup RunRows
    BY <2>2, ThreadSide
  <2>5. {row} \subseteq Writes(s)
    BY <2>1, WritesAre DEF Doing
  <2>6. ThreadStays => RunsOK(l, f)
    <3> SUFFICES ASSUME ThreadStays PROVE RunsOK(l, f)
      OBVIOUS
    <3>1. DOMAIN tx[s].w \subseteq {ThreadRow} /\ RunsOK(tx[s].l, tx[s].w)
      BY <2>1, PutSees, SessionHas
    <3>2. DOMAIN f = DOMAIN tx[s].w \cup {row} /\ \A r \in DOMAIN tx[s].w : r # row => f[r] = tx[s].w[r]
      BY DEF WithRows
    <3>3. row # ThreadRow /\ \A i : RunRow(i) = row => i = l.n
      BY <2>2, RowsApart
    <3> HIDE DEF f, row
    <3>4. ThreadRow \in DOMAIN f /\ Present(f[ThreadRow])
      BY <2>1, <3>1, <3>2, <3>3 DEF RunsOK
    <3>5. \A i \in 1..NRuns : db[RunRow(i)].st # "pending"
      BY <2>1, <3>1 DEF RunsOK
    <3>6. \A i \in 1..NRuns : RunRow(i) \in DOMAIN f => i = l.n
      BY <3>1, <3>2, <3>3, RowsApart
    <3> QED BY <2>2, <3>4, <3>5, <3>6 DEF RunsOK, Committing
  <2>7. AssistantStays => VersionsOK(l, f)
    BY <2>1, <2>2, <2>4, PutSide
  <2> HIDE DEF row, f
  <2> QED BY <2>1, <2>2, <2>3, <2>4, <2>5, <2>6, <2>7, WriteKeeps DEF f
<1>3. CASE Rollback(s)
  BY <1>3, RollbackKeeps
<1> QED BY <1>1, <1>2, <1>3

(***************************************************************************)
(* Runs.delete, Threads.put, Threads.delete, State.post                    *)
(***************************************************************************)
\* The locals of an operation that cancels nothing, at its next statement.
LEMMA OtherGoes ==
  ASSUME PgInv, NEW s \in Sessions, tx[s].l.op \notin {"Runs.cancel", "Assistants.delete"}, NEW pc \in 0..Committing,
         tx[s].l.op = "Assistants.patch" => tx[s].l.pc \in {2, 3, Committing}
  PROVE  LocalOK(Goes(s, pc)) /\ Goes(s, pc).op = tx[s].l.op
BY SessionHas DEF LocalOK

\* Runs.delete.
LEMMA DeleteRunRowKeeps ==
  ASSUME PgInv, NEW s \in Sessions, Blockers(s) = {}, DeleteRunRow(s)
  PROVE  PgInv'
<1>1. CASE Doing(s, "Runs.delete", 1) /\ Select(s, Goes(s, 2))
  <2>1. 2 \in 0..Committing /\ tx[s].l.op = "Runs.delete"
    BY <1>1 DEF Doing, Committing
  <2>2. LocalOK(Goes(s, 2)) /\ Goes(s, 2).op = "Runs.delete"
    BY <2>1, OtherGoes
  <2> QED BY <1>1, <2>1, <2>2, OtherSelect DEF VersionOps
<1>2. CASE Doing(s, "Runs.delete", 2) /\ Modify(s, {RunRow(tx[s].l.n)}, Gone, Goes(s, Committing))
  <2> DEFINE hit == {row \in {RunRow(tx[s].l.n)} : Present(SessionSees(s, row))}
             l == Goes(s, Committing)
  <2>1. Committing \in 0..Committing /\ tx[s].l.op = "Runs.delete" /\ WriteRows(s, hit, Gone, l)
    BY <1>2 DEF Doing, Committing, Modify
  <2>2. LocalOK(l) /\ l.op = "Runs.delete"
    BY <2>1, OtherGoes
  <2>3. tx[s].l.n \in 1..NRuns
    BY <2>1, SessionHas DEF LocalOK
  <2>4. hit \subseteq {ThreadRow} \cup RunRows /\ hit \subseteq Writes(s) /\ ThreadRow \notin hit
    BY <1>2, <2>3, ThreadSide, WritesAre, RowsApart
  <2>5. Gone \in Value /\ Gone.st = "absent"
    BY ValuesAre
  <2> HIDE DEF l, hit
  <2> QED BY <2>1, <2>2, <2>4, <2>5, OtherWrite DEF VersionOps
<1>3. CASE Rollback(s)
  BY <1>3, RollbackKeeps
<1> QED BY <1>1, <1>2, <1>3 DEF DeleteRunRow

\* Threads.put.
LEMMA PutThreadRowKeeps ==
  ASSUME PgInv, NEW s \in Sessions, Blockers(s) = {}, PutThreadRow(s)
  PROVE  PgInv'
<1>1. CASE Doing(s, "Threads.put", 1) /\ ~ Rollback(s)
  <2>1. PICK pc \in {2, Committing} : Select(s, Goes(s, pc))
    BY <1>1 DEF PutThreadRow, Doing
  <2>2. pc \in 0..Committing /\ tx[s].l.op = "Threads.put"
    BY <1>1, <2>1 DEF Doing, Committing
  <2>3. LocalOK(Goes(s, pc)) /\ Goes(s, pc).op = "Threads.put"
    BY <2>2, OtherGoes
  <2> QED BY <2>1, <2>2, <2>3, OtherSelect DEF VersionOps
<1>2. CASE Doing(s, "Threads.put", 2) /\ ~ Rollback(s)
  <2> DEFINE l == Goes(s, Committing)
  <2>1. Committing \in 0..Committing /\ tx[s].l.op = "Threads.put" /\ WriteRows(s, {ThreadRow}, Is("idle"), l)
    BY <1>2 DEF Doing, Committing, PutThreadRow, Insert
  <2>2. LocalOK(l) /\ l.op = "Threads.put"
    BY <2>1, OtherGoes
  <2>4. {ThreadRow} \subseteq {ThreadRow} \cup RunRows /\ {ThreadRow} \subseteq Writes(s)
    BY <1>2, WritesAre
  <2>5. Is("idle") \in Value /\ Is("idle").st = "idle" /\ Present(Is("idle"))
    BY ValuesAre
  <2> HIDE DEF l
  <2> QED BY <2>1, <2>2, <2>4, <2>5, OtherWrite DEF VersionOps
<1>3. CASE Rollback(s)
  BY <1>3, RollbackKeeps
<1> QED BY <1>1, <1>2, <1>3 DEF PutThreadRow

\* Threads.delete.
LEMMA DeleteThreadRowKeeps ==
  ASSUME PgInv, NEW s \in Sessions, Blockers(s) = {}, DeleteThreadRow(s)
  PROVE  PgInv'
<1>0. CASE Rollback(s)
  BY <1>0, RollbackKeeps
<1>1. CASE ~ Rollback(s)
  <2>1. tx[s].l.op = "Threads.delete" /\ tx[s].l.pc \in {1, 2, 3} /\ ~ ThreadStays
    <3>1. tx[s].l.op = "Threads.delete" /\ tx[s].l.pc \in {1, 2, 3}
      BY DEF DeleteThreadRow, Doing
    <3> QED BY <3>1, SessionHas DEF LocalOK, ThreadStays
  <2>2. \A pc \in {2, 3, Committing} : LocalOK(Goes(s, pc)) /\ Goes(s, pc).op = "Threads.delete"
    BY <2>1, OtherGoes DEF Committing
  <2>3. Gone \in Value /\ Gone.st = "absent"
    BY ValuesAre
  <2>4. CASE tx[s].l.pc = 1
    BY <1>1, <2>1, <2>2, <2>4, OtherSelect DEF DeleteThreadRow, Doing, VersionOps
  <2>5. CASE tx[s].l.pc = 2
    <3> DEFINE hit == {row \in CommittedRuns : Present(SessionSees(s, row))}
               l == Goes(s, 3)
    <3>1. WriteRows(s, hit, Gone, l)
      BY <2>5 DEF DeleteThreadRow, Doing, Modify, CommittedRuns
    <3>2. hit \subseteq {ThreadRow} \cup RunRows /\ hit \subseteq Writes(s)
      BY <2>1, <2>5, WritesAre DEF Doing, CommittedRuns
    <3>3. LocalOK(l) /\ l.op = "Threads.delete"
      BY <2>2
    <3> HIDE DEF hit, l
    <3> QED BY <2>1, <2>3, <3>1, <3>2, <3>3, OtherWrite DEF VersionOps
  <2>6. CASE tx[s].l.pc = 3
    <3> DEFINE hit == {row \in {ThreadRow} \cup CommittedRuns : Present(SessionSees(s, row))}
               l == Goes(s, Committing)
    <3>1. WriteRows(s, hit, Gone, l)
      BY <2>6 DEF DeleteThreadRow, Doing, Modify, CommittedRuns
    <3>2. hit \subseteq {ThreadRow} \cup RunRows /\ hit \subseteq Writes(s)
      BY <2>1, <2>6, WritesAre DEF Doing, CommittedRuns
    <3>3. LocalOK(l) /\ l.op = "Threads.delete"
      BY <2>2
    <3> HIDE DEF hit, l
    <3> QED BY <2>1, <2>3, <3>1, <3>2, <3>3, OtherWrite DEF VersionOps
  <2> QED BY <2>1, <2>4, <2>5, <2>6
<1> QED BY <1>0, <1>1

\* State.post.
LEMMA PostStateKeeps ==
  ASSUME PgInv, NEW s \in Sessions, Blockers(s) = {}, PostState(s)
  PROVE  PgInv'
<1>0. CASE Rollback(s)
  BY <1>0, RollbackKeeps
<1>1. CASE ~ Rollback(s)
  <2>1. tx[s].l.op = "State.post" /\ tx[s].l.pc \in {1, 2, 3}
    BY DEF PostState, Doing
  <2>2. \A pc \in {2, 3, Committing} : LocalOK(Goes(s, pc)) /\ Goes(s, pc).op = "State.post"
    BY <2>1, OtherGoes DEF Committing
  <2>4. CASE tx[s].l.pc = 1
    BY <1>1, <2>1, <2>2, <2>4, OtherSelect DEF PostState, Doing, VersionOps
  <2>5. CASE tx[s].l.pc = 2
    <3> DEFINE flag == InflightFor(s) # {}
               l == [Goes(s, 3) EXCEPT !.flag = flag]
    <3>1. Select(s, l)
      BY <2>5 DEF PostState, Doing
    <3>2. flag \in BOOLEAN /\ Goes(s, 3).op = "State.post" /\ LocalOK(Goes(s, 3)) /\ Goes(s, 3) \in Local
      BY <2>2 DEF LocalOK
    <3> HIDE DEF flag
    <3>3. l \in Local /\ l.op = "State.post"
      BY <3>2 DEF Local
    <3> HIDE DEF l
    <3>4. LocalOK(l)
      BY <3>2, <3>3 DEF LocalOK
    <3> QED BY <2>1, <3>1, <3>3, <3>4, OtherSelect DEF VersionOps
  <2>6. CASE tx[s].l.pc = 3
    <3> DEFINE hit == {row \in {ThreadRow} : Present(SessionSees(s, row))}
               l == Goes(s, Committing)
               st == IF tx[s].l.flag THEN "busy" ELSE "idle"
               v == Is(st)
    <3>1. WriteRows(s, hit, v, l)
      BY <2>6 DEF PostState, Doing, Modify
    <3>2. hit \subseteq {ThreadRow} \cup RunRows /\ hit \subseteq Writes(s)
      BY <2>1, <2>6, WritesAre DEF Doing
    <3>3. LocalOK(l) /\ l.op = "State.post"
      BY <2>2
    <3>4. st \in {"busy", "idle"}
      OBVIOUS
    <3> HIDE DEF st
    <3>5. v \in Value /\ v.st # "pending" /\ Present(v)
      BY <3>4, ValuesAre
    <3> HIDE DEF hit, l, v
    <3> QED BY <2>1, <3>1, <3>2, <3>3, <3>5, OtherWrite DEF VersionOps
  <2> QED BY <2>1, <2>4, <2>5, <2>6
<1> QED BY <1>0, <1>1

(***************************************************************************)
(* Runs.cancel, and the cancellations of Assistants.delete                 *)
(***************************************************************************)
\* Before its last statement a deletion has not written the assistant, and no version
\* but to delete it.
LEMMA DeleteSide ==
  ASSUME PgInv, NEW s \in Sessions, tx[s].l.op = "Assistants.delete", tx[s].l.pc # Committing,
         NEW l, l.op = "Assistants.delete", l.pc # Committing, NEW hit, AsstRow \notin hit,
         NEW v, VersionRows \cap hit # {} => ~ Present(v)
  PROVE  AssistantStays => VersionsOK(l, tx[s].w) /\ VersionsOK(l, WithRows(tx[s].w, hit, v))
<1> SUFFICES ASSUME AssistantStays
             PROVE  VersionsOK(l, tx[s].w) /\ VersionsOK(l, WithRows(tx[s].w, hit, v))
  OBVIOUS
<1> DEFINE f == WithRows(tx[s].w, hit, v)
<1>1. DeleteOK(tx[s].l, tx[s].w)
  BY SessionHas DEF VersionsOK
<1>2. DOMAIN f = DOMAIN tx[s].w \cup hit /\ \A row \in DOMAIN f : row \notin hit => f[row] = tx[s].w[row]
  BY DEF WithRows
<1>3. \A row \in hit : f[row] = v
  BY DEF WithRows
<1> HIDE DEF f
<1>4. DeleteOK(l, f)
  BY <1>1, <1>2, <1>3 DEF DeleteOK
<1>5. DeleteOK(l, tx[s].w)
  BY <1>1 DEF DeleteOK
<1> QED BY <1>4, <1>5 DEF VersionsOK, VersionOps, f

\* A cancellation reads.
LEMMA CancelReads ==
  ASSUME PgInv, NEW s \in Sessions, tx[s].l.op \in {"Runs.cancel", "Assistants.delete"},
         NEW l, Select(s, l), LocalOK(l), l.op = tx[s].l.op,
         l.op = "Assistants.delete" => tx[s].l.pc # Committing /\ l.pc # Committing
  PROVE  PgInv'
<1>1. CASE tx[s].l.op = "Runs.cancel"
  BY <1>1, OtherSelect DEF VersionOps
<1>2. CASE tx[s].l.op = "Assistants.delete"
  <2>1. ThreadStays => RunsOK(l, tx[s].w)
    BY <1>2, ValuesAre, OtherRuns
  <2>2. AssistantStays => VersionsOK(l, tx[s].w)
    <3>1. AsstRow \notin {} /\ VersionRows \cap {} = {}
      OBVIOUS
    <3> QED BY <1>2, <3>1, DeleteSide
  <2> QED BY <1>2, <2>1, <2>2, SelectKeeps
<1> QED BY <1>1, <1>2

\* A cancellation writes the thread or a run.
LEMMA CancelWrites ==
  ASSUME PgInv, NEW s \in Sessions, tx[s].l.op \in {"Runs.cancel", "Assistants.delete"},
         NEW l, NEW hit, NEW v \in Value, WriteRows(s, hit, v, l), Blockers(s) = {},
         hit \subseteq Writes(s), hit \subseteq {ThreadRow} \cup RunRows, LocalOK(l), l.op = tx[s].l.op,
         l.op = "Assistants.delete" => tx[s].l.pc # Committing /\ l.pc # Committing,
         v.st # "pending", ThreadRow \in hit => Present(v)
  PROVE  PgInv'
<1>1. CASE tx[s].l.op = "Runs.cancel"
  BY <1>1, OtherWrite DEF VersionOps
<1>2. CASE tx[s].l.op = "Assistants.delete"
  <2>1. ThreadStays => RunsOK(l, WithRows(tx[s].w, hit, v))
    BY <1>2, OtherRuns
  <2>2. hit \subseteq Rows /\ AsstRow \notin hit /\ VersionRows \cap hit = {}
    BY ThreadSide
  <2>3. AssistantStays => VersionsOK(l, WithRows(tx[s].w, hit, v))
    BY <1>2, <2>2, DeleteSide
  <2> QED BY <1>2, <2>1, <2>2, <2>3, WriteKeeps
<1> QED BY <1>1, <1>2

\* The locals of a cancellation: the runs that are left and the next statement.
LEMMA CancelGoes ==
  ASSUME PgInv, NEW s \in Sessions, NEW pc, tx[s].l.op \in {"Runs.cancel", "Assistants.delete"},
         NEW todo \in SUBSET (1..NRuns), pc = IF todo = {} THEN AfterCancel(s) ELSE 2
  PROVE  LET l == [Goes(s, pc) EXCEPT !.todo = todo]
         IN  /\ LocalOK(l) /\ l.op = tx[s].l.op
             /\ l.op = "Assistants.delete" => l.pc # Committing
<1> DEFINE l == [Goes(s, pc) EXCEPT !.todo = todo]
<1>1. pc \in 0..Committing /\ (pc \in {2, 3} => todo # {}) /\ (tx[s].l.op = "Assistants.delete" => pc # Committing)
  BY DEF AfterCancel, Committing
<1>2. Goes(s, pc) \in Local /\ Goes(s, pc).op = tx[s].l.op /\ Goes(s, pc).pc = pc /\ Goes(s, pc).n = tx[s].l.n
  BY <1>1, SessionHas
<1>3. l \in Local /\ l.op = tx[s].l.op /\ l.pc = pc /\ l.n = tx[s].l.n /\ l.todo = todo
  BY <1>2 DEF Local
<1> HIDE DEF l
<1>4. LocalOK(l)
  BY <1>1, <1>3, SessionHas DEF LocalOK
<1> QED BY <1>1, <1>3, <1>4 DEF l

\* The runs are looked for.
LEMMA CancelSelectKeeps ==
  ASSUME PgInv, NEW s \in Sessions, Blockers(s) = {}, CancelSelect(s)
  PROVE  PgInv'
<1>1. CASE Rollback(s)
  BY <1>1, RollbackKeeps
<1>2. CASE ~ Rollback(s)
  <2>1. tx[s].l.op \in {"Runs.cancel", "Assistants.delete"} /\ tx[s].l.pc = 1
    BY DEF CancelSelect, Cancelling
  <2>2. \E todo \in SUBSET InflightFor(s) :
          Select(s, [Goes(s, IF todo = {} THEN AfterCancel(s) ELSE 2) EXCEPT !.todo = todo])
    BY <1>2 DEF CancelSelect
  <2>3. PICK todo \in SUBSET InflightFor(s) :
          Select(s, [Goes(s, IF todo = {} THEN AfterCancel(s) ELSE 2) EXCEPT !.todo = todo])
    BY <2>2
  <2>4. todo \in SUBSET (1..NRuns)
    BY DEF InflightFor
  <2> DEFINE pc == IF todo = {} THEN AfterCancel(s) ELSE 2
             l == [Goes(s, pc) EXCEPT !.todo = todo]
  <2>5. LocalOK(l) /\ l.op = tx[s].l.op /\ (l.op = "Assistants.delete" => l.pc # Committing)
    BY <2>1, <2>4, CancelGoes
  <2>6. Select(s, l) /\ tx[s].l.pc # Committing
    BY <2>1, <2>3 DEF Committing
  <2> HIDE DEF l
  <2> QED BY <2>1, <2>5, <2>6, CancelReads
<1> QED BY <1>1, <1>2

\* The thread becomes idle when no other run is in flight.
LEMMA CountOthersKeeps ==
  ASSUME PgInv, NEW s \in Sessions, Blockers(s) = {}, CountOthers(s)
  PROVE  PgInv'
<1> DEFINE l == Goes(s, 3)
<1>1. tx[s].l.op \in {"Runs.cancel", "Assistants.delete"} /\ tx[s].l.pc = 2 /\ 3 \in 0..Committing /\ Cancelling(s, 2)
  BY DEF CountOthers, Cancelling, Committing
<1>2. /\ LocalOK(l) /\ l.op = tx[s].l.op /\ l.pc = 3 /\ 3 # Committing /\ 2 # Committing
  <2>1. /\ l \in Local /\ l.pc = 3 /\ l.op = tx[s].l.op /\ l.n = tx[s].l.n
        /\ l.todo = tx[s].l.todo /\ LocalOK(tx[s].l)
    BY <1>1, SessionHas
  <2> HIDE DEF l
  <2> QED BY <1>1, <2>1 DEF LocalOK, Committing
<1>3. CASE InflightFor(s) \subseteq {Current(s)}
  <2> DEFINE hit == {row \in {ThreadRow} : Present(SessionSees(s, row))}
  <2>1. WriteRows(s, hit, Is("idle"), l)
    BY <1>3 DEF CountOthers, Modify
  <2>2. hit \subseteq Writes(s) /\ hit \subseteq {ThreadRow} \cup RunRows
    BY <1>1, <1>3, WritesAre
  <2>3. Is("idle") \in Value /\ Is("idle").st # "pending" /\ Present(Is("idle"))
    BY ValuesAre
  <2> HIDE DEF hit, l
  <2> QED BY <1>1, <1>2, <2>1, <2>2, <2>3, CancelWrites
<1>4. CASE ~ (InflightFor(s) \subseteq {Current(s)})
  <2>1. Select(s, l)
    BY <1>4 DEF CountOthers
  <2> HIDE DEF l
  <2> QED BY <1>1, <1>2, <2>1, CancelReads
<1> QED BY <1>3, <1>4

\* The run is interrupted, or deleted.
LEMMA InterruptKeeps ==
  ASSUME PgInv, NEW s \in Sessions, Blockers(s) = {}, Interrupt(s)
  PROVE  PgInv'
<1> DEFINE rest == tx[s].l.todo \ {Current(s)}
           pc == IF rest = {} THEN AfterCancel(s) ELSE 2
           l == [Goes(s, pc) EXCEPT !.todo = rest]
           v == IF tx[s].l.flag THEN Gone ELSE Is("interrupted")
           hit == {row \in {RunRow(Current(s))} : Present(SessionSees(s, row))}
<1>1. tx[s].l.op \in {"Runs.cancel", "Assistants.delete"} /\ tx[s].l.pc = 3 /\ Cancelling(s, 3)
      /\ 3 # Committing
  BY DEF Interrupt, Cancelling, Committing
<1>2. WriteRows(s, hit, v, l)
  BY DEF Interrupt, Modify
<1>3. rest \in SUBSET (1..NRuns) /\ Current(s) \in 1..NRuns
  <2>1. tx[s].l.todo # {} /\ tx[s].l.todo \in SUBSET (1..NRuns)
    BY <1>1, SessionHas DEF LocalOK, Local
  <2> QED BY <2>1, CurrentIs
<1>4. LocalOK(l) /\ l.op = tx[s].l.op /\ (l.op = "Assistants.delete" => l.pc # Committing)
  <2> HIDE DEF rest
  <2> QED BY <1>1, <1>3, CancelGoes
<1>5. hit \subseteq Writes(s) /\ hit \subseteq {ThreadRow} \cup RunRows /\ ThreadRow \notin hit
  BY <1>1, <1>3, WritesAre, ThreadSide, RowsApart
<1>6. v \in Value /\ v.st # "pending"
  BY ValuesAre
<1> HIDE DEF l, v, hit
<1> QED BY <1>1, <1>2, <1>4, <1>5, <1>6, CancelWrites

(***************************************************************************)
(* Assistants                                                              *)
(***************************************************************************)
\* An operation about assistants writes no thread and no run in flight.
LEMMA AssistantRuns ==
  ASSUME PgInv, NEW s \in Sessions, tx[s].l.op \in VersionOps, NEW l, l.op = tx[s].l.op,
         NEW hit, hit \subseteq AssistantRows \cup RunRows, NEW v, v.st # "pending"
  PROVE  ThreadStays => RunsOK(l, tx[s].w) /\ RunsOK(l, WithRows(tx[s].w, hit, v))
<1>1. ThreadRow \notin hit
  BY ThreadSide
<1> QED BY <1>1, OtherRuns DEF VersionOps

\* Assistants.put: when nobody deletes the assistant it is there, and put writes nothing.
LEMMA PgPutAssistantKeeps ==
  ASSUME PgInv, NEW s \in Sessions, Blockers(s) = {}, PgPutAssistant(s)
  PROVE  PgInv'
<1>0. CASE Rollback(s)
  BY <1>0, RollbackKeeps
<1>1. CASE ~ Rollback(s)
  <2>1. tx[s].l.op = "Assistants.put" /\ tx[s].l.pc \in {1, 2, 3} /\ tx[s].l.op \in VersionOps
    BY DEF PgPutAssistant, Doing, VersionOps
  <2>2. \A pc \in {2, 3, Committing} : /\ LocalOK(Goes(s, pc)) /\ Goes(s, pc).op = "Assistants.put"
                                       /\ Goes(s, pc).pc = pc
    <3>1. \A pc \in {2, 3, Committing} : pc \in 0..Committing
      BY DEF Committing
    <3>2. \A pc \in {2, 3, Committing} : LocalOK(Goes(s, pc)) /\ Goes(s, pc).op = "Assistants.put"
      BY <2>1, <3>1, OtherGoes
    <3>3. \A pc \in {2, 3, Committing} : Goes(s, pc).pc = pc
      BY <3>1, SessionHas
    <3> QED BY <3>2, <3>3
  <2>3. AssistantStays => /\ DOMAIN tx[s].w = {} /\ tx[s].l.pc = 1
                          /\ Present(SessionSees(s, AsstRow))
    <3> SUFFICES ASSUME AssistantStays PROVE /\ DOMAIN tx[s].w = {} /\ tx[s].l.pc = 1
                                             /\ Present(SessionSees(s, AsstRow))
      OBVIOUS
    <3>1. DOMAIN tx[s].w = {} /\ tx[s].l.pc = 1
      BY <2>1, SessionHas DEF VersionsOK
    <3>2. "Assistants.put" \in mix
      BY <2>1, SessionHas DEF LocalOK
    <3>3. Present(db[AsstRow])
      BY <3>2 DEF PgInv, VersionInv, AssistantStays
    <3> QED BY <3>1, <3>3 DEF SessionSees
  <2>4. \A l : l.op = "Assistants.put" => (ThreadStays => RunsOK(l, tx[s].w))
    BY <2>1, ValuesAre, AssistantRuns
  <2>5. CASE tx[s].l.pc = 1
    <3>1. PICK pc \in {2, Committing} : Select(s, Goes(s, pc)) /\ (pc = 2 => ~ Present(SessionSees(s, AsstRow)))
      <4>1. \/ ~ Present(SessionSees(s, AsstRow)) /\ Select(s, Goes(s, 2))
            \/ Select(s, Goes(s, Committing))
        BY <1>1, <2>5 DEF PgPutAssistant, Doing
      <4>2. Committing # 2
        BY DEF Committing
      <4> QED BY <4>1, <4>2
    <3> DEFINE l == Goes(s, pc)
    <3>2. LocalOK(l) /\ l.op = "Assistants.put" /\ l.pc = pc
      BY <2>2
    <3>3. AssistantStays => pc = Committing /\ Committing \notin {2, 3}
      BY <2>3, <3>1 DEF Committing
    <3> HIDE DEF l
    <3>4. AssistantStays => VersionsOK(l, tx[s].w)
      BY <2>3, <3>2, <3>3 DEF VersionsOK, VersionOps
    <3> QED BY <2>4, <3>1, <3>2, <3>4, SelectKeeps DEF l
  <2>6. CASE tx[s].l.pc \in {2, 3}
    <3> DEFINE row == IF tx[s].l.pc = 2 THEN AsstRow ELSE VersionRow(1)
               pc == IF tx[s].l.pc = 2 THEN 3 ELSE Committing
               v == Content(1, tx[s].l.config)
               l == Goes(s, pc)
    <3>1. WriteRows(s, {row}, v, l)
      BY <1>1, <2>6 DEF PgPutAssistant, Doing, Insert
    <3>2. LocalOK(l) /\ l.op = "Assistants.put"
      BY <2>2
    <3>3. v \in Value /\ v.st = "live"
      <4>1. 1 \in 0..NVersions /\ tx[s].l.config \in PgConfigs
        <5>1. 1 \in 0..NVersions
          BY PgStoreAssumption
        <5>2. tx[s].l.config \in PgConfigs
          BY SessionHas DEF Local
        <5> QED BY <5>1, <5>2
      <4> QED BY <4>1, ValuesAre
    <3>4. {row} \subseteq AssistantRows /\ {row} \subseteq Writes(s)
      <4>1. VersionRow(1) \in VersionRows
        BY PgStoreAssumption DEF VersionRows
      <4> QED BY <2>1, <2>6, <4>1, WritesAre, ThreadSide DEF Doing
    <3> HIDE DEF v, l, row
    <3>5. ThreadStays => RunsOK(l, WithRows(tx[s].w, {row}, v))
      BY <2>1, <3>2, <3>3, <3>4, AssistantRuns
    <3> QED BY <2>3, <2>6, <3>1, <3>2, <3>3, <3>4, <3>5, ThreadSide, WriteKeeps
  <2> QED BY <2>1, <2>5, <2>6
<1> QED BY <1>0, <1>1

\* The number of a new version is looked for.
LEMMA SelectMaxKeeps ==
  ASSUME PgInv, NEW s \in Sessions, Blockers(s) = {}, SelectMax(s)
  PROVE  PgInv'
<1>0. CASE Rollback(s)
  BY <1>0, RollbackKeeps
<1>1. CASE ~ Rollback(s)
  <2> DEFINE n == NewNumber(s)
             l == [Goes(s, 2) EXCEPT !.n = n]
  <2>1. tx[s].l.op = "Assistants.patch" /\ tx[s].l.pc = 1 /\ Select(s, l) /\ n <= NVersions
    BY <1>1 DEF SelectMax, Doing
  <2>2. n \in 1..NVersions /\ n \in 0..NRuns + NVersions
    BY <2>1, NewNumberIs, PgStoreAssumption
  <2> HIDE DEF n
  <2>3. Goes(s, 2) \in Local /\ Goes(s, 2).op = "Assistants.patch" /\ Goes(s, 2).pc = 2
    <3>1. 2 \in 0..Committing
      BY DEF Committing
    <3> QED BY <2>1, <3>1, SessionHas
  <2>4. l \in Local /\ l.op = "Assistants.patch" /\ l.pc = 2 /\ l.n = n
    BY <2>2, <2>3 DEF Local
  <2> HIDE DEF l
  <2>5. LocalOK(l)
    BY <2>1, <2>2, <2>4, SessionHas DEF LocalOK
  <2>6. ThreadStays => RunsOK(l, tx[s].w)
    BY <2>1, <2>4, ValuesAre, AssistantRuns DEF VersionOps
  <2>7. AssistantStays => VersionsOK(l, tx[s].w)
    <3> SUFFICES ASSUME AssistantStays PROVE VersionsOK(l, tx[s].w)
      OBVIOUS
    <3>1. DOMAIN tx[s].w = {}
      BY <2>1, SessionHas DEF VersionsOK, PatchOK
    <3> QED BY <2>2, <2>4, <3>1 DEF VersionsOK, VersionOps, PatchOK, Committing
  <2>8. l.pc \notin {3, Committing}
    BY <2>4 DEF Committing
  <2> QED BY <2>1, <2>4, <2>5, <2>6, <2>7, <2>8, SelectKeeps
<1> QED BY <1>0, <1>1

\* The version is inserted: nobody has deleted, or is deleting, the assistant.
LEMMA InsertVersionKeeps ==
  ASSUME PgInv, NEW s \in Sessions, Blockers(s) = {}, InsertVersion(s)
  PROVE  PgInv'
<1>0. CASE Rollback(s)
  BY <1>0, RollbackKeeps
<1>1. CASE ~ Rollback(s)
  <2> DEFINE row == VersionRow(tx[s].l.n)
             v == Content(tx[s].l.n, tx[s].l.config)
             l == Goes(s, 3)
             f == WithRows(tx[s].w, {row}, v)
  <2>1. /\ Doing(s, "Assistants.patch", 2) /\ WriteRows(s, {row}, v, l)
        /\ Present(SessionSees(s, AsstRow)) /\ ~ Present(SessionSees(s, row))
    BY <1>1 DEF InsertVersion, Insert
  <2>2. tx[s].l.op = "Assistants.patch" /\ tx[s].l.pc = 2 /\ 3 \in 0..Committing /\ tx[s].l.config \in PgConfigs
    <3>1. 3 \in 0..Committing
      BY DEF Committing
    <3>2. tx[s].l.config \in PgConfigs
      BY SessionHas DEF Local
    <3> QED BY <2>1, <3>1, <3>2 DEF Doing
  <2>3. LocalOK(l) /\ l.op = "Assistants.patch" /\ l.pc = 3 /\ l.n = tx[s].l.n /\ l.config = tx[s].l.config
    BY <2>2, OtherGoes, SessionHas
  <2>a. v \in Value /\ v.st = "live"
    <3>1. tx[s].l.n \in 1..NVersions
      BY <2>2, SessionHas DEF LocalOK
    <3>2. tx[s].l.n \in 0..NVersions
      BY <3>1, PgStoreAssumption
    <3> QED BY <2>2, <3>2, ValuesAre
  <2>4. {row} \subseteq Rows /\ {row} \subseteq AssistantRows /\ {row} \subseteq Writes(s)
    <3>1. tx[s].l.n \in 1..NVersions
      BY <2>2, SessionHas DEF LocalOK
    <3> QED BY <2>1, <3>1, WritesAre, ThreadSide
  <2> HIDE DEF l, f, v
  <2>5. ThreadStays => RunsOK(l, f)
    BY <2>2, <2>3, <2>4, <2>a, AssistantRuns DEF VersionOps, f
  <2>6. ASSUME AssistantStays PROVE DOMAIN tx[s].w = {} /\ tx[s].l.n \in 1..NVersions /\ Present(db[AsstRow]) /\ ~ Present(db[row])
    <3>1. DOMAIN tx[s].w = {} /\ tx[s].l.n \in 1..NVersions
      BY <2>2, <2>6, SessionHas DEF VersionsOK, PatchOK, LocalOK
    <3> QED BY <2>1, <3>1 DEF SessionSees
  <2>7. ASSUME AssistantStays PROVE VersionsOK(l, f)
    <3>1. DOMAIN f = {row} /\ f[row] = v /\ row # AsstRow
      BY <2>6, <2>7, RowsApart DEF f, WithRows
    <3> HIDE DEF row
    <3>2. row = VersionRow(l.n) /\ v = Content(l.n, l.config)
      BY <2>3 DEF row, v
    <3> QED BY <2>3, <2>6, <2>7, <3>1, <3>2 DEF VersionsOK, VersionOps, PatchOK, Committing
  <2>8. ASSUME AssistantStays, NEW o \in Sessions \ {s}, Doing(o, "Assistants.delete", Committing) PROVE FALSE
    <3>1. DeleteOK(tx[o].l, tx[o].w) /\ tx[o].l.pc = Committing
      BY <2>8, SessionHas DEF VersionsOK, Doing
    <3>2. AsstRow \in DOMAIN tx[o].w /\ ~ Present(tx[o].w[AsstRow])
      BY <2>6, <2>8, <3>1, ThreadSide DEF DeleteOK
    <3>3. row \in Inserts(s) /\ AsstRow \in Parents(row)
      <4>1. row \in VersionRows
        BY <2>6, <2>8, ThreadSide
      <4>2. AsstRow \in Parents(row)
        BY <4>1 DEF Parents
      <4>3. row \in Writes(s)
        BY <2>4
      <4> QED BY <2>1, <4>2, <4>3 DEF Inserts
    <3> QED BY <2>6, <2>8, <3>2, <3>3 DEF Blockers
  <2> HIDE DEF row
  <2> QED BY <2>1, <2>3, <2>4, <2>5, <2>7, <2>8, <2>a, WriteKeeps DEF f
<1> QED BY <1>0, <1>1

\* A version is looked up.
LEMMA SelectVersionKeeps ==
  ASSUME PgInv, NEW s \in Sessions, Blockers(s) = {}, SelectVersion(s)
  PROVE  PgInv'
<1>0. CASE Rollback(s)
  BY <1>0, RollbackKeeps
<1>1. CASE ~ Rollback(s)
  <2> DEFINE row == VersionRow(tx[s].l.n)
             c == SessionSees(s, row).config
             l == [Goes(s, 3) EXCEPT !.config = c]
  <2>1. /\ tx[s].l.op = "Assistants.set_latest" /\ tx[s].l.pc = 1 /\ Select(s, l)
        /\ Present(SessionSees(s, row))
    BY <1>1 DEF SelectVersion, Doing, VersionsIn
  <2>2. row \in Rows /\ row # AsstRow
    BY <2>1, SessionHas, ThreadSide, RowsApart DEF LocalOK
  <2>3. c \in PgConfigs
    <3>1. db[row] \in Value
      BY <2>2 DEF PgInv, PgStoreTypeOK
    <3>2. row \in DOMAIN tx[s].w => tx[s].w[row] \in Value
      BY SessionHas DEF WrittenOK
    <3>3. SessionSees(s, row) \in Value
      BY <3>1, <3>2 DEF SessionSees
    <3> QED BY <3>3 DEF Value
  <2> HIDE DEF c
  <2>4. Goes(s, 3) \in Local /\ Goes(s, 3).op = "Assistants.set_latest" /\ Goes(s, 3).pc = 3
        /\ Goes(s, 3).n = tx[s].l.n
    <3>1. 3 \in 0..Committing
      BY DEF Committing
    <3> QED BY <2>1, <3>1, SessionHas
  <2>5. l \in Local /\ l.op = "Assistants.set_latest" /\ l.pc = 3 /\ l.n = tx[s].l.n /\ l.config = c
    BY <2>3, <2>4 DEF Local
  <2> HIDE DEF l
  <2>6. LocalOK(l)
    BY <2>1, <2>5, SessionHas DEF LocalOK
  <2>7. ThreadStays => RunsOK(l, tx[s].w)
    BY <2>1, <2>5, ValuesAre, AssistantRuns DEF VersionOps
  <2>8. AssistantStays => VersionsOK(l, tx[s].w)
    <3> SUFFICES ASSUME AssistantStays PROVE VersionsOK(l, tx[s].w)
      OBVIOUS
    <3>1. ReturnOK(tx[s].l, tx[s].w)
      BY <2>1, SessionHas DEF VersionsOK
    <3>2. DOMAIN tx[s].w = {}
      BY <2>1, <3>1 DEF ReturnOK, Committing
    <3>3. Present(db[row]) /\ db[row].config = c
      BY <2>1, <3>2 DEF SessionSees, c
    <3>4. ReturnOK(l, tx[s].w)
      BY <2>5, <3>2, <3>3 DEF ReturnOK
    <3> QED BY <2>5, <3>4 DEF VersionsOK, VersionOps
  <2> QED BY <2>1, <2>5, <2>6, <2>7, <2>8, SelectKeeps
<1> QED BY <1>0, <1>1

\* The assistant takes its version.
LEMMA UpdateAssistantKeeps ==
  ASSUME PgInv, NEW s \in Sessions, Blockers(s) = {}, UpdateAssistant(s)
  PROVE  PgInv'
<1> DEFINE hit == {row \in {AsstRow} : Present(SessionSees(s, row))}
           v == Content(tx[s].l.n, tx[s].l.config)
           l == Goes(s, Committing)
           f == WithRows(tx[s].w, hit, v)
<1>1. tx[s].l.op \in {"Assistants.patch", "Assistants.set_latest"} /\ tx[s].l.pc = 3 /\ WriteRows(s, hit, v, l)
  BY DEF UpdateAssistant, Modify
<1>2. Committing \in 0..Committing /\ 3 # Committing
  BY DEF Committing
<1>3. LocalOK(l) /\ l.op = tx[s].l.op /\ l.pc = Committing /\ l.n = tx[s].l.n /\ l.config = tx[s].l.config
  <2>1. LocalOK(l)
    BY <1>1, <1>2, OtherGoes
  <2> QED BY <1>2, <2>1, SessionHas
<1>4. v \in Value /\ v.st = "live"
  <2>1. tx[s].l.n \in 1..NVersions /\ tx[s].l.config \in PgConfigs
    BY <1>1, SessionHas DEF LocalOK, Local
  <2>2. tx[s].l.n \in 0..NVersions
    BY <2>1, PgStoreAssumption
  <2> QED BY <2>1, <2>2, ValuesAre
<1>5. hit \subseteq AssistantRows /\ hit \subseteq Writes(s) /\ hit \subseteq Rows
  BY <1>1, WritesAre, ThreadSide DEF Doing
<1>6. ThreadStays => RunsOK(l, f)
  BY <1>1, <1>3, <1>4, <1>5, AssistantRuns DEF VersionOps
<1>7. ASSUME AssistantStays PROVE VersionsOK(l, f)
  <2>1. AsstRow \notin DOMAIN tx[s].w
    BY <1>1, <1>2, <1>7, SessionHas DEF VersionsOK, PatchOK, ReturnOK
  <2>2. hit \subseteq {AsstRow} /\ (hit # {} => Present(db[AsstRow]))
    BY <2>1 DEF SessionSees
  <2>3. /\ DOMAIN f = DOMAIN tx[s].w \cup hit
        /\ \A row \in DOMAIN tx[s].w : f[row] = tx[s].w[row]
        /\ \A row \in hit : f[row] = Content(l.n, l.config)
    BY <1>3, <2>1, <2>2 DEF WithRows
  <2> HIDE DEF f, hit, l, v
  <2>4. CASE tx[s].l.op = "Assistants.patch"
    <3>1. PatchOK(tx[s].l, tx[s].w)
      BY <1>7, <2>4, SessionHas DEF VersionsOK
    <3>2. VersionRow(l.n) \in DOMAIN tx[s].w /\ DOMAIN tx[s].w \subseteq {VersionRow(l.n), AsstRow}
          /\ tx[s].w[VersionRow(l.n)] = Content(l.n, l.config)
          /\ ~ Present(db[VersionRow(l.n)]) /\ Present(db[AsstRow])
      BY <1>1, <1>3, <3>1 DEF PatchOK
    <3>3. PatchOK(l, f)
      BY <1>3, <2>1, <2>2, <2>3, <3>2 DEF PatchOK, Committing
    <3> QED BY <1>3, <2>4, <3>3 DEF VersionsOK, VersionOps
  <2>5. CASE tx[s].l.op = "Assistants.set_latest"
    <3>1. ReturnOK(tx[s].l, tx[s].w)
      BY <1>7, <2>5, SessionHas DEF VersionsOK
    <3>2. ReturnOK(l, f)
      BY <1>1, <1>3, <2>1, <2>2, <2>3, <3>1 DEF ReturnOK
    <3> QED BY <1>3, <2>5, <3>2 DEF VersionsOK, VersionOps
  <2> QED BY <1>1, <2>4, <2>5
<1>8. ASSUME AssistantStays, NEW o \in Sessions \ {s}, l.op = "Assistants.patch"
      PROVE  ~ Doing(o, "Assistants.delete", Committing)
  BY <1>1, <1>3, <1>8 DEF PgInv, VersionInv, Fence, Doing
<1> HIDE DEF hit, v, l, f
<1> QED BY <1>1, <1>3, <1>4, <1>5, <1>6, <1>7, <1>8, WriteKeeps DEF f

\* The versions, then the assistant with what was committed in between, are deleted.
LEMMA DeleteAssistantRowKeeps ==
  ASSUME PgInv, NEW s \in Sessions, Blockers(s) = {}, DeleteAssistantRow(s)
  PROVE  PgInv'
<1>1. tx[s].l.op = "Assistants.delete" /\ tx[s].l.pc \in {4, 5}
  BY DEF DeleteAssistantRow, Doing
<1>2. Gone \in Value /\ Gone.st = "absent" /\ ~ Present(Gone)
  BY ValuesAre
<1>3. \A pc \in {5, Committing} : /\ LocalOK(Goes(s, pc)) /\ Goes(s, pc).op = "Assistants.delete"
                                  /\ Goes(s, pc).pc = pc
  <2>1. \A pc \in {5, Committing} : pc \in 0..Committing /\ pc \notin {2, 3}
    BY DEF Committing
  <2>2. \A pc \in {5, Committing} :
           /\ Goes(s, pc) \in Local /\ Goes(s, pc).op = "Assistants.delete" /\ Goes(s, pc).pc = pc
    BY <1>1, <2>1, SessionHas
  <2> QED BY <1>1, <2>1, <2>2, SessionHas DEF LocalOK
<1>4. CASE tx[s].l.pc = 4
  <2> DEFINE hit == {row \in CommittedVersions : Present(SessionSees(s, row))}
             l == Goes(s, 5)
  <2>1. WriteRows(s, hit, Gone, l)
    BY <1>4 DEF DeleteAssistantRow, Doing, Modify, CommittedVersions
  <2>2. hit \subseteq VersionRows /\ hit \subseteq Writes(s)
    BY <1>1, <1>4, WritesAre DEF Doing, CommittedVersions
  <2>3. hit \subseteq AssistantRows /\ AsstRow \notin hit /\ hit \subseteq Rows
    BY <2>2, ThreadSide, RowsApart DEF VersionRows
  <2>4. l.op = "Assistants.delete" /\ l.pc = 5 /\ LocalOK(l) /\ 5 # Committing /\ 4 # Committing
    BY <1>3 DEF Committing
  <2> HIDE DEF hit, l
  <2>5. ThreadStays => RunsOK(l, WithRows(tx[s].w, hit, Gone))
    BY <1>1, <1>2, <2>3, <2>4, AssistantRuns DEF VersionOps
  <2>6. AssistantStays => VersionsOK(l, WithRows(tx[s].w, hit, Gone))
    BY <1>1, <1>2, <1>4, <2>3, <2>4, DeleteSide
  <2> QED BY <1>2, <2>1, <2>2, <2>3, <2>4, <2>5, <2>6, WriteKeeps
<1>5. CASE tx[s].l.pc = 5
  <2> DEFINE hit == {row \in {AsstRow} \cup CommittedVersions \cup CommittedRuns : Present(SessionSees(s, row))}
             l == Goes(s, Committing)
             f == WithRows(tx[s].w, hit, Gone)
  <2>1. WriteRows(s, hit, Gone, l)
    <3>1. {row \in VersionRows \cup RunRows : Present(db[row])} = CommittedVersions \cup CommittedRuns
      BY DEF CommittedVersions, CommittedRuns
    <3>2. Modify(s, {AsstRow} \cup (CommittedVersions \cup CommittedRuns), Gone, l)
      BY <1>5, <3>1 DEF DeleteAssistantRow, Doing
    <3>3. {AsstRow} \cup (CommittedVersions \cup CommittedRuns) = {AsstRow} \cup CommittedVersions \cup CommittedRuns
      OBVIOUS
    <3> QED BY <3>2, <3>3 DEF Modify
  <2>2. Writes(s) = {AsstRow} \cup CommittedVersions \cup CommittedRuns
    BY <1>1, <1>5, WritesAre DEF Doing
  <2>3. hit \subseteq Writes(s) /\ hit \subseteq AssistantRows \cup RunRows /\ hit \subseteq Rows
    BY <2>2, ThreadSide DEF CommittedVersions, CommittedRuns
  <2>4. l.op = "Assistants.delete" /\ l.pc = Committing /\ LocalOK(l) /\ 5 # Committing
    BY <1>3 DEF Committing
  <2>5. ThreadStays => RunsOK(l, f)
    BY <1>1, <1>2, <2>3, <2>4, AssistantRuns DEF VersionOps
  <2>6. ASSUME AssistantStays PROVE VersionsOK(l, f)
    <3>1. DeleteOK(tx[s].l, tx[s].w) /\ AsstRow \notin DOMAIN tx[s].w
      BY <1>1, <1>5, <2>4, <2>6, SessionHas DEF VersionsOK, DeleteOK
    <3>2. /\ DOMAIN f = DOMAIN tx[s].w \cup hit
          /\ \A row \in DOMAIN f : row \notin hit => f[row] = tx[s].w[row]
          /\ \A row \in hit : f[row] = Gone
      BY DEF WithRows
    <3>3. AsstRow \in hit => Present(db[AsstRow])
      BY <3>1 DEF SessionSees
    <3>4. \A row \in AssistantRows : Present(db[row]) => row \in DOMAIN tx[s].w \/ row \in hit
      BY DEF SessionSees, AssistantRows, CommittedVersions
    <3> HIDE DEF f, hit, l
    <3>5. DeleteOK(l, f)
      BY <1>2, <2>4, <3>1, <3>2, <3>3, <3>4 DEF DeleteOK
    <3> QED BY <2>4, <3>5 DEF VersionsOK, VersionOps
  <2>7. ASSUME AssistantStays, NEW o \in Sessions \ {s},
               Doing(o, "Assistants.patch", 3) \/ Doing(o, "Assistants.patch", Committing)
        PROVE  FALSE
    <3> DEFINE row == VersionRow(tx[o].l.n)
    <3>1. /\ row \in DOMAIN tx[o].w /\ tx[o].w[row] = Content(tx[o].l.n, tx[o].l.config)
          /\ ~ Present(db[row])
      BY <2>7, SessionHas DEF VersionsOK, PatchOK, Doing
    <3>2. tx[o].l.n \in 1..NVersions /\ tx[o].l.config \in PgConfigs
      BY <2>7, SessionHas DEF LocalOK, Local, Doing
    <3>3. Present(tx[o].w[row])
      <4>1. tx[o].l.n \in 0..NVersions
        BY <3>2, PgStoreAssumption
      <4> QED BY <3>1, <3>2, <4>1, ValuesAre
    <3>4. AsstRow \in Parents(row)
      <4>1. row \in VersionRows /\ row \notin RunRows
        BY <3>2, RowsApart, ThreadSide DEF RunRows
      <4> QED BY <4>1 DEF Parents
    <3>5. AsstRow \in Deletes(s)
      BY <1>1, <1>5, <2>2 DEF Deletes, Doing
    <3> QED BY <3>1, <3>3, <3>4, <3>5 DEF Blockers
  <2> HIDE DEF hit, l, f
  <2> QED BY <1>2, <2>1, <2>3, <2>4, <2>5, <2>6, <2>7, WriteKeeps DEF f
<1> QED BY <1>1, <1>4, <1>5

(***************************************************************************)
(* The end and the beginning of a request                                  *)
(***************************************************************************)
\* A session at rest.
LEMMA RestIsFine ==
  /\ AtRest \in Local /\ LocalOK(AtRest) /\ WrittenOK(AtRest, NothingWritten)
  /\ AtRest.op = "none" /\ AtRest.pc = 0 /\ AtRest.n = 0 /\ AtRest.config = AnyConfig /\ AtRest.flag = FALSE
  /\ DOMAIN NothingWritten = {}
<1>1. 0 \in 0..Committing /\ 0 \in 0..NRuns + NVersions /\ {} \in SUBSET (1..NRuns)
  BY PgStoreAssumption DEF Committing
<1>2. AtRest \in Local /\ AtRest.op = "none" /\ AtRest.pc = 0 /\ AtRest.n = 0 /\ AtRest.flag = FALSE
      /\ AtRest.config = AnyConfig
  BY <1>1, ValuesAre DEF AtRest, Local
<1>3. DOMAIN NothingWritten = {}
  BY DEF NothingWritten
<1>4. LocalOK(AtRest)
  BY <1>2 DEF LocalOK
<1>5. WrittenOK(AtRest, NothingWritten)
  BY <1>2, <1>3 DEF WrittenOK, NothingWritten
<1> QED BY <1>2, <1>3, <1>4, <1>5

\* What a commit leaves: the session's rows in the database, and the session at rest.
LEMMA CommitIs ==
  ASSUME PgInv, NEW s \in Sessions, Commit(s)
  PROVE  /\ DOMAIN tx' = Sessions /\ mix' = mix /\ tx[s].l.pc = Committing
         /\ tx'[s].l = AtRest /\ tx'[s].w = NothingWritten
         /\ \A o \in Sessions \ {s} : tx'[o] = tx[o]
         /\ \A row \in Rows : db'[row] = IF row \in DOMAIN tx[s].w THEN tx[s].w[row] ELSE db[row]
         /\ PgStoreTypeOK' /\ Locks' /\ SessionsOK'
<1>1. DOMAIN tx = Sessions /\ db \in [Rows -> Value] /\ mix \in Mixes
  BY DEF PgInv, PgStoreTypeOK
<1>2. /\ DOMAIN tx' = Sessions /\ mix' = mix /\ tx[s].l.pc = Committing
      /\ tx'[s] = [l |-> AtRest, w |-> NothingWritten]
      /\ \A o \in Sessions \ {s} : tx'[o] = tx[o]
      /\ db' = [row \in Rows |-> SessionSees(s, row)]
  BY <1>1 DEF Commit
<1>3. tx'[s].l = AtRest /\ tx'[s].w = NothingWritten
  BY <1>2
<1>4. tx[s].w \in [DOMAIN tx[s].w -> Value] /\ DOMAIN tx[s].w \subseteq Rows
  BY SessionHas DEF WrittenOK
<1>5. \A row \in Rows : db'[row] = IF row \in DOMAIN tx[s].w THEN tx[s].w[row] ELSE db[row]
  BY <1>2 DEF SessionSees
<1>6. db' \in [Rows -> Value]
  BY <1>1, <1>2, <1>4 DEF SessionSees
<1>7. LocalOK(AtRest) /\ WrittenOK(AtRest, NothingWritten) /\ DOMAIN NothingWritten = {}
  BY RestIsFine
<1> HIDE DEF AtRest, NothingWritten
<1>8. \A o \in Sessions : LocalOK(tx[o].l) /\ WrittenOK(tx[o].l, tx[o].w) /\ tx[o] = [l |-> tx[o].l, w |-> tx[o].w]
  BY SessionHas
<1>9. SessionsOK'
  <2>1. \A o \in Sessions : LocalOK(tx'[o].l) /\ WrittenOK(tx'[o].l, tx'[o].w) /\ tx'[o] = [l |-> tx'[o].l, w |-> tx'[o].w]
    BY <1>2, <1>3, <1>7, <1>8
  <2> QED BY <1>2, <2>1 DEF SessionsOK, LocalOK, WrittenOK
<1>10. Locks'
  BY <1>2, <1>3, <1>7 DEF PgInv, Locks
<1>11. PgStoreTypeOK'
  <2>1. \A o \in Sessions : tx'[o].l \in Local /\ tx'[o].w \in [DOMAIN tx'[o].w -> Value] /\ DOMAIN tx'[o].w \subseteq Rows
    BY <1>2, <1>3, <1>7, <1>8 DEF LocalOK, WrittenOK
  <2> QED BY <1>1, <1>2, <1>6, <2>1 DEF PgStoreTypeOK
<1> QED BY <1>2, <1>3, <1>5, <1>9, <1>10, <1>11

\* A commit leaves one run in flight, and nobody who has looked for runs has missed it.
LEMMA CommitInflight ==
  ASSUME PgInv, NEW s \in Sessions, Commit(s)
  PROVE  InflightInv'
<1>1. /\ mix' = mix /\ tx[s].l.pc = Committing
      /\ tx'[s].l = AtRest /\ tx'[s].w = NothingWritten
      /\ \A o \in Sessions \ {s} : tx'[o] = tx[o]
      /\ \A row \in Rows : db'[row] = IF row \in DOMAIN tx[s].w THEN tx[s].w[row] ELSE db[row]
  BY CommitIs
<1> SUFFICES ASSUME ThreadStays PROVE InflightInv'
  BY <1>1 DEF InflightInv, ThreadStays
<1>2. /\ Present(db[ThreadRow]) /\ RunsOK(tx[s].l, tx[s].w)
      /\ \A i, j \in 1..NRuns : db[RunRow(i)].st = "pending" /\ db[RunRow(j)].st = "pending" => i = j
  BY SessionHas DEF PgInv, InflightInv
<1>3. ThreadRow \in Rows /\ \A i \in 1..NRuns : RunRow(i) \in Rows
  BY ThreadSide
<1>4. Present(db'[ThreadRow])
  BY <1>1, <1>2, <1>3 DEF RunsOK
<1>5. \A i \in 1..NRuns : db'[RunRow(i)].st = "pending" =>
         \/ db[RunRow(i)].st = "pending"
         \/ tx[s].l.op = "Runs.put" /\ i = tx[s].l.n
  BY <1>1, <1>2, <1>3 DEF RunsOK
<1>6. tx[s].l.op = "Runs.put" => /\ ThreadRow \in DOMAIN tx[s].w
                                 /\ \A i \in 1..NRuns : db[RunRow(i)].st # "pending"
  BY <1>1, <1>2 DEF RunsOK
<1>7. \A i, j \in 1..NRuns : db'[RunRow(i)].st = "pending" /\ db'[RunRow(j)].st = "pending" => i = j
  BY <1>2, <1>5, <1>6
<1>8. ASSUME NEW o \in Sessions PROVE RunsOK(tx[o].l, tx[o].w)'
  <2>1. CASE o = s
    <3>1. tx'[o].l.op = "none" /\ DOMAIN tx'[o].w = {}
      BY <1>1, <2>1, RestIsFine
    <3> QED BY <3>1 DEF RunsOK
  <2>2. CASE o # s
    <3>1. RunsOK(tx[o].l, tx[o].w) /\ tx'[o] = tx[o]
      BY <1>1, <2>2, SessionHas
    <3>2. tx[o].l.op = "Runs.put" /\ tx[o].l.pc \in {5, Committing} =>
            \A i \in 1..NRuns : db'[RunRow(i)].st # "pending"
      <4> SUFFICES ASSUME tx[o].l.op = "Runs.put", tx[o].l.pc \in {5, Committing}, NEW i \in 1..NRuns
                   PROVE  db'[RunRow(i)].st # "pending"
        OBVIOUS
      <4>1. ThreadRow \in DOMAIN tx[o].w /\ db[RunRow(i)].st # "pending"
        BY <3>1 DEF RunsOK
      <4>2. tx[s].l.op # "Runs.put"
        BY <1>6, <2>2, <4>1 DEF PgInv, Locks
      <4> QED BY <1>5, <4>1, <4>2
    <3> QED BY <3>1, <3>2 DEF RunsOK
  <2> QED BY <2>1, <2>2
<1> QED BY <1>4, <1>7, <1>8 DEF InflightInv

\* What a session about assistants has written, when it commits.
LEMMA CommitWrites ==
  ASSUME PgInv, NEW s \in Sessions, Commit(s), AssistantStays
  PROVE  LET l == tx[s].l
             w == tx[s].w
         IN  /\ l.op \notin {"Assistants.patch", "Assistants.set_latest", "Assistants.delete"} =>
                  \A row \in AssistantRows : db'[row] = db[row]
             /\ l.op = "Assistants.set_latest" =>
                  /\ \A row \in VersionRows : db'[row] = db[row]
                  /\ \/ db'[AsstRow] = db[AsstRow]
                     \/ /\ db'[AsstRow] = Content(l.n, l.config) /\ Present(db[AsstRow]) /\ AsstRow \in DOMAIN w
                        /\ Present(db[VersionRow(l.n)]) /\ db[VersionRow(l.n)].config = l.config
             /\ l.op = "Assistants.patch" =>
                  /\ l.n \in 1..NVersions /\ VersionRow(l.n) \in DOMAIN w
                  /\ ~ Present(db[VersionRow(l.n)]) /\ Present(db[AsstRow])
                  /\ db'[VersionRow(l.n)] = Content(l.n, l.config)
                  /\ \A i \in 1..NVersions \ {l.n} : db'[VersionRow(i)] = db[VersionRow(i)]
                  /\ db'[AsstRow] = db[AsstRow] \/ (db'[AsstRow] = Content(l.n, l.config) /\ AsstRow \in DOMAIN w)
             /\ l.op = "Assistants.delete" =>
                  /\ \A row \in AssistantRows : ~ Present(db'[row])
                  /\ Present(db[AsstRow]) => AsstRow \in DOMAIN w
<1> DEFINE l == tx[s].l
           w == tx[s].w
<1>1. /\ l.pc = Committing /\ \A row \in Rows : db'[row] = IF row \in DOMAIN w THEN w[row] ELSE db[row]
  BY CommitIs
<1>2. VersionsOK(l, w) /\ LocalOK(l)
  BY SessionHas
<1>3. AssistantRows \subseteq Rows /\ AsstRow \in AssistantRows /\ VersionRows \subseteq AssistantRows
      /\ \A i \in 1..NVersions : VersionRow(i) \in VersionRows
  BY ThreadSide DEF AssistantRows, VersionRows
<1>4. Committing \notin {1, 2} /\ Committing = 9
  BY DEF Committing
<1> HIDE DEF l, w
<1>5. l.op \notin {"Assistants.patch", "Assistants.set_latest", "Assistants.delete"} =>
        \A row \in AssistantRows : db'[row] = db[row]
  <2>1. l.op \notin {"Assistants.patch", "Assistants.set_latest", "Assistants.delete"} =>
          DOMAIN w \cap AssistantRows = {}
    BY <1>2 DEF VersionsOK, VersionOps
  <2> QED BY <1>1, <1>3, <2>1
<1>6. ASSUME l.op = "Assistants.set_latest"
      PROVE  /\ \A row \in VersionRows : db'[row] = db[row]
             /\ \/ db'[AsstRow] = db[AsstRow]
                \/ /\ db'[AsstRow] = Content(l.n, l.config) /\ Present(db[AsstRow]) /\ AsstRow \in DOMAIN w
                   /\ Present(db[VersionRow(l.n)]) /\ db[VersionRow(l.n)].config = l.config
  <2>1. ReturnOK(l, w)
    BY <1>2, <1>6 DEF VersionsOK
  <2>2. \A row \in VersionRows : row \notin DOMAIN w
    BY <2>1, RowsApart DEF ReturnOK, VersionRows
  <2>3. CASE AsstRow \in DOMAIN w
    BY <1>1, <1>3, <2>1, <2>2, <2>3 DEF ReturnOK
  <2>4. CASE AsstRow \notin DOMAIN w
    BY <1>1, <1>3, <2>2, <2>4
  <2> QED BY <2>3, <2>4
<1>7. ASSUME l.op = "Assistants.patch"
      PROVE  /\ l.n \in 1..NVersions /\ VersionRow(l.n) \in DOMAIN w
             /\ ~ Present(db[VersionRow(l.n)]) /\ Present(db[AsstRow])
             /\ db'[VersionRow(l.n)] = Content(l.n, l.config)
             /\ \A i \in 1..NVersions \ {l.n} : db'[VersionRow(i)] = db[VersionRow(i)]
             /\ db'[AsstRow] = db[AsstRow] \/ (db'[AsstRow] = Content(l.n, l.config) /\ AsstRow \in DOMAIN w)
  <2>1. PatchOK(l, w) /\ l.n \in 1..NVersions
    BY <1>1, <1>2, <1>7 DEF VersionsOK, LocalOK
  <2>2. /\ VersionRow(l.n) \in DOMAIN w /\ DOMAIN w \subseteq {VersionRow(l.n), AsstRow}
        /\ w[VersionRow(l.n)] = Content(l.n, l.config)
        /\ ~ Present(db[VersionRow(l.n)]) /\ Present(db[AsstRow])
        /\ AsstRow \in DOMAIN w => w[AsstRow] = Content(l.n, l.config)
    BY <1>1, <2>1 DEF PatchOK
  <2>3. \A i \in 1..NVersions \ {l.n} : VersionRow(i) \notin DOMAIN w
    BY <2>2, RowsApart
  <2>4. \A i \in 1..NVersions \ {l.n} : db'[VersionRow(i)] = db[VersionRow(i)]
    BY <1>1, <1>3, <2>3
  <2>5. db'[VersionRow(l.n)] = Content(l.n, l.config)
    BY <1>1, <1>3, <2>1, <2>2
  <2>6. db'[AsstRow] = db[AsstRow] \/ (db'[AsstRow] = Content(l.n, l.config) /\ AsstRow \in DOMAIN w)
    BY <1>1, <1>3, <2>2
  <2> QED BY <2>1, <2>2, <2>4, <2>5, <2>6
<1>8. ASSUME l.op = "Assistants.delete"
      PROVE  /\ \A row \in AssistantRows : ~ Present(db'[row])
             /\ Present(db[AsstRow]) => AsstRow \in DOMAIN w
  <2>1. DeleteOK(l, w)
    BY <1>2, <1>8 DEF VersionsOK
  <2>2. \A row \in AssistantRows : /\ row \in DOMAIN w => ~ Present(w[row])
                                   /\ Present(db[row]) => row \in DOMAIN w
    BY <1>1, <2>1 DEF DeleteOK, AssistantRows
  <2> QED BY <1>1, <1>3, <2>2
<1> QED BY <1>5, <1>6, <1>7, <1>8 DEF l, w

\* A commit leaves an assistant that is its version.
LEMMA CommitConsistent ==
  ASSUME PgInv, NEW s \in Sessions, Commit(s), AssistantStays
  PROVE  /\ PgVersionsConsistent'
         /\ "Assistants.delete" \notin mix => Present(db'[AsstRow])
         /\ Present(db'[AsstRow]) => db'[AsstRow].version \in 1..NVersions
<1> DEFINE l == tx[s].l
           a == db[AsstRow]
<1>1. /\ "Assistants.delete" \notin mix => Present(a)
      /\ Present(a) => /\ a.version \in 1..NVersions /\ Present(db[VersionRow(a.version)])
                       /\ db[VersionRow(a.version)].config = a.config
      /\ ~ Present(a) => \A row \in VersionRows : ~ Present(db[row])
  BY DEF PgInv, VersionInv, PgVersionsConsistent, AssistantStays
<1>2. LocalOK(l) /\ mix' = mix /\ l.pc = Committing /\ l.op \in mix \cup {"none"}
  BY CommitIs, SessionHas DEF LocalOK
<1>3. AsstRow \in AssistantRows /\ VersionRows \subseteq AssistantRows
      /\ \A i \in 1..NVersions : VersionRow(i) \in VersionRows
  BY DEF AssistantRows, VersionRows
<1>4. \A n \in 1..NVersions, c \in PgConfigs :
        Present(Content(n, c)) /\ Content(n, c).version = n /\ Content(n, c).config = c
  <2>1. \A n \in 1..NVersions : n \in 0..NVersions
    BY PgStoreAssumption
  <2> QED BY <2>1, ValuesAre
<1>5. l.config \in PgConfigs
  BY <1>2 DEF LocalOK, Local
<1> SUFFICES /\ Present(db'[AsstRow]) =>
                  /\ db'[AsstRow].version \in 1..NVersions /\ Present(db'[VersionRow(db'[AsstRow].version)])
                  /\ db'[VersionRow(db'[AsstRow].version)].config = db'[AsstRow].config
             /\ ~ Present(db'[AsstRow]) => \A row \in VersionRows : ~ Present(db'[row])
             /\ "Assistants.delete" \notin mix => Present(db'[AsstRow])
  BY DEF PgVersionsConsistent
<1>6. CASE l.op \notin {"Assistants.patch", "Assistants.set_latest", "Assistants.delete"}
  <2>1. \A row \in AssistantRows : db'[row] = db[row]
    BY <1>6, CommitWrites
  <2> HIDE DEF l
  <2> QED BY <1>1, <1>3, <2>1
<1>7. CASE l.op = "Assistants.set_latest"
  <2>1. /\ \A row \in VersionRows : db'[row] = db[row]
        /\ \/ db'[AsstRow] = db[AsstRow]
           \/ /\ db'[AsstRow] = Content(l.n, l.config) /\ Present(db[AsstRow])
              /\ Present(db[VersionRow(l.n)]) /\ db[VersionRow(l.n)].config = l.config
    BY <1>7, CommitWrites
  <2>2. l.n \in 1..NVersions
    BY <1>2, <1>7 DEF LocalOK
  <2> HIDE DEF l
  <2>3. CASE db'[AsstRow] = db[AsstRow]
    BY <1>1, <1>3, <2>1, <2>3
  <2>4. CASE db'[AsstRow] # db[AsstRow]
    <3>1. Present(db'[AsstRow]) /\ db'[AsstRow].version = l.n /\ db'[AsstRow].config = l.config
      BY <1>4, <1>5, <2>1, <2>2, <2>4
    <3>2. db'[VersionRow(l.n)] = db[VersionRow(l.n)]
      BY <1>3, <2>1, <2>2
    <3> QED BY <2>1, <2>2, <2>4, <3>1, <3>2
  <2> QED BY <2>3, <2>4
<1>8. CASE l.op = "Assistants.patch"
  <2>1. /\ l.n \in 1..NVersions
        /\ ~ Present(db[VersionRow(l.n)]) /\ Present(db[AsstRow])
        /\ db'[VersionRow(l.n)] = Content(l.n, l.config)
        /\ \A i \in 1..NVersions \ {l.n} : db'[VersionRow(i)] = db[VersionRow(i)]
        /\ db'[AsstRow] = db[AsstRow] \/ db'[AsstRow] = Content(l.n, l.config)
    BY <1>8, CommitWrites
  <2> HIDE DEF l
  <2>2. Present(db'[VersionRow(l.n)]) /\ db'[VersionRow(l.n)].config = l.config
    BY <1>4, <1>5, <2>1
  <2>3. CASE db'[AsstRow] = db[AsstRow]
    <3>1. a.version \in 1..NVersions \ {l.n}
      BY <1>1, <2>1
    <3> QED BY <1>1, <2>1, <2>3, <3>1
  <2>4. CASE db'[AsstRow] = Content(l.n, l.config)
    <3>1. Present(db'[AsstRow]) /\ db'[AsstRow].version = l.n /\ db'[AsstRow].config = l.config
      BY <1>4, <1>5, <2>1, <2>4
    <3> QED BY <2>1, <2>2, <3>1
  <2> QED BY <2>1, <2>3, <2>4
<1>9. CASE l.op = "Assistants.delete"
  <2>1. \A row \in AssistantRows : ~ Present(db'[row])
    BY <1>9, CommitWrites
  <2>2. "Assistants.delete" \in mix
    BY <1>2, <1>9
  <2> HIDE DEF l
  <2> QED BY <1>3, <2>1, <2>2
<1> QED BY <1>6, <1>7, <1>8, <1>9

\* What the sessions that go on have read and written stays true.
LEMMA CommitOthers ==
  ASSUME PgInv, NEW s \in Sessions, Commit(s), AssistantStays, NEW o \in Sessions \ {s}
  PROVE  VersionsOK(tx[o].l, tx[o].w)'
<1> DEFINE l == tx[s].l
           k == tx[o].l
           f == tx[o].w
<1>1. tx'[o] = tx[o] /\ VersionsOK(k, f) /\ LocalOK(k) /\ DOMAIN tx[s].w \cap DOMAIN f = {} /\ l.pc = Committing
  BY CommitIs, SessionHas DEF PgInv, Locks
<1>2. /\ AsstRow \in AssistantRows /\ VersionRows \subseteq AssistantRows
      /\ \A i \in 1..NVersions : VersionRow(i) \in VersionRows
      /\ \A row \in VersionRows : \E i \in 1..NVersions : row = VersionRow(i)
  BY DEF AssistantRows, VersionRows
<1>3. \A n \in 1..NVersions, c \in PgConfigs : Present(Content(n, c))
  <2>1. \A n \in 1..NVersions : n \in 0..NVersions
    BY PgStoreAssumption
  <2> QED BY <2>1, ValuesAre
<1>4. l.config \in PgConfigs /\ (l.op = "Assistants.set_latest" => l.n \in 1..NVersions)
  BY SessionHas DEF LocalOK, Local
\* Whoever writes the assistant's row finds it there.
<1>5. AsstRow \in DOMAIN f /\ k.op \in {"Assistants.patch", "Assistants.set_latest", "Assistants.delete"} =>
        Present(db'[AsstRow])
  <2> SUFFICES ASSUME AsstRow \in DOMAIN f,
                      k.op \in {"Assistants.patch", "Assistants.set_latest", "Assistants.delete"}
               PROVE  Present(db'[AsstRow])
    OBVIOUS
  <2>1. Present(db[AsstRow]) /\ AsstRow \notin DOMAIN tx[s].w
    BY <1>1 DEF VersionsOK, PatchOK, ReturnOK, DeleteOK
  <2>2. AsstRow \in Rows
    BY <1>2, ThreadSide
  <2>3. db'[AsstRow] = db[AsstRow]
    BY <2>1, <2>2, CommitIs
  <2> QED BY <2>1, <2>3
<1>6. ASSUME k.op = "Assistants.patch" PROVE PatchOK(k, f)'
  <2>1. PatchOK(k, f)
    BY <1>1, <1>6 DEF VersionsOK
  <2>2. ASSUME k.pc \in {3, Committing} PROVE ~ Present(db'[VersionRow(k.n)]) /\ Present(db'[AsstRow])
    <3>1. /\ VersionRow(k.n) \in DOMAIN f /\ ~ Present(db[VersionRow(k.n)]) /\ Present(db[AsstRow])
          /\ k.n \in 1..NVersions
      BY <1>1, <1>6, <2>1, <2>2 DEF PatchOK, LocalOK
    <3>2. l.op # "Assistants.delete"
      BY <1>1, <1>6, <2>2 DEF PgInv, VersionInv, Fence, Doing
    <3>3. VersionRow(k.n) \notin DOMAIN tx[s].w /\ VersionRow(k.n) \in Rows
      BY <1>1, <1>2, <3>1, ThreadSide
    <3>4. db'[VersionRow(k.n)] = db[VersionRow(k.n)]
      BY <3>3, CommitIs
    <3>5. db'[AsstRow] = db[AsstRow] \/ (db'[AsstRow] = Content(l.n, l.config) /\ l.n \in 1..NVersions)
      BY <1>2, <1>4, <3>2, CommitWrites
    <3>6. Present(db'[AsstRow])
      BY <1>3, <1>4, <3>1, <3>5
    <3> QED BY <3>1, <3>4, <3>6
  <2> QED BY <1>1, <2>1, <2>2 DEF PatchOK
<1>7. ASSUME k.op = "Assistants.set_latest" PROVE ReturnOK(k, f)'
  <2>1. ReturnOK(k, f) /\ k.n \in 1..NVersions
    BY <1>1, <1>7 DEF VersionsOK, LocalOK
  <2>2. ASSUME k.pc \in {3, Committing}, Present(db'[AsstRow])
        PROVE  Present(db'[VersionRow(k.n)]) /\ db'[VersionRow(k.n)].config = k.config
    <3>1. l.op # "Assistants.delete"
      BY <1>2, <2>2, CommitWrites
    <3>2. Present(db[AsstRow])
      BY <1>2, <2>2, <3>1, CommitWrites
    <3>3. Present(db[VersionRow(k.n)]) /\ db[VersionRow(k.n)].config = k.config
      BY <2>1, <2>2, <3>2 DEF ReturnOK
    <3>4. db'[VersionRow(k.n)] = db[VersionRow(k.n)]
      <4>1. CASE l.op = "Assistants.patch"
        <5>1. ~ Present(db[VersionRow(l.n)]) /\ \A i \in 1..NVersions \ {l.n} : db'[VersionRow(i)] = db[VersionRow(i)]
          BY <4>1, CommitWrites
        <5> QED BY <2>1, <3>3, <5>1
      <4>2. CASE l.op # "Assistants.patch"
        <5>1. \A row \in VersionRows : db'[row] = db[row]
          BY <1>2, <3>1, <4>2, CommitWrites
        <5> QED BY <1>2, <2>1, <5>1
      <4> QED BY <4>1, <4>2
    <3> QED BY <3>3, <3>4
  <2> QED BY <1>1, <1>5, <1>7, <2>1, <2>2 DEF ReturnOK
<1>8. ASSUME k.op = "Assistants.delete" PROVE DeleteOK(k, f)'
  <2>1. DeleteOK(k, f)
    BY <1>1, <1>8 DEF VersionsOK
  <2>2. ASSUME k.pc = Committing, NEW row \in AssistantRows, Present(db'[row]) PROVE Present(db[row])
    <3>1. l.op # "Assistants.patch"
      BY <1>1, <1>8, <2>2 DEF PgInv, VersionInv, Fence, Doing
    <3>2. row = AsstRow \/ row \in VersionRows
      BY DEF AssistantRows
    <3> QED BY <1>2, <2>2, <3>1, <3>2, CommitWrites
  <2> QED BY <1>1, <1>5, <1>8, <2>1, <2>2 DEF DeleteOK
<1>9. tx'[o].l = k /\ tx'[o].w = f
  BY <1>1
<1> QED BY <1>1, <1>6, <1>7, <1>8, <1>9 DEF VersionsOK

\* The end of a request.
LEMMA CommitKeeps ==
  ASSUME PgInv, NEW s \in Sessions, Commit(s)
  PROVE  PgInv'
<1>1. /\ mix' = mix /\ tx'[s].l = AtRest /\ tx'[s].w = NothingWritten
      /\ \A o \in Sessions \ {s} : tx'[o] = tx[o]
      /\ PgStoreTypeOK' /\ Locks' /\ SessionsOK'
  BY CommitIs
<1>2. VersionInv'
  <2> SUFFICES ASSUME AssistantStays PROVE VersionInv'
    BY <1>1 DEF VersionInv, AssistantStays
  <2>1. \A o \in Sessions \ {s} : VersionsOK(tx[o].l, tx[o].w)'
    BY CommitOthers
  <2>2. VersionsOK(tx[s].l, tx[s].w)'
    <3>1. tx'[s].l.op = "none" /\ DOMAIN tx'[s].w = {}
      BY <1>1, RestIsFine
    <3> QED BY <3>1 DEF VersionsOK
  <2>3. Fence'
    <3>1. tx'[s].l.op = "none"
      BY <1>1, RestIsFine
    <3> QED BY <1>1, <3>1 DEF PgInv, VersionInv, Fence, Doing
  <2>4. \A o \in Sessions : VersionsOK(tx[o].l, tx[o].w)'
    BY <2>1, <2>2
  <2> QED BY <1>1, <2>3, <2>4, CommitConsistent DEF VersionInv
<1> QED BY <1>1, <1>2, CommitInflight DEF PgInv

\* A request comes in.
LEMMA BeginRequestKeeps ==
  ASSUME PgInv, NEW s \in Sessions, BeginRequest(s)
  PROVE  PgInv'
<1> DEFINE top == IF NRuns > NVersions THEN NRuns ELSE NVersions
           l(op, n, c, flag) == [AtRest EXCEPT !.op = op, !.pc = 1, !.n = n, !.config = c, !.flag = flag]
<1>1. PICK op \in mix, n \in 0..top, c \in PgConfigs, flag \in BOOLEAN :
        /\ op \in {"Runs.put", "Runs.delete"} => n \in 1..NRuns
        /\ op = "Assistants.set_latest" => n \in 1..NVersions
        /\ Select(s, l(op, n, c, flag))
  BY DEF BeginRequest
<1>2. tx[s].l.op = "none" /\ DOMAIN tx[s].w = {}
  BY SessionHas DEF BeginRequest, WrittenOK
<1>3. op \in OpNames /\ op # "none"
  <2>1. mix \in SUBSET OpNames
    BY PgStoreAssumption DEF PgInv, PgStoreTypeOK
  <2> QED BY <2>1 DEF OpNames
<1>4. n \in 0..NRuns + NVersions
  BY PgStoreAssumption
<1>5. 1 \in 0..Committing /\ Committing = 9
  BY DEF Committing
<1> DEFINE k == l(op, n, c, flag)
<1>6. k \in Local /\ k.op = op /\ k.pc = 1 /\ k.n = n
  BY <1>3, <1>4, <1>5, RestIsFine DEF Local
<1>7. Select(s, k)
  BY <1>1
<1> HIDE DEF k, l
<1>8. LocalOK(k)
  BY <1>1, <1>5, <1>6 DEF LocalOK
<1>9. RunsOK(k, tx[s].w)
  BY <1>2, <1>5, <1>6 DEF RunsOK
<1>10. VersionsOK(k, tx[s].w)
  BY <1>2, <1>5, <1>6 DEF VersionsOK, PatchOK, ReturnOK, DeleteOK
<1> QED BY <1>3, <1>5, <1>6, <1>7, <1>8, <1>9, <1>10, SelectKeeps

(***************************************************************************)
(* The specification                                                       *)
(***************************************************************************)
\* The database begins without runs, and with an assistant in its first version.
LEMMA PgStart == PgStoreInit => PgInv
<1> SUFFICES ASSUME PgStoreInit PROVE PgInv
  OBVIOUS
<1>1. DOMAIN tx = Sessions /\ \A s \in Sessions : tx[s].l = AtRest /\ tx[s].w = NothingWritten
      /\ tx[s] = [l |-> tx[s].l, w |-> tx[s].w]
  BY DEF PgStoreInit
<1>2. 1 \in 0..NVersions /\ 1 \in 1..NVersions
  BY PgStoreAssumption
<1>3. /\ db[ThreadRow] = Is("idle")
      /\ \A row \in {AsstRow, VersionRow(1)} : db[row] = Content(1, AnyConfig)
      /\ \A row \in RunRows : db[row] = Is("absent")
  <2>1. ThreadRow \in Rows /\ AsstRow \in Rows /\ VersionRow(1) \in Rows /\ RunRows \subseteq Rows
    BY <1>2, ThreadSide DEF Rows, VersionRows
  <2>2. \A row \in RunRows : row \notin {ThreadRow, AsstRow, VersionRow(1)}
    BY RowsApart DEF RunRows
  <2>3. ThreadRow # AsstRow /\ ThreadRow # VersionRow(1)
    BY RowsApart
  <2> QED BY <2>1, <2>2, <2>3 DEF PgStoreInit
<1>4. db \in [Rows -> Value] /\ mix \in Mixes
  <2>1. Is("idle") \in Value /\ Is("absent") \in Value /\ Content(1, AnyConfig) \in Value
    BY <1>2, ValuesAre
  <2> QED BY <2>1 DEF PgStoreInit
<1>5. Present(Is("idle")) /\ Is("absent").st = "absent"
  BY ValuesAre
<1>6. Present(db[AsstRow]) /\ db[AsstRow].version = 1 /\ db[VersionRow(1)] = db[AsstRow]
  BY <1>2, <1>3, ValuesAre
<1>7. \A i \in 1..NRuns : db[RunRow(i)].st = "absent"
  BY <1>3, <1>5, ThreadSide
<1>8. LocalOK(AtRest) /\ WrittenOK(AtRest, NothingWritten) /\ AtRest.op = "none" /\ DOMAIN NothingWritten = {}
  BY RestIsFine
<1> HIDE DEF AtRest, NothingWritten
<1>9. PgStoreTypeOK /\ Locks /\ SessionsOK
  BY <1>1, <1>4, <1>8 DEF PgStoreTypeOK, Locks, SessionsOK, LocalOK, WrittenOK
<1>10. InflightInv
  <2>1. Present(db[ThreadRow])
    BY <1>3, <1>5
  <2>2. \A s \in Sessions : RunsOK(tx[s].l, tx[s].w)
    BY <1>1, <1>8 DEF RunsOK
  <2> QED BY <1>7, <2>1, <2>2 DEF InflightInv
<1>11. VersionInv
  <2>1. PgVersionsConsistent
    BY <1>6 DEF PgVersionsConsistent
  <2>2. \A s \in Sessions : VersionsOK(tx[s].l, tx[s].w)
    BY <1>1, <1>8 DEF VersionsOK
  <2>3. Fence
    BY <1>1, <1>8 DEF Fence, Doing
  <2> QED BY <1>2, <1>6, <2>1, <2>2, <2>3 DEF VersionInv
<1> QED BY <1>9, <1>10, <1>11 DEF PgInv

\* A statement of a request.
LEMMA StatementKeeps ==
  ASSUME PgInv, NEW s \in Sessions, Statement(s)
  PROVE  PgInv'
<1>1. Blockers(s) = {}
  BY DEF Statement
<1>2. CASE LookForAssistant(s) \/ LookForThread(s) \/ MakeBusy(s)
  BY <1>1, <1>2, PutBegins
<1>3. CASE CheckInflight(s) \/ InsertRun(s)
  BY <1>1, <1>3, PutEnds
<1>4. CASE CancelSelect(s)
  BY <1>1, <1>4, CancelSelectKeeps
<1>5. CASE CountOthers(s)
  BY <1>1, <1>5, CountOthersKeeps
<1>6. CASE Interrupt(s)
  BY <1>1, <1>6, InterruptKeeps
<1>7. CASE DeleteRunRow(s)
  BY <1>1, <1>7, DeleteRunRowKeeps
<1>8. CASE PutThreadRow(s)
  BY <1>1, <1>8, PutThreadRowKeeps
<1>9. CASE DeleteThreadRow(s)
  BY <1>1, <1>9, DeleteThreadRowKeeps
<1>10. CASE PostState(s)
  BY <1>1, <1>10, PostStateKeeps
<1>11. CASE PgPutAssistant(s)
  BY <1>1, <1>11, PgPutAssistantKeeps
<1>12. CASE SelectMax(s)
  BY <1>1, <1>12, SelectMaxKeeps
<1>13. CASE InsertVersion(s)
  BY <1>1, <1>13, InsertVersionKeeps
<1>14. CASE SelectVersion(s)
  BY <1>1, <1>14, SelectVersionKeeps
<1>15. CASE UpdateAssistant(s)
  BY <1>1, <1>15, UpdateAssistantKeeps
<1>16. CASE DeleteAssistantRow(s)
  BY <1>1, <1>16, DeleteAssistantRowKeeps
<1>17. CASE Commit(s)
  BY <1>17, CommitKeeps
<1> QED BY <1>2, <1>3, <1>4, <1>5, <1>6, <1>7, <1>8, <1>9, <1>10, <1>11, <1>12, <1>13, <1>14, <1>15,
           <1>16, <1>17 DEF Statement

\* A step of the database.
LEMMA PgStep == PgInv /\ [PgStoreNext]_pgVars => PgInv'
<1> SUFFICES ASSUME PgInv, [PgStoreNext]_pgVars PROVE PgInv'
  OBVIOUS
<1>1. CASE UNCHANGED pgVars
  <2>1. db' = db /\ tx' = tx /\ mix' = mix
    BY <1>1 DEF pgVars
  <2>2. PgStoreTypeOK' /\ Locks' /\ SessionsOK'
    BY <2>1 DEF PgInv, PgStoreTypeOK, Locks, SessionsOK, LocalOK, WrittenOK
  <2>3. InflightInv'
    BY <2>1 DEF PgInv, InflightInv, ThreadStays, RunsOK
  <2>4. VersionInv'
    BY <2>1 DEF PgInv, VersionInv, AssistantStays, PgVersionsConsistent, VersionsOK, PatchOK, ReturnOK, DeleteOK,
                Fence, Doing
  <2> QED BY <2>2, <2>3, <2>4 DEF PgInv
<1>2. ASSUME NEW s \in Sessions, BeginRequest(s) PROVE PgInv'
  BY <1>2, BeginRequestKeeps
<1>3. ASSUME NEW s \in Sessions, Statement(s) PROVE PgInv'
  BY <1>3, StatementKeeps
<1>4. ASSUME NEW s \in Sessions, BreakDeadlock(s) PROVE PgInv'
  BY <1>4, RollbackKeeps DEF BreakDeadlock
<1> QED BY <1>1, <1>2, <1>3, <1>4 DEF PgStoreNext

\* The invariant implies what the run checks.
LEMMA PgInvImplies == PgInv => RejectKeepsOneInflight /\ PgVersionsConsistent
<1> SUFFICES ASSUME PgInv PROVE RejectKeepsOneInflight /\ PgVersionsConsistent
  OBVIOUS
<1>1. PgVersionsConsistent
  <2>1. CASE AssistantStays
    BY <2>1 DEF PgInv, VersionInv
  <2>2. CASE ~ AssistantStays
    BY <2>2 DEF AssistantStays, PgVersionsConsistent
  <2> QED BY <2>1, <2>2
<1>2. ASSUME ThreadStays PROVE Cardinality({i \in 1..NRuns : db[RunRow(i)].st = "pending"}) <= 1
  <2> DEFINE I == {i \in 1..NRuns : db[RunRow(i)].st = "pending"}
  <2>1. \A i, j \in I : i = j
    BY <1>2 DEF PgInv, InflightInv
  <2> HIDE DEF I
  <2>2. CASE I = {}
    BY <2>2, FS_EmptySet DEF I
  <2>3. CASE I # {}
    <3>1. PICK i \in I : I = {i}
      BY <2>1, <2>3
    <3>2. Cardinality({i}) = 1
      BY FS_Singleton
    <3> QED BY <3>1, <3>2 DEF I
  <2> QED BY <2>2, <2>3
<1>3. RejectKeepsOneInflight
  BY <1>2 DEF RejectKeepsOneInflight, ThreadStays
<1> QED BY <1>1, <1>3

\* A step of a server is one of its database, or none.
LEMMA PgSteps == [Next]_serviceVars => [PgStoreNext]_pgVars
<1>1. [Next]_serviceVars => \/ UNCHANGED serviceVars
                            \/ On("PgStore") /\ PgStoreNext
                            \/ UNCHANGED pgVars
  BY DEF Next, Others, On
<1> QED BY <1>1 DEF serviceVars

\* Requests with the strategy "reject" leave one run in flight on a thread that is not
\* deleted, and the committed assistant has the content of the version it names, however
\* many requests overlap, on however many connections.
THEOREM TransactionsAgreeAlways == Spec => []TransactionsAgree
<1>1. Init => PgInv
  BY PgStart DEF Init
<1>2. PgInv /\ [Next]_serviceVars => PgInv'
  BY PgStep, PgSteps
<1>3. PgInv => TransactionsAgree
  BY PgInvImplies DEF TransactionsAgree
<1> QED BY <1>1, <1>2, <1>3, PTL DEF Spec

\* The state of every part has its type, for every value of the constants: in particular
\* one load of a cached value is under way at most, however many callers ask for it, no
\* queue of events grows beyond its size, and a worker counts no more tasks than entries.
THEOREM ServicesTyped == Spec => []ServicesTypeOK
<1>1. Init => ServiceInv /\ PgInv
  BY ServiceStart, PgStart DEF Init
<1>2. ServiceInv /\ PgInv /\ [Next]_serviceVars => ServiceInv' /\ PgInv'
  BY ServiceStep, PgStep, PgSteps
<1>3. ServiceInv /\ PgInv => ServicesTypeOK
  BY ServiceTypes DEF PgInv, ServicesTypeOK
<1> QED BY <1>1, <1>2, <1>3, PTL DEF Spec

=============================================================================
