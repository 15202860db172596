------------------------------- MODULE PgCron -------------------------------
(***************************************************************************)
(* Crons of the Postgres runtime: one pass of cron_scheduler is ONE        *)
(* transaction (connect() commits at its end or rolls it back), the list   *)
(* of due crons is read at its start without row locks, and requests       *)
(* change the same rows between its statements.  An error of the database  *)
(* inside create_valid_run is caught by the scheduler but has aborted the  *)
(* transaction: its next statement raises and the pass is rolled back.     *)
(***************************************************************************)
EXTENDS Naturals, FiniteSets

CONSTANTS
    PgCrons,       \* cron ids
    Schedulers,    \* API processes, each with its cron_scheduler task
    Keepers,       \* requests that update or delete crons
    MaxDate        \* bound: how far time runs

ASSUME PgCronAssumption == IsFiniteSet(Schedulers) /\ MaxDate \in Nat

VARIABLES
    date,          \* the time
    cronRow,       \* committed rows of the table
    beat,          \* passes of the schedulers
    keeper,        \* requests between their SELECT and their last statement
    firings        \* history: committed runs by cron and date, counted since a
                   \* request last set the cron's date

pcVars == <<date, cronRow, beat, keeper, firings>>

NoCronRow == [there |-> FALSE, on |-> FALSE, due |-> 0]
Asleep == [pc |-> "asleep", now |-> 0, todo |-> {}, of |-> {}, moved |-> {}, runs |-> {}]
Resting == [pc |-> "rest", id |-> "none", on |-> FALSE, due |-> 0]

NoFirings == [d \in 0..MaxDate |-> 0]

PgCronInit ==
    /\ date = 0
    /\ cronRow = [c \in PgCrons |-> NoCronRow]
    /\ beat = [s \in Schedulers |-> Asleep]
    /\ keeper = [k \in Keepers |-> Resting]
    /\ firings = [c \in PgCrons |-> NoFirings]

\* next_cron_date of a schedule with a date every minute
NextCronDate(now) == now + 1

\* A row an uncommitted pass has updated is locked for every other writer
Locked(c) == \E s \in Schedulers : c \in beat[s].moved
LockedFor(s, c) == \E r \in Schedulers \ {s} : c \in beat[r].moved

PgTick ==
    /\ date < MaxDate
    /\ date' = date + 1
    /\ UNCHANGED <<cronRow, beat, keeper, firings>>

(***************************************************************************)
(* Requests                                                                *)
(***************************************************************************)
\* Crons.put: the assistant is looked up, the row inserted with its next date
PutPgCron(c) ==
    /\ ~cronRow[c].there
    /\ cronRow' = [cronRow EXCEPT ![c] = [there |-> TRUE, on |-> TRUE, due |-> NextCronDate(date)]]
    /\ firings' = [firings EXCEPT ![c] = NoFirings]
    /\ UNCHANGED <<date, beat, keeper>>

\* Crons.update reads the row and computes the next date ...
SelectForUpdate(k, c) ==
    /\ keeper[k] = Resting /\ cronRow[c].there
    /\ \E on \in BOOLEAN, rescheduled \in BOOLEAN :
          keeper' = [keeper EXCEPT ![k] =
             [pc |-> "update", id |-> c, on |-> on,
              due |-> IF rescheduled THEN NextCronDate(date) ELSE 0]]
    /\ UNCHANGED <<date, cronRow, beat, firings>>

\* ... and writes the columns the request names, if the row is still there
UpdateCronRow(k) ==
    LET q == keeper[k] IN
    /\ q.pc = "update" /\ ~Locked(q.id)
    /\ cronRow' = IF cronRow[q.id].there
                  THEN [cronRow EXCEPT ![q.id].on = q.on,
                                       ![q.id].due = IF q.due = 0 THEN @ ELSE q.due]
                  ELSE cronRow
    /\ firings' = [firings EXCEPT ![q.id] = IF q.due = 0 THEN @ ELSE NoFirings]
    /\ keeper' = [keeper EXCEPT ![k] = Resting]
    /\ UNCHANGED <<date, beat>>

\* Crons.delete: one row, once nobody holds it
DeleteCronRow(c) ==
    /\ cronRow[c].there /\ ~Locked(c)
    /\ cronRow' = [cronRow EXCEPT ![c] = NoCronRow]
    /\ UNCHANGED <<date, beat, keeper, firings>>

(***************************************************************************)
(* A pass of the scheduler                                                 *)
(***************************************************************************)
\* Crons.next: the committed rows that are due, with the time of the query
SelectDue(s) ==
    /\ beat[s].pc = "asleep"
    /\ LET due == {c \in PgCrons : cronRow[c].there /\ cronRow[c].on /\ cronRow[c].due <= date} IN
       beat' = [beat EXCEPT ![s] = [Asleep EXCEPT !.pc = "pass", !.now = date, !.todo = due,
                                     !.of = {[id |-> c, due |-> cronRow[c].due] : c \in due}]]
    /\ UNCHANGED <<date, cronRow, keeper, firings>>

DueOf(s, c) == (CHOOSE o \in beat[s].of : o.id = c).due

\* create_valid_run in the pass's transaction: inserted, or refused with an
\* HTTPException, which leaves the transaction as it is
FireRow(s, c) ==
    /\ beat[s].pc = "pass" /\ c \in beat[s].todo
    /\ beat' = [beat EXCEPT ![s].pc = "fired", ![s].todo = @ \ {c},
                            ![s].runs = @ \cup {[id |-> c, due |-> DueOf(s, c)]}]
    /\ UNCHANGED <<date, cronRow, keeper, firings>>

\* set_next_run_date of the cron fired last, counted from the pass's own time;
\* it waits for a row another pass has updated
Pending(s) == {r.id : r \in beat[s].runs} \ beat[s].moved

MoveDate(s) ==
    /\ beat[s].pc = "fired"
    /\ \A c \in Pending(s) : ~LockedFor(s, c)
    /\ beat' = [beat EXCEPT ![s].pc = "pass", ![s].moved = @ \cup Pending(s)]
    /\ UNCHANGED <<date, cronRow, keeper, firings>>

Fired(s, c, d) == [id |-> c, due |-> d] \in beat[s].runs

\* The end of the pass: connect() commits, the scheduler sleeps
CommitPass(s) ==
    /\ beat[s].pc = "pass" /\ beat[s].todo = {}
    /\ cronRow' = [c \in PgCrons |->
                     IF c \in beat[s].moved /\ cronRow[c].there
                     THEN [cronRow[c] EXCEPT !.due = NextCronDate(beat[s].now)] ELSE cronRow[c]]
    /\ firings' = [c \in PgCrons |-> [d \in 0..MaxDate |->
                     IF Fired(s, c, d) THEN firings[c][d] + 1 ELSE firings[c][d]]]
    /\ beat' = [beat EXCEPT ![s] = Asleep]
    /\ UNCHANGED <<date, keeper>>

\* An error of the database, a payload that cannot be decrypted, the end of
\* the process: everything the pass did is rolled back
FailPass(s) ==
    /\ beat[s].pc # "asleep"
    /\ beat' = [beat EXCEPT ![s] = Asleep]
    /\ UNCHANGED <<date, cronRow, keeper, firings>>

PgCronNext ==
    \/ PgTick
    \/ \E c \in PgCrons :
          \/ PutPgCron(c)
          \/ DeleteCronRow(c)
          \/ \E k \in Keepers : SelectForUpdate(k, c)
          \/ \E s \in Schedulers : FireRow(s, c)
    \/ \E k \in Keepers : UpdateCronRow(k)
    \/ \E s \in Schedulers : SelectDue(s) \/ MoveDate(s) \/ CommitPass(s) \/ FailPass(s)

PgCronSpec == PgCronInit /\ [][PgCronNext]_pcVars

(***************************************************************************)
(* Properties                                                              *)
(***************************************************************************)
\* Rows, passes and requests have the columns and local variables of the code.
PgCronTypeOK ==
    /\ date \in 0..MaxDate
    /\ cronRow \in [PgCrons -> [there : BOOLEAN, on : BOOLEAN, due : 0..MaxDate + 1]]
    /\ \A s \in Schedulers :
          /\ beat[s].pc \in {"asleep", "pass", "fired"}
          /\ beat[s].todo \subseteq PgCrons /\ beat[s].moved \subseteq PgCrons
          /\ Cardinality(Pending(s)) <= 1

\* With one scheduler no date of a cron is fired twice, however its passes
\* fail: a run and the step of its date are committed together or not at all.
\* (A request that computed a date before a pass and writes it afterwards can
\* set the date back; the count starts anew with every date a request sets.)
OncePerDate ==
    Cardinality(Schedulers) = 1 => \A c \in PgCrons, d \in 0..MaxDate : firings[c][d] <= 1
=============================================================================
