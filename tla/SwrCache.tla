------------------------------ MODULE SwrCache ------------------------------
(***************************************************************************)
(* The stale-while-revalidate cache (cache.py), for one key: callers that  *)
(* look the key up, write it optimistically or have it revalidated, and    *)
(* the load they share.  Every await is the end of a step: the backend of  *)
(* the cache may be another process.                                       *)
(*                                                                         *)
(* A cached entry tells who stored it and when; a load also how many       *)
(* writes had begun when it was started.                                   *)
(***************************************************************************)
EXTENDS Naturals, FiniteSets

CONSTANTS
  Callers,
  FreshFor, MaxAge,    \* the windows of swr, in ticks
  NLoads,              \* bound: loads started
  MaxWrites,           \* bound: optimistic writes
  MaxTicks             \* bound: the clock

ASSUME SwrAssumption == NLoads \in Nat /\ MaxWrites \in Nat /\ MaxTicks \in Nat

VARIABLES
  cached,              \* the entry of the key in the backend
  swrState,            \* _SWR_STATES[key]: its epoch and its load task (0: None)
  lockedBy,            \* the owner of write_lock: a load, -1 for a caller, 0 when free
  load,                \* the load tasks
  caller,
  writes,              \* history: optimistic writes begun, and the last one that was stored
  tick

swrVars == <<cached, swrState, lockedBy, load, caller, writes, tick>>

Loads == 1..NLoads
NoEntry == [by |-> "none", began |-> 0, at |-> 0]
NoCaller == [pc |-> "new", task |-> 0, seen |-> NoEntry, n |-> 0]

SwrInit ==
  /\ cached = NoEntry
  /\ swrState = [epoch |-> 0, task |-> 0]
  /\ lockedBy = 0
  /\ load = [t \in Loads |-> [pc |-> "none", epoch |-> 0, began |-> 0, ok |-> TRUE]]
  /\ caller = [c \in Callers |-> NoCaller]
  /\ writes = [begun |-> 0, stored |-> 0]
  /\ tick = 0

\* Who has acquired the state and not released it.
Using(calls, loads) ==
  {c \in Callers : calls[c].pc \in {"lock", "write"}} \cup {t \in Loads : loads[t].pc \in {"lock", "write"}}

\* _maybe_cleanup_swr_state: a state nobody needs is dropped, the next one is new.
Cleaned(state, calls, loads) ==
  IF Using(calls, loads) = {} /\ state.task = 0 THEN [epoch |-> 0, task |-> 0] ELSE state

\* Mutant of EnsureLoad: every caller starts a load of its own.
EnsureLoadAlone(c, then) ==
  \E t \in Loads :
    /\ load[t].pc = "none" /\ \A u \in Loads : u < t => load[u].pc # "none"
    /\ load' = [load EXCEPT ![t] = [pc |-> "loading", epoch |-> swrState.epoch, began |-> writes.begun, ok |-> TRUE]]
    /\ swrState' = [swrState EXCEPT !.task = t]
    /\ caller' = [caller EXCEPT ![c] = [NoCaller EXCEPT !.pc = then, !.task = IF then = "wait" THEN t ELSE 0]]

\* _ensure_swr_load_task: the load under way, or a new one.  Any user releases the
\* state again: without a load it would be dropped, with one it stays.
EnsureLoad(c, then) ==
  LET old == swrState.task
      shared == old # 0 /\ load[old].pc # "done"
  IN  \E t \in Loads :
        /\ IF shared THEN t = old ELSE load[t].pc = "none" /\ \A u \in Loads : u < t => load[u].pc # "none"
        /\ load' = IF shared THEN load
                   ELSE [load EXCEPT ![t] = [pc |-> "loading", epoch |-> swrState.epoch,
                                             began |-> writes.begun, ok |-> TRUE]]
        /\ swrState' = [swrState EXCEPT !.task = t]
        /\ caller' = [caller EXCEPT ![c] = [NoCaller EXCEPT !.pc = then,
                                                            !.task = IF then = "wait" THEN t ELSE 0]]

(***************************************************************************)
(* swr                                                                     *)
(***************************************************************************)
Lookup(c) ==
  /\ caller[c].pc \in {"new", "held"}
  /\ caller' = [caller EXCEPT ![c] = [NoCaller EXCEPT !.pc = "decide", !.seen = cached]]
  /\ UNCHANGED <<cached, swrState, lockedBy, load, writes, tick>>

\* What the entry that was read is worth by now.
Status(entry) ==
  IF entry = NoEntry THEN "miss"
  ELSE IF tick - entry.at < FreshFor THEN "fresh"
  ELSE IF tick - entry.at < MaxAge THEN "stale" ELSE "expired"

Decide(c) ==
  /\ caller[c].pc = "decide"
  /\ CASE Status(caller[c].seen) = "fresh" ->
            caller' = [caller EXCEPT ![c] = [NoCaller EXCEPT !.pc = "held"]] /\ UNCHANGED <<load, swrState>>
       [] Status(caller[c].seen) = "stale" -> EnsureLoad(c, "held")
       [] Status(caller[c].seen) \in {"miss", "expired"} -> EnsureLoad(c, "wait")
  /\ UNCHANGED <<cached, lockedBy, writes, tick>>

\* The shared load is over: its value, or its exception.
Resume(c) ==
  /\ caller[c].pc = "wait" /\ load[caller[c].task].pc = "done"
  /\ caller' = [caller EXCEPT ![c] = [NoCaller EXCEPT !.pc = IF load[caller[c].task].ok THEN "held" ELSE "raised"]]
  /\ UNCHANGED <<cached, swrState, lockedBy, load, writes, tick>>

(***************************************************************************)
(* SWRResult.mutate                                                        *)
(***************************************************************************)
\* Without a value: the load under way, or a new one, is awaited.
Revalidate(c) ==
  /\ caller[c].pc = "held"
  /\ EnsureLoad(c, "wait")
  /\ UNCHANGED <<cached, lockedBy, writes, tick>>

Mutate(c) ==
  /\ caller[c].pc = "held"
  /\ writes.begun + Cardinality({d \in Callers : caller[d].pc = "lock"}) < MaxWrites
  /\ caller' = [caller EXCEPT ![c].pc = "lock"]
  /\ UNCHANGED <<cached, swrState, lockedBy, load, writes, tick>>

\* _write_swr_value: the epoch is raised under the lock, then the entry is written.
LockWrite(c) ==
  /\ caller[c].pc = "lock" /\ lockedBy = 0
  /\ lockedBy' = 0 - 1
  /\ writes' = [writes EXCEPT !.begun = @ + 1]
  /\ swrState' = [swrState EXCEPT !.epoch = @ + 1]
  /\ caller' = [caller EXCEPT ![c].pc = "write", ![c].n = writes.begun + 1]
  /\ UNCHANGED <<cached, load, tick>>

Write(c) ==
  /\ caller[c].pc = "write"
  /\ cached' = [by |-> "write", began |-> 0, at |-> tick]
  /\ writes' = [writes EXCEPT !.stored = caller[c].n]
  /\ lockedBy' = 0
  /\ caller' = [caller EXCEPT ![c] = [NoCaller EXCEPT !.pc = "held"]]
  /\ swrState' = Cleaned(swrState, caller', load)
  /\ UNCHANGED <<load, tick>>

(***************************************************************************)
(* The load task                                                           *)
(***************************************************************************)
LoaderReturns(t) ==
  /\ load[t].pc = "loading"
  /\ load' = [load EXCEPT ![t].pc = "lock"]
  /\ UNCHANGED <<cached, swrState, lockedBy, caller, writes, tick>>

LoaderFails(t) ==
  /\ load[t].pc = "loading"
  /\ load' = [load EXCEPT ![t].pc = "done", ![t].ok = FALSE]
  /\ UNCHANGED <<cached, swrState, lockedBy, caller, writes, tick>>

\* _store_loaded_swr_value: a load that began before a write is not stored, its
\* caller gets what is cached.
StoreLoaded(t) ==
  /\ load[t].pc = "lock" /\ lockedBy = 0
  /\ IF load[t].epoch # swrState.epoch
     THEN load' = [load EXCEPT ![t].pc = "reread"] /\ lockedBy' = 0
     ELSE load' = [load EXCEPT ![t].pc = "write"] /\ lockedBy' = t
  /\ swrState' = Cleaned(swrState, caller, load')
  /\ UNCHANGED <<cached, caller, writes, tick>>

LoadWrites(t) ==
  /\ load[t].pc = "write"
  /\ cached' = [by |-> "load", began |-> load[t].began, at |-> tick]
  /\ lockedBy' = 0
  /\ load' = [load EXCEPT ![t].pc = "done"]
  /\ swrState' = Cleaned(swrState, caller, load')
  /\ UNCHANGED <<caller, writes, tick>>

Reread(t) ==
  /\ load[t].pc = "reread"
  /\ load' = [load EXCEPT ![t].pc = "done"]
  /\ UNCHANGED <<cached, swrState, lockedBy, caller, writes, tick>>

\* The done callback of the task.
LoadCallback(t) ==
  /\ load[t].pc = "done" /\ swrState.task = t
  /\ swrState' = Cleaned([swrState EXCEPT !.task = 0], caller, load)
  /\ UNCHANGED <<cached, lockedBy, load, caller, writes, tick>>

(***************************************************************************)
(* Cancelled requests, the backend and time                                *)
(***************************************************************************)
\* Whoever awaits the shared load is cancelled with it: the task is not shielded.
\* The request on its way to the backend is carried out by then, or never.
CancelWaiter(c) ==
  /\ caller[c].pc = "wait" /\ load[caller[c].task].pc # "done"
  /\ LET t == caller[c].task IN
     /\ load' = [load EXCEPT ![t].pc = "done", ![t].ok = FALSE]
     /\ lockedBy' = IF lockedBy = t THEN 0 ELSE lockedBy
     /\ \/ UNCHANGED cached
        \/ load[t].pc = "write" /\ cached' = [by |-> "load", began |-> load[t].began, at |-> tick]
  /\ caller' = [caller EXCEPT ![c] = [NoCaller EXCEPT !.pc = "raised"]]
  /\ UNCHANGED <<swrState, writes, tick>>

\* A write that is cancelled has raised the epoch, whether it reached the backend or not.
CancelWriter(c) ==
  /\ caller[c].pc \in {"lock", "write"}
  /\ lockedBy' = IF caller[c].pc = "write" THEN 0 ELSE lockedBy
  /\ \/ UNCHANGED <<cached, writes>>
     \/ /\ caller[c].pc = "write"
        /\ cached' = [by |-> "write", began |-> 0, at |-> tick]
        /\ writes' = [writes EXCEPT !.stored = caller[c].n]
  /\ caller' = [caller EXCEPT ![c] = [NoCaller EXCEPT !.pc = "raised"]]
  /\ swrState' = Cleaned(swrState, caller', load)
  /\ UNCHANGED <<load, tick>>

\* The backend drops an entry: its TTL, or its capacity.
Evict ==
  /\ cached # NoEntry /\ cached' = NoEntry
  /\ UNCHANGED <<swrState, lockedBy, load, caller, writes, tick>>

Tick ==
  /\ tick < MaxTicks /\ tick' = tick + 1
  /\ UNCHANGED <<cached, swrState, lockedBy, load, caller, writes>>

LoadStep(t) ==
  LoaderReturns(t) \/ LoaderFails(t) \/ StoreLoaded(t) \/ LoadWrites(t) \/ Reread(t) \/ LoadCallback(t)

SwrNext ==
  \/ \E c \in Callers : \/ Lookup(c) \/ Decide(c) \/ Resume(c) \/ Revalidate(c) \/ Mutate(c)
                        \/ LockWrite(c) \/ Write(c) \/ CancelWaiter(c) \/ CancelWriter(c)
  \/ \E t \in Loads : LoadStep(t)
  \/ Evict \/ Tick

SwrSpec == SwrInit /\ [][SwrNext]_swrVars

(***************************************************************************)
(* Properties                                                              *)
(***************************************************************************)
\* The type of the state, with one load under way at most and the lock held by the
\* one that is writing.
SwrTypeOK ==
  /\ cached \in [by : {"none", "load", "write"}, began : 0..MaxWrites, at : 0..MaxTicks]
  /\ swrState \in [epoch : 0..MaxWrites, task : 0..NLoads]
  /\ Cardinality({t \in Loads : load[t].pc \notin {"none", "done"}}) <= 1
  /\ \A t \in Loads : load[t].pc = "write" <=> lockedBy = t

\* A value written with mutate is not replaced by one that was loaded before the
\* write: what a load stores, it began to load after the last write had begun.
WriteOutlivesOlderLoad == cached.by = "load" => cached.began >= writes.stored
=============================================================================
