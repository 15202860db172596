------------------------------ MODULE RunStream ------------------------------
(***************************************************************************)
(* The output of one run on its way to the clients of the in-memory        *)
(* runtime: the StreamManager with a queue per subscriber and the stored   *)
(* messages of a resumable run, Runs.Stream (subscribe, join, publish),    *)
(* Threads.Stream (a watcher of the whole thread), and the request         *)
(* handlers that create a run and stream it, wait for it or join it.       *)
(*                                                                         *)
(* A message is known by its position in the order of publication; its id  *)
(* is the millisecond it was published in, so that neighbours may share    *)
(* one.  Its kind is what _run_result_body tells apart.                    *)
(***************************************************************************)
EXTENDS Naturals, Sequences, FiniteSets

CONSTANTS
  Creators,      \* requests that create the run: stream_run, wait_run
  Joiners,       \* requests that join it: join_run, join_run_stream
  Watchers,      \* connections that watch the thread: Threads.Stream.join
  Cancelling,    \* the clients with on_disconnect == "cancel"
  Kinds,         \* the kinds of messages the run publishes
  MaxMessages,   \* bound: how many of them
  MaxMillis,     \* bound: how often the millisecond changes
  MaxClients,    \* bound: how many clients appear
  Options        \* the runs a client may ask for: a resumable one keeps its messages
                 \* for a replay, the record of a temporary one goes when it ends

ASSUME RunStreamAssumption ==
  /\ Creators \cap Joiners = {} /\ (Creators \cup Joiners) \cap Watchers = {}
  /\ "done" \notin Kinds
  /\ MaxMessages \in Nat /\ MaxMillis \in Nat \ {0}
  /\ Options \subseteq [resumable : BOOLEAN, temporary : BOOLEAN]

VARIABLES
  opt,       \* the run's options
  rec,       \* status of the run's record
  wk,        \* the worker: "none", "executing", "settled", "left"
  msgs,      \* every message published, in order
  ms,        \* the current millisecond
  subs,      \* the clients with a queue in StreamManager.queues
  chan,      \* their queues: positions in msgs
  cl,        \* the clients: where they are and what they have seen
  dropTask   \* a cancel_run task that a disconnect has created

streamVars == <<opt, rec, wk, msgs, ms, subs, chan, cl, dropTask>>

RunClients == Creators \cup Joiners
Clients == RunClients \cup Watchers

\* No last-event-id was given.  A replay of everything names the id 0.
NoId == MaxMillis + 1

Message == [id : 0..MaxMillis, kind : Kinds \cup {"done"}]
Client == [pc   : {"idle", "creating", "joining", "replay", "live", "closed", "left", "failed"},
           last : 0..NoId,
           at   : 0..MaxMessages + 1,
           from : 0..MaxMessages + 1,
           found: BOOLEAN,
           seen : Seq(1..MaxMessages + 1)]

\* The type of every variable.
StreamTypeOK ==
  /\ opt \in Options
  /\ rec \in {"none", "pending", "running", "success", "error", "interrupted", "deleted"}
  /\ wk \in {"none", "executing", "settled", "left"}
  /\ msgs \in Seq(Message) /\ Len(msgs) <= MaxMessages + 1
  /\ ms \in 0..MaxMillis
  /\ subs \subseteq Clients
  /\ chan \in [Clients -> Seq(1..MaxMessages + 1)]
  /\ cl \in [Clients -> Client]
  /\ dropTask \in BOOLEAN

StreamInit ==
  /\ opt \in Options
  /\ rec = "none" /\ wk = "none" /\ msgs = <<>> /\ ms = 1
  /\ subs = {} /\ chan = [c \in Clients |-> <<>>]
  /\ cl = [c \in Clients |-> [pc |-> "idle", last |-> NoId, at |-> 0, from |-> 0,
                              found |-> FALSE, seen |-> <<>>]]
  /\ dropTask = FALSE

Appears(c) ==
  /\ cl[c].pc = "idle"
  /\ Cardinality({d \in Clients : cl[d].pc # "idle"}) < MaxClients

Exists == rec \notin {"none", "deleted"}
ActiveRun == rec \in {"pending", "running"}

(***************************************************************************)
(* StreamManager                                                           *)
(***************************************************************************)
\* put stores the message of a resumable run ...
Stored == IF opt.resumable THEN msgs ELSE <<>>

\* Mutant of Put: the queues are stacks.
PutFirst(kind) ==
  /\ msgs' = Append(msgs, [id |-> ms, kind |-> kind])
  /\ chan' = [c \in Clients |->
                IF c \in subs THEN <<Len(msgs) + 1>> \o chan[c] ELSE chan[c]]

\* ... and hands it to every queue of the run.
Put(kind) ==
  /\ msgs' = Append(msgs, [id |-> ms, kind |-> kind])
  /\ chan' = [c \in Clients |->
                IF c \in subs THEN Append(chan[c], Len(msgs) + 1) ELSE chan[c]]

AddQueue(c) == subs' = subs \cup {c} /\ chan' = [chan EXCEPT ![c] = <<>>]
RemoveQueue(c) == subs' = subs \ {c} /\ chan' = [chan EXCEPT ![c] = <<>>]

\* restore_messages: what is stored behind the given id, in the order of the store.
Restored(last) ==
  IF last = NoId THEN <<>>
  ELSE LET later == {n \in 1..Len(Stored) : Stored[n].id > last}
       IN  [i \in 1..Cardinality(later) |-> CHOOSE n \in later : Cardinality({m \in later : m <= n}) = i]

(***************************************************************************)
(* The worker                                                              *)
(***************************************************************************)
StartRun ==
  /\ rec = "pending" /\ wk = "none"
  /\ rec' = "running" /\ wk' = "executing"
  /\ UNCHANGED <<opt, msgs, ms, subs, chan, cl, dropTask>>

Publish ==
  /\ wk = "executing" /\ Len(msgs) < MaxMessages
  /\ \E kind \in Kinds : Put(kind)
  /\ UNCHANGED <<opt, rec, wk, ms, subs, cl, dropTask>>

\* The outcome is written when everything is published; a cancelled run keeps
\* what Runs.cancel wrote, a stateless one goes.
SettleRun ==
  /\ wk = "executing"
  /\ wk' = "settled"
  /\ rec' = IF opt.temporary THEN "deleted"
            ELSE IF rec # "running" THEN rec
            ELSE IF Len(msgs) > 0 /\ msgs[Len(msgs)].kind = "error" THEN "error"
            ELSE "success"
  /\ UNCHANGED <<opt, msgs, ms, subs, chan, cl, dropTask>>

\* Mutant of SignalDone: the worker does not leave after the signal.
SignalDoneAgain ==
  /\ wk = "settled"
  /\ Put("done")
  /\ UNCHANGED <<opt, rec, wk, ms, subs, cl, dropTask>>

\* Runs.enter signals the end to the subscribers as the last message.
SignalDone ==
  /\ wk = "settled"
  /\ wk' = "left"
  /\ Put("done")
  /\ UNCHANGED <<opt, rec, ms, subs, cl, dropTask>>

NextMillisecond ==
  /\ wk = "executing" /\ ms < MaxMillis /\ ms' = ms + 1
  /\ UNCHANGED <<opt, rec, wk, msgs, subs, chan, cl, dropTask>>

(***************************************************************************)
(* Requests that change the record                                         *)
(***************************************************************************)
\* Runs.cancel with action "interrupt"; the worker learns of it and settles later.
CancelRun ==
  /\ ActiveRun
  /\ rec' = "interrupted"
  /\ UNCHANGED <<opt, wk, msgs, ms, subs, chan, cl, dropTask>>

DeleteRecord ==
  /\ Exists
  /\ rec' = "deleted"
  /\ UNCHANGED <<opt, wk, msgs, ms, subs, chan, cl, dropTask>>

\* The task of a disconnect: nothing to cancel is an error nobody hears of.
CancelTask ==
  /\ dropTask
  /\ dropTask' = FALSE
  /\ rec' = IF ActiveRun THEN "interrupted" ELSE rec
  /\ UNCHANGED <<opt, wk, msgs, ms, subs, chan, cl>>

(***************************************************************************)
(* Runs.Stream: the clients of the run                                     *)
(***************************************************************************)
\* stream_run and wait_run subscribe before they create the run.
SubscribeFirst(c) ==
  /\ Appears(c) /\ rec = "none" /\ subs \cap Creators = {}
  /\ AddQueue(c)
  /\ cl' = [cl EXCEPT ![c].pc = "creating", ![c].from = Len(msgs)]
  /\ UNCHANGED <<opt, rec, wk, msgs, ms, dropTask>>

CreateThenJoin(c) ==
  /\ cl[c].pc = "creating"
  /\ rec' = "pending"
  /\ cl' = [cl EXCEPT ![c].pc = "joining"]
  /\ UNCHANGED <<opt, wk, msgs, ms, subs, chan, dropTask>>

\* When the creation fails, ContextQueue.__aexit__ empties the queue, which stays.
CreationFails(c) ==
  /\ cl[c].pc = "creating"
  /\ cl' = [cl EXCEPT ![c].pc = "failed"]
  /\ UNCHANGED <<opt, rec, wk, msgs, ms, subs, chan, dropTask>>

\* join_run and join_run_stream; a last-event-id is an id the client was sent.
SubscribeLate(c) ==
  /\ Appears(c) /\ rec # "none"
  /\ AddQueue(c)
  /\ \E last \in {0, NoId} \cup {msgs[n].id : n \in 1..Len(msgs)} :
       cl' = [cl EXCEPT ![c].pc = "joining", ![c].last = last, ![c].from = Len(msgs)]
  /\ UNCHANGED <<opt, rec, wk, msgs, ms, dropTask>>

\* join looks at the record once before the replay.
Join(c) ==
  /\ cl[c].pc = "joining"
  /\ cl' = [cl EXCEPT ![c].pc = "replay", ![c].found = Exists]
  /\ UNCHANGED <<opt, rec, wk, msgs, ms, subs, chan, dropTask>>

Close(c, how) ==
  /\ RemoveQueue(c)
  /\ cl' = [cl EXCEPT ![c].pc = how]

\* One turn of the replay loop; the loop runs over the live list.
Replay(c) ==
  /\ cl[c].pc = "replay"
  /\ LET at == cl[c].at + 1 IN
       \/ /\ (cl[c].last = NoId \/ at > Len(Stored))
          /\ cl' = [cl EXCEPT ![c].pc = "live"]
          /\ UNCHANGED <<subs, chan>>
       \/ /\ cl[c].last # NoId /\ at <= Len(Stored)
          /\ Stored[at].id > cl[c].last /\ Stored[at].kind = "done"
          /\ Close(c, "closed")
       \/ /\ cl[c].last # NoId /\ at <= Len(Stored)
          /\ (Stored[at].id <= cl[c].last \/ Stored[at].kind # "done")
          /\ cl' = [cl EXCEPT ![c].at = at,
                              ![c].seen = IF Stored[at].id > cl[c].last THEN Append(@, at) ELSE @]
          /\ UNCHANGED <<subs, chan>>
  /\ UNCHANGED <<opt, rec, wk, msgs, ms, dropTask>>

\* A message from the queue.  Without a record there is nothing to ask whether the
\* run is resumable: the stream ends with an exception.
Receive(c) ==
  /\ cl[c].pc = "live" /\ chan[c] # <<>>
  /\ LET n == Head(chan[c]) IN
       \/ /\ msgs[n].kind = "done"
          /\ Close(c, "closed") /\ UNCHANGED dropTask
       \/ /\ msgs[n].kind # "done" /\ cl[c].found
          /\ chan' = [chan EXCEPT ![c] = Tail(@)]
          /\ cl' = [cl EXCEPT ![c].seen = Append(@, n)]
          /\ UNCHANGED <<subs, dropTask>>
       \/ /\ msgs[n].kind # "done" /\ ~cl[c].found
          /\ Close(c, "failed")
          /\ dropTask' = (dropTask \/ c \in Cancelling)
  /\ UNCHANGED <<opt, rec, wk, msgs, ms>>

\* Mutant of IdleCheck: the record is asked although messages are waiting.
IdleCheckHasty(c) ==
  /\ cl[c].pc = "live" /\ ~ActiveRun
  /\ Close(c, "closed")
  /\ UNCHANGED <<opt, rec, wk, msgs, ms, dropTask>>

\* Mutant of IdleCheck: a run without a record is taken for one that goes on.
IdleCheckPatient(c) ==
  /\ cl[c].pc = "live" /\ chan[c] = <<>>
  /\ ~ActiveRun /\ Exists
  /\ Close(c, "closed")
  /\ UNCHANGED <<opt, rec, wk, msgs, ms, dropTask>>

\* Half a second without a message: the record decides whether to go on.
IdleCheck(c) ==
  /\ cl[c].pc = "live" /\ chan[c] = <<>>
  /\ \/ /\ ~ActiveRun
        /\ Close(c, "closed")
     \/ /\ ActiveRun /\ ~cl[c].found
        /\ cl' = [cl EXCEPT ![c].found = TRUE]
        /\ UNCHANGED <<subs, chan>>
  /\ UNCHANGED <<opt, rec, wk, msgs, ms, dropTask>>

\* Mutant of Disconnect: on_disconnect is not looked at.
DisconnectOnly(c) ==
  /\ cl[c].pc \in {"replay", "live"}
  /\ Close(c, "left")
  /\ UNCHANGED <<opt, rec, wk, msgs, ms, dropTask>>

Disconnect(c) ==
  /\ cl[c].pc \in {"replay", "live"}
  /\ Close(c, "left")
  /\ dropTask' = (dropTask \/ c \in Cancelling)
  /\ UNCHANGED <<opt, rec, wk, msgs, ms>>

(***************************************************************************)
(* Threads.Stream: the watchers of the thread                              *)
(***************************************************************************)
\* With a last-event-id the stored messages are collected at once and then handed
\* out one by one; only then does the loop subscribe.
WatchThread(c) ==
  /\ Appears(c)
  /\ \E last \in {0, NoId} :
       /\ cl' = [cl EXCEPT ![c].pc = "replay", ![c].last = last, ![c].from = Len(msgs)]
       /\ chan' = [chan EXCEPT ![c] = Restored(last)]
  /\ UNCHANGED <<opt, rec, wk, msgs, ms, subs, dropTask>>

HandOut(c) ==
  /\ cl[c].pc \in {"replay", "live"} /\ chan[c] # <<>>
  /\ chan' = [chan EXCEPT ![c] = Tail(@)]
  /\ cl' = [cl EXCEPT ![c].seen = Append(@, Head(chan[c]))]
  /\ UNCHANGED <<opt, rec, wk, msgs, ms, subs, dropTask>>

\* A turn of the loop subscribes to the runs it has not seen.
SubscribeUnseen(c) ==
  /\ cl[c].pc = "replay" /\ chan[c] = <<>> /\ Exists
  /\ subs' = subs \cup {c}
  /\ cl' = [cl EXCEPT ![c].pc = "live", ![c].from = Len(msgs)]
  /\ UNCHANGED <<opt, rec, wk, msgs, ms, chan, dropTask>>

StopWatching(c) ==
  /\ cl[c].pc \in {"replay", "live"}
  /\ Close(c, "left")
  /\ UNCHANGED <<opt, rec, wk, msgs, ms, dropTask>>

(***************************************************************************)
ClientStep(c) == Join(c) \/ Replay(c) \/ Receive(c) \/ IdleCheck(c)
\* A run may execute as long as it likes unless it is cancelled.
WorkerStep == StartRun \/ (rec = "interrupted" /\ SettleRun) \/ SignalDone

StreamNext ==
  \/ StartRun \/ Publish \/ SettleRun \/ SignalDone \/ NextMillisecond
  \/ CancelRun \/ DeleteRecord \/ CancelTask
  \/ \E c \in Creators : SubscribeFirst(c) \/ CreateThenJoin(c) \/ CreationFails(c)
  \/ \E c \in Joiners : SubscribeLate(c)
  \/ \E c \in RunClients : Join(c) \/ Replay(c) \/ Receive(c) \/ IdleCheck(c) \/ Disconnect(c)
  \/ \E c \in Watchers : WatchThread(c) \/ HandOut(c) \/ SubscribeUnseen(c) \/ StopWatching(c)

StreamSpec == StreamInit /\ [][StreamNext]_streamVars

\* The event loop gets round to every client and to the worker; time passes.
StreamFairSpec ==
  /\ StreamSpec
  /\ WF_streamVars(WorkerStep) /\ WF_streamVars(CancelTask)
  /\ \A c \in RunClients : WF_streamVars(ClientStep(c))

(***************************************************************************)
(* What a waiting request answers (_run_result_body)                       *)
(***************************************************************************)
\* Mutant of Answer: an interrupt takes precedence over an error.
AnswerInterruptFirst(seen) ==
  LET kind(i) == msgs[seen[i]].kind
      telling == {i \in 1..Len(seen) : kind(i) \in {"values", "interrupt", "error"}}
      final == CHOOSE i \in telling : \A j \in telling : j <= i
  IN  IF telling = {} THEN "fallback"
      ELSE IF \E i \in telling : kind(i) = "interrupt" THEN "interrupt"
      ELSE kind(final)

\* The last chunk that carries values, an interrupt or an error; without an error
\* the interrupts take precedence, merged into one answer.
Answer(seen) ==
  LET kind(i) == msgs[seen[i]].kind
      telling == {i \in 1..Len(seen) : kind(i) \in {"values", "interrupt", "error"}}
      final == CHOOSE i \in telling : \A j \in telling : j <= i
      sawError == \E i \in telling : kind(i) = "error"
  IN  IF telling = {} THEN "fallback"
      ELSE IF ~sawError /\ \E i \in telling : kind(i) = "interrupt" THEN "interrupt"
      ELSE kind(final)

(***************************************************************************)
(* Properties                                                              *)
(***************************************************************************)
\* What a client of the run is sent has no hole: behind a message comes the next one,
\* or, where the live queue takes over from a replay, one that was sent before.  A
\* client without a replay is sent every message once, and so is a watcher of the
\* thread from the moment it has subscribed.
NoHole ==
  /\ \A c \in RunClients : \A i \in 1..(Len(cl[c].seen) - 1) :
       LET this == cl[c].seen[i]
           next == cl[c].seen[i + 1]
       IN  next = this + 1 \/ (next <= this /\ cl[c].last # NoId)
  /\ \A c \in Watchers : cl[c].last = NoId =>
       \A i \in 1..(Len(cl[c].seen) - 1) : cl[c].seen[i + 1] = cl[c].seen[i] + 1

Settled == rec \in {"success", "error"}

\* The messages a stream owes its client.
Due(c) == {n \in 1..Len(msgs) :
             /\ msgs[n].kind # "done"
             /\ IF opt.resumable /\ cl[c].last # NoId THEN msgs[n].id > cl[c].last ELSE n > cl[c].from}

\* A stream that ended by itself, of a run that was not cancelled, was complete: it
\* held every message since the subscription or, where a last-event-id was given, every
\* stored one with a greater id.  Neither the idle check nor the replay may cut it short.
CompleteAtEnd ==
  \A c \in RunClients : cl[c].pc = "closed" /\ Settled =>
    \A n \in Due(c) : \E i \in 1..Len(cl[c].seen) : cl[c].seen[i] = n

\* A request that waits for a run whose last message is an error answers with the
\* error, whatever interrupts it was sent before.
WaitersLearnOfErrors ==
  \A c \in Creators : cl[c].pc = "closed" /\ rec = "error" => Answer(cl[c].seen) = "error"

\* Every stream of a run ends, however the run ends: done, cancelled before it
\* started, or deleted.
StreamsEnd ==
  \A c \in RunClients :
    cl[c].pc \in {"joining", "replay", "live"} /\ ~ActiveRun /\ rec # "none"
      ~> cl[c].pc \in {"closed", "left", "failed"}

\* A client that asked for it and disconnects does stop its run: it does not stay
\* queued or running.
DisconnectStopsRun ==
  \A c \in Cancelling : cl[c].pc = "left" ~> ~ActiveRun

=============================================================================
