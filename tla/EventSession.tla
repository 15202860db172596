---------------------------- MODULE EventSession ----------------------------
(***************************************************************************)
(* One connection of the event-streaming protocol to a thread: the         *)
(* ThreadRunManager with the task that consumes the thread's stream, the   *)
(* EventStreamingSession it binds to the run the last message came from,   *)
(* the commands of a WebSocket client, and the response body of an SSE     *)
(* client.  The consumer and the command handler interleave wherever one   *)
(* of them awaits: while an event is sent, a run or a state is fetched.    *)
(*                                                                         *)
(* An event is its sequence number, its identity (what event_id is made    *)
(* of) and its channel.  Namespaces are one chain of nested subgraphs,     *)
(* 1 the outermost; 0 is the root.                                         *)
(***************************************************************************)
EXTENDS Naturals, Sequences, FiniteSets

CONSTANTS
  NStreamed,       \* how many runs the thread has
  Subs,            \* ids of subscriptions
  First,           \* the one a connection may begin with
  Filter,          \* the channels of each
  Depth,           \* how deep subgraphs nest
  MaxBuffer,       \* LSD_PROTOCOL_V2_BUFFER_SIZE
  Scenarios,       \* what may happen: the transport, how many runs others make, and
                   \* the kinds of messages the runs publish, "retry", "delete", "fail"
  MaxSource,       \* bound: messages of the runs, their ends not counted
  MaxLag,          \* bound: how far the consumer is behind the stream
  MaxCommands      \* bound: commands of the client

ASSUME EventAssumption ==
  /\ NStreamed \in Nat /\ Depth \in Nat /\ MaxBuffer \in Nat /\ First \in Subs
  /\ \A x \in Scenarios :
       /\ x.transport \in {"ws", "sse"}
       /\ x.kinds \subseteq {"values", "started", "updates", "interrupt", "error", "retry", "delete", "fail"}

VARIABLES
  transport,  \* "ws" or "sse"
  kinds,      \* what may happen
  runs,       \* the records of the runs
  retried,    \* the runs that were tried again (history)
  due,        \* the runs whose end is still to be announced on the stream
  paused,     \* the thread's state has interrupts
  tape,       \* what the thread's stream has for the consumer
  made,       \* how many source messages there were
  con,        \* the consumer task
  sess,       \* the bound session
  pend,       \* ThreadRunManager._pending_subscriptions
  com,        \* the command task
  got,        \* SSE: the ids on_event has delivered
  last,       \* the number of the last live event that was sent (history)
  out,        \* SSE: on_event has kept events for the response body
  conn,       \* the connection: "open", "closed"
  want,       \* the subscriptions the client has made (history)
  owed,       \* what each subscription is to see and was not sent yet (history)
  told,       \* the runs whose end was announced (history)
  commands    \* how many commands the client sent

eventVars == <<transport, kinds, runs, retried, due, paused, tape, made, con, sess, pend, com, got, last, out,
               conn, want, owed, told, commands>>

StreamedRuns == 1..NStreamed
Namespaces == 1..Depth
Terminal == {"completed", "failed", "interrupted"}

NoRun == 0
NoSession == [run   |-> NoRun,          \* _current_run_id and the session's run
              seq   |-> 0,              \* _next_seq
              buf   |-> <<>>,           \* _buffer
              subs  |-> [s \in Subs |-> "none"],
              ns    |-> [n \in 0..Depth |-> "none"],
              wire  |-> {},             \* _wire_started_emitted
              asked |-> FALSE,          \* _pending_interrupts
              latch |-> FALSE]          \* _terminal_lifecycle_emitted

NoMessage == [run |-> NoRun, kind |-> "none", ns |-> 0]
Waiting == [pc |-> "wait", msg |-> NoMessage, todo |-> {}]
Idle == [pc |-> "idle", sub |-> "none", since |-> 0, drain |-> {}, old |-> FALSE]

EventInit ==
  /\ \E x \in Scenarios :
        /\ transport = x.transport /\ kinds = x.kinds
        /\ runs = [r \in StreamedRuns |-> IF r <= x.others THEN "pending" ELSE "none"]
  /\ retried = {} /\ due = {} /\ paused = FALSE
  /\ tape = <<>> /\ made = 0
  /\ con = Waiting
  /\ sess = NoSession
  \* The SSE handler installs the subscription of the request body; a WebSocket
  \* client may have subscribed before there was a run.
  /\ pend \in (IF transport = "sse" THEN {{First}} ELSE {{}, {First}})
  /\ com \in (IF transport = "sse" THEN {[Idle EXCEPT !.since = n] : n \in 0..1} ELSE {Idle})
  /\ got = {} /\ last = 0 /\ out = FALSE /\ conn = "open"
  /\ want = pend /\ owed = [s \in Subs |-> {}] /\ told = {} /\ commands = 0

Bound == sess.run # NoRun
Channel(e) == IF e.kind \in {"data", "input"} THEN e.kind ELSE "lifecycle"
Matches(s, e) == Channel(e) \in Filter[s]

(***************************************************************************)
(* Sending                                                                 *)
(***************************************************************************)
Ids(events) == {e.id : e \in events}

\* on_event drops what the client has by its cursor or has been given already.
Unwanted(e) == transport = "sse" /\ (e.id \in got \/ e.seq <= com.since)

\* The sink.  A WebSocket is handed the event; an SSE request keeps it for the
\* response body.
Deliver(e) ==
  /\ got' = IF transport = "sse" /\ ~Unwanted(e) THEN got \cup {e.id} ELSE got
  /\ out' = (out \/ (transport = "sse" /\ ~Unwanted(e)))

\* Mutant of Ring: nothing is dropped.
RingNever(events) == events

\* The oldest event goes when the buffer is full.
Ring(events) ==
  IF Len(events) > MaxBuffer THEN SubSeq(events, 2, Len(events)) ELSE events

\* What the replay under way has taken from the buffer already.
Draining == Ids(com.drain)

\* _push_event on session x: buffer the event, drop the oldest one when the
\* ring is full, and send it once if an active subscription matches.
Push(x, kind, id) ==
  LET e == [seq |-> x.seq + 1, kind |-> kind, id |-> id]
      buf == Append(x.buf, e)
      lost == IF Len(buf) > MaxBuffer THEN {buf[1].id} \ Draining ELSE {}
      hit == \E s \in Subs : x.subs[s] = "active" /\ Matches(s, e)
  IN /\ sess' = [x EXCEPT !.seq = @ + 1, !.buf = Ring(buf)]
     /\ IF hit THEN Deliver(e) /\ last' = e.seq ELSE UNCHANGED <<got, out, last>>
     /\ owed' = [s \in Subs |->
                   (owed[s] \cup (IF s \in want /\ Matches(s, e) /\ ~hit THEN {id} ELSE {}))
                   \ (IF x.subs[s] = "replaying" THEN lost ELSE {})]

\* _emit_namespace_lifecycle: nothing for a status the namespace already has,
\* unless there is an error to report.
EmitLifecycle(x, n, status) ==
  IF x.ns[n] = status /\ status # "failed" THEN sess' = x /\ UNCHANGED <<got, last, out, owed, told>>
  ELSE /\ Push([x EXCEPT !.ns[n] = status], status, <<x.run, n, status, 0>>)
       /\ told' = IF n = 0 /\ status \in Terminal THEN told \cup {x.run} ELSE told

\* _register_namespaces: every prefix is open, nothing goes over the wire.
Register(x, n) == [x EXCEPT !.ns = [k \in 0..Depth |-> IF k \in 1..n THEN "started" ELSE x.ns[k]]]

(***************************************************************************)
(* The runs of the thread                                                  *)
(***************************************************************************)
runRest == <<transport, kinds, con, sess, pend, com, got, last, out, conn, want, owed, told, commands>>

\* A worker takes a run when no run of the thread is running.
StartStreamedRun(r) ==
  /\ runs[r] = "pending" /\ \A q \in StreamedRuns : runs[q] # "running"
  /\ runs' = [runs EXCEPT ![r] = "running"]
  /\ paused' = FALSE
  /\ UNCHANGED <<runRest, retried, tape, made, due>>

PublishSource(r, kind, n) ==
  /\ runs[r] = "running" /\ made < MaxSource /\ Len(tape) < MaxLag
  /\ (kind \in {"interrupt", "error"}) => (n = 0)
  /\ (kind = "started") => (n > 0)
  /\ (kind = "updates") => (n < Depth)
  /\ tape' = Append(tape, [run |-> r, kind |-> kind, ns |-> n])
  /\ made' = made + 1
  /\ UNCHANGED <<runRest, runs, retried, due, paused>>

\* The worker writes the outcome, which leaves the thread with interrupts or
\* without; a run to be retried is pending again.
EndStreamedRun(r) ==
  /\ runs[r] = "running"
  /\ \/ /\ \E status \in {"success", "error"} : runs' = [runs EXCEPT ![r] = status]
        /\ retried' = retried
     \/ /\ "retry" \in kinds /\ retried = {}
        /\ runs' = [runs EXCEPT ![r] = "pending"]
        /\ retried' = retried \cup {r}
  /\ paused' \in (IF runs'[r] = "success" THEN BOOLEAN ELSE {FALSE})
  /\ due' = due \cup {r}
  /\ UNCHANGED <<runRest, tape, made>>

\* Only then does Runs.enter announce that the run is done.
AnnounceDone(r) ==
  /\ r \in due /\ Len(tape) < MaxLag
  /\ due' = due \ {r}
  /\ tape' = Append(tape, [run |-> r, kind |-> "done", ns |-> 0])
  /\ UNCHANGED <<runRest, runs, retried, made, paused>>

\* The record of a run that is over may be deleted.
DeleteStreamedRun(r) ==
  /\ "delete" \in kinds /\ runs[r] \in {"success", "error"}
  /\ runs' = [runs EXCEPT ![r] = "gone"]
  /\ UNCHANGED <<runRest, retried, tape, made, due, paused>>

(***************************************************************************)
(* The consumer: _consume_thread_stream                                    *)
(***************************************************************************)
consumerRest == <<transport, kinds, want, runs, retried, due, paused, made, conn, commands>>

TakeMessage ==
  /\ con.pc = "wait" /\ tape # <<>> /\ conn = "open"
  /\ con' = [con EXCEPT !.msg = Head(tape),
                        !.pc = IF Head(tape).run = sess.run THEN "handle" ELSE "fetch"]
  /\ tape' = Tail(tape)
  /\ UNCHANGED <<consumerRest, sess, pend, com, got, last, out, owed, told>>

\* Mutant of NewSession: the numbers start again.
NewSessionFromZero(r) ==
  [NoSession EXCEPT !.run = r,
                    !.subs = [s \in Subs |-> IF s \in pend \/ sess.subs[s] # "none"
                                             THEN "active" ELSE "none"]]

\* The successor goes on with the numbers and has every subscription of its
\* predecessor, and those that came before there was a session, active.
NewSession(r) ==
  [NoSession EXCEPT !.run = r, !.seq = sess.seq,
                    !.subs = [s \in Subs |-> IF s \in pend \/ sess.subs[s] # "none"
                                             THEN "active" ELSE "none"]]

\* What the buffer still has to replay behind a cursor.
Drain(s, since) ==
  {e \in {sess.buf[i] : i \in DOMAIN sess.buf} : since < e.seq /\ Matches(s, e)}

\* How far the client will be when it has what the replay took.
Horizon ==
  LET seqs == {com.since} \cup {e.seq : e \in com.drain}
  IN CHOOSE n \in seqs : \A k \in seqs : k <= n

\* A replay under way goes on with the buffer of the old session.
ReplayOfOld ==
  IF com.pc # "replay" \/ com.old THEN com
  ELSE [com EXCEPT !.old = TRUE, !.drain = @ \cup Drain(com.sub, Horizon)]

\* _ensure_run_session_for_id: a message of another run.  A run that is gone is
\* passed over; otherwise a new session is bound, which tells that it runs.
BindRun ==
  /\ con.pc = "fetch" /\ conn = "open"
  /\ IF runs[con.msg.run] = "gone"
     THEN /\ con' = Waiting
          /\ UNCHANGED <<sess, pend, com, got, last, out, owed, told>>
     ELSE /\ con' = [con EXCEPT !.pc = "handle"]
          /\ pend' = {}
          /\ com' = ReplayOfOld
          /\ EmitLifecycle(NewSession(con.msg.run), 0, "running")
  /\ UNCHANGED <<consumerRest, tape>>

\* A message that makes at most one event.
HandleOne ==
  /\ con.pc = "handle" /\ conn = "open"
  /\ LET m == con.msg IN
     \/ /\ m.kind = "values"
        /\ Push(Register(sess, m.ns), "data", <<m.run, m.ns, "data", sess.seq>>)
        /\ UNCHANGED told
     \* _emit_namespace_started: once for each namespace
     \/ /\ m.kind = "started" /\ m.ns \notin sess.wire
        /\ Push([sess EXCEPT !.wire = @ \cup {m.ns}, !.ns[m.ns] = "started"],
                "started", <<m.run, m.ns, "started", 0>>)
        /\ UNCHANGED told
     \/ /\ m.kind = "started" /\ m.ns \in sess.wire
        /\ UNCHANGED <<sess, got, last, out, owed, told>>
     \/ /\ m.kind = "error"
        /\ EmitLifecycle([sess EXCEPT !.latch = TRUE], 0, "failed")
     \* an interrupt that is pending already
     \/ /\ m.kind = "interrupt" /\ sess.asked
        /\ UNCHANGED <<sess, got, last, out, owed, told>>
     \* the end was announced already
     \/ /\ m.kind = "done" /\ sess.latch
        /\ UNCHANGED <<sess, got, last, out, owed, told>>
  /\ con' = Waiting
  /\ UNCHANGED <<consumerRest, tape, pend, com>>

\* updates: the event, then the child namespace it closes; interrupt: the
\* input request, then the root's status.
HandleTwo ==
  /\ con.pc = "handle" /\ conn = "open"
  /\ LET m == con.msg IN
     \/ /\ m.kind = "updates"
        /\ Push(Register(sess, m.ns), "data", <<m.run, m.ns, "data", sess.seq>>)
        /\ con' = IF sess.ns[m.ns + 1] = "started"
                  THEN [Waiting EXCEPT !.pc = "push", !.todo = {<<m.ns + 1, "completed">>}]
                  ELSE Waiting
     \/ /\ m.kind = "interrupt" /\ ~sess.asked
        /\ Push([sess EXCEPT !.asked = TRUE, !.latch = TRUE], "input", <<m.run, m.ns, "input", 0>>)
        /\ con' = [Waiting EXCEPT !.pc = "push", !.todo = {<<0, "interrupted">>}]
  /\ UNCHANGED <<consumerRest, tape, pend, com, told>>

\* _complete_stale_namespaces, the deepest first (PushNext), then the root.
Cascade(status) ==
  {<<n, "completed">> : n \in {k \in Namespaces : sess.ns[k] = "started"}} \cup {<<0, status>>}

\* to_lifecycle_status and _resolve_effective_status: a success is told as an
\* interrupt when the thread's state has one now.
EffectiveStatus(status) ==
  CASE status = "success" -> IF paused THEN "interrupted" ELSE "completed"
    [] status = "error" -> "failed"
    [] OTHER -> "running"

\* Mutant of CompleteRun: the announcement counts as made before it is known
\* whether the run is over.
CompleteRunLatchFirst ==
  /\ con.pc = "handle" /\ conn = "open" /\ con.msg.kind = "done" /\ ~sess.latch
  /\ LET status == runs[con.msg.run] IN
     \/ /\ status = "gone"
        /\ sess' = [sess EXCEPT !.latch = TRUE]
        /\ con' = Waiting
     \/ /\ EffectiveStatus(status) = "running" /\ status # "gone"
        /\ sess' = [sess EXCEPT !.latch = TRUE]
        /\ con' = Waiting
     \/ /\ EffectiveStatus(status) # "running"
        /\ sess' = [sess EXCEPT !.latch = TRUE]
        /\ con' = [Waiting EXCEPT !.pc = "push", !.todo = Cascade(EffectiveStatus(status))]
  /\ UNCHANGED <<consumerRest, tape, pend, com, got, last, out, owed, told>>

\* run_done: _emit_terminal_lifecycle reads the record; one that is gone, or
\* cannot be read, ends the announcements of the run.
CompleteRun ==
  /\ con.pc = "handle" /\ conn = "open" /\ con.msg.kind = "done" /\ ~sess.latch
  /\ LET status == runs[con.msg.run] IN
     \/ /\ status = "gone"
        /\ sess' = [sess EXCEPT !.latch = TRUE]
        /\ con' = Waiting
     \/ /\ EffectiveStatus(status) = "running" /\ status # "gone"
        /\ sess' = sess
        /\ con' = Waiting
     \/ /\ EffectiveStatus(status) # "running"
        /\ sess' = [sess EXCEPT !.latch = TRUE]
        /\ con' = [Waiting EXCEPT !.pc = "push", !.todo = Cascade(EffectiveStatus(status))]
  /\ UNCHANGED <<consumerRest, tape, pend, com, got, last, out, owed, told>>

Deepest == CHOOSE c \in con.todo : \A d \in con.todo : d[1] <= c[1]

PushNext ==
  /\ con.pc = "push" /\ conn = "open"
  /\ EmitLifecycle(sess, Deepest[1], Deepest[2])
  /\ con' = IF con.todo = {Deepest} THEN Waiting ELSE [con EXCEPT !.todo = @ \ {Deepest}]
  /\ UNCHANGED <<consumerRest, tape, pend, com>>

\* join_event_streaming, or fetching a run, raises: the consumer is over.
FailConsumer ==
  /\ con.pc \in {"wait", "fetch"} /\ conn = "open" /\ "fail" \in kinds
  /\ con' = [Waiting EXCEPT !.pc = "over"]
  /\ UNCHANGED <<consumerRest, tape, sess, pend, com, got, last, out, owed, told>>

(***************************************************************************)
(* Commands of a WebSocket client, one after the other                     *)
(***************************************************************************)
Command ==
  /\ transport = "ws" /\ conn = "open" /\ con.pc # "over" /\ com.pc = "idle" /\ commands < MaxCommands
  /\ commands' = commands + 1

commandRest == <<transport, kinds, retried, due, paused, tape, made, con, conn, told>>

\* run.start: create_valid_run makes a run, which the consumer will meet.
StartRunCommand(r) ==
  /\ Command /\ runs[r] = "none"
  /\ runs' = [runs EXCEPT ![r] = "pending"]
  /\ UNCHANGED <<commandRest, want, sess, pend, com, got, last, out, owed>>

\* input.respond: the same, for an interrupt the session has asked for or the
\* thread's state has ...
Respond(r) ==
  /\ Command /\ runs[r] = "none" /\ (sess.asked \/ paused)
  /\ runs' = [runs EXCEPT ![r] = "pending"]
  /\ com' = [com EXCEPT !.pc = "respond"]
  /\ UNCHANGED <<commandRest, want, sess, pend, got, last, out, owed>>

\* ... which the session that is bound when the run is made no longer waits for.
ClearInterrupt ==
  /\ com.pc = "respond" /\ conn = "open"
  /\ com' = Idle
  /\ sess' = [sess EXCEPT !.asked = FALSE]
  /\ UNCHANGED <<commandRest, want, commands, runs, pend, got, last, out, owed>>

\* subscription.subscribe before there is a session.
BufferSubscribe(s) ==
  /\ Command /\ ~Bound /\ s \notin pend
  /\ pend' = pend \cup {s} /\ want' = want \cup {s}
  /\ UNCHANGED <<commandRest, runs, sess, com, got, last, out, owed>>

\* install_subscription_with_replay: the subscription is inactive while what the
\* buffer holds behind the cursor is sent.
Install(s, since) ==
  LET drain == Drain(s, since) IN
  /\ owed' = [owed EXCEPT ![s] = Ids(drain)] /\ want' = want \cup {s}
  /\ IF drain = {}
     THEN sess' = [sess EXCEPT !.subs[s] = "active"] /\ com' = com
     ELSE /\ sess' = [sess EXCEPT !.subs[s] = "replaying"]
          /\ com' = [pc |-> "replay", sub |-> s, since |-> since, drain |-> drain, old |-> FALSE]

Subscribe(s) ==
  /\ Command /\ Bound /\ sess.subs[s] = "none"
  /\ Install(s, 0)
  /\ UNCHANGED <<commandRest, runs, pend, got, last, out>>

\* The buffer no longer has the event behind the cursor.
ResumeGap(since) == sess.buf # <<>> /\ since + 1 < sess.buf[1].seq

Reconnect(s, since) ==
  /\ Command /\ Bound /\ sess.subs[s] = "none" /\ ~ResumeGap(since)
  /\ Install(s, since)
  /\ UNCHANGED <<commandRest, runs, pend, got, last, out>>

RefuseReconnect(since) ==
  /\ Command /\ Bound /\ ResumeGap(since)
  /\ UNCHANGED <<commandRest, want, runs, sess, pend, com, got, last, out, owed>>

Unsubscribe(s) ==
  /\ Command
  /\ want' = want \ {s}
  /\ \/ /\ ~Bound /\ s \in pend
        /\ pend' = pend \ {s}
        /\ UNCHANGED <<sess, owed>>
     \/ /\ Bound /\ sess.subs[s] # "none"
        /\ sess' = [sess EXCEPT !.subs[s] = "none"]
        /\ owed' = [owed EXCEPT ![s] = {}]
        /\ UNCHANGED pend
  /\ UNCHANGED <<commandRest, runs, com, got, last, out>>

NextToReplay == CHOOSE e \in com.drain : \A d \in com.drain : e.seq <= d.seq

ReplaySend ==
  /\ com.pc = "replay" /\ com.drain # {} /\ conn = "open"
  /\ Deliver(NextToReplay)
  /\ owed' = [s \in Subs |-> owed[s] \ {NextToReplay.id}]
  /\ com' = [com EXCEPT !.since = NextToReplay.seq, !.drain = @ \ {NextToReplay}]
  /\ UNCHANGED <<commandRest, want, commands, runs, sess, pend, last>>

\* Mutant of ReplayEnd: the horizon is not extended.
ReplayEndAtOnce ==
  /\ com.pc = "replay" /\ com.drain = {} /\ conn = "open"
  /\ com' = Idle
  /\ sess' = IF com.old THEN sess ELSE [sess EXCEPT !.subs[com.sub] = "active"]
  /\ UNCHANGED <<commandRest, want, commands, runs, pend, got, last, out, owed>>

\* Events may have come while the replay was sent: the horizon moves until
\* there is nothing left, then the subscription is live.  When the session was
\* replaced meanwhile, its successor has the subscription already.
ReplayEnd ==
  /\ com.pc = "replay" /\ com.drain = {} /\ conn = "open"
  /\ LET drain == Drain(com.sub, com.since) IN
     IF ~com.old /\ drain # {}
     THEN com' = [com EXCEPT !.drain = drain] /\ sess' = sess
     ELSE /\ com' = Idle
          /\ sess' = IF com.old THEN sess ELSE [sess EXCEPT !.subs[com.sub] = "active"]
  /\ UNCHANGED <<commandRest, want, commands, runs, pend, got, last, out, owed>>

(***************************************************************************)
(* The end of the connection                                               *)
(***************************************************************************)
\* body_iter hands over what on_event has kept.
DrainBody ==
  /\ conn = "open" /\ out
  /\ out' = FALSE
  /\ UNCHANGED <<transport, kinds, runs, retried, due, paused, tape, made, con, sess, pend,
                 com, got, last, conn, want, owed, told, commands>>

\* ThreadRunManager.close: what the connection had goes with it.
CloseManager ==
  /\ con' = [Waiting EXCEPT !.pc = "over"]
  /\ sess' = NoSession /\ pend' = {} /\ com' = Idle /\ tape' = <<>>
  /\ got' = {} /\ last' = 0 /\ want' = {} /\ owed' = [s \in Subs |-> {}]
  /\ UNCHANGED <<transport, kinds, runs, retried, due, paused, made, told, commands>>

\* The consumer is over: body_iter drains a last time and ends, the watchdog
\* closes the socket.
EndConnection ==
  /\ conn = "open" /\ con.pc = "over"
  /\ conn' = "closed" /\ out' = FALSE
  /\ CloseManager

\* The client goes: the consumer is cancelled.
ClientLeaves ==
  /\ conn = "open" /\ con.pc # "over" /\ "fail" \in kinds
  /\ conn' = "left" /\ out' = FALSE
  /\ CloseManager

ConsumerStep ==
  \/ TakeMessage \/ BindRun \/ HandleOne \/ HandleTwo \/ CompleteRun
  \/ PushNext

CommandStep ==
  \/ \E r \in StreamedRuns : StartRunCommand(r) \/ Respond(r)
  \/ \E s \in Subs : BufferSubscribe(s) \/ Subscribe(s) \/ Unsubscribe(s)
  \/ \E s \in Subs, n \in 0..1 : Reconnect(s, n)
  \/ \E n \in 0..1 : RefuseReconnect(n)

RunStep ==
  /\ conn = "open" /\ con.pc # "over"
  /\ \E r \in StreamedRuns :
        \/ StartStreamedRun(r) \/ EndStreamedRun(r)
        \/ AnnounceDone(r) \/ DeleteStreamedRun(r)
        \/ \E kind \in kinds \ {"retry", "delete", "fail"}, n \in 0..Depth :
              PublishSource(r, kind, n)
EventNext ==
  \/ ConsumerStep \/ FailConsumer \/ CommandStep \/ RunStep
  \/ ReplaySend \/ ReplayEnd \/ ClearInterrupt
  \/ DrainBody \/ EndConnection \/ ClientLeaves

\* The event loop runs the consumer, the response body and the watchdog.
EventSpec ==
  /\ EventInit /\ [][EventNext]_eventVars
  /\ WF_eventVars(ConsumerStep) /\ WF_eventVars(DrainBody) /\ WF_eventVars(EndConnection)

(***************************************************************************)
(* Properties                                                              *)
(***************************************************************************)
\* The type of the state of a connection.
EventTypeOK ==
  /\ runs \in [StreamedRuns -> {"none", "pending", "running", "success", "error", "gone"}]
  /\ con.pc \in {"wait", "fetch", "handle", "push", "over"}
  /\ com.pc \in {"idle", "replay", "respond"}
  /\ sess.subs \in [Subs -> {"none", "replaying", "active"}]
  /\ sess.ns \in [0..Depth -> {"none", "started", "running"} \cup Terminal]
  /\ Len(sess.buf) <= MaxBuffer
  /\ told \subseteq StreamedRuns
  /\ conn \in {"open", "closed", "left"}

\* A subscription that is live has been sent every event it matches, whatever
\* came while its replay was under way or while the session was replaced; only
\* what the ring dropped during the replay is missing.
NoEventMissed ==
  \A s \in Subs :
     (s \in want /\ Bound /\ ~(com.pc = "replay" /\ com.sub = s))
        => owed[s] = {}

\* Live events reach the client in the order of their numbers, also when the
\* connection moves from one run to the next: its cursor never goes back.
LiveInOrder == [][conn' = "open" => last' >= last]_eventVars

\* No subgraph is open on the wire when the root has completed, unless the run
\* was tried again: the end of its first attempt may be met when the record
\* already has the outcome of the second.
RootCompletesLast ==
  (sess.ns[0] = "completed" /\ sess.run \notin retried) => \A n \in Namespaces : sess.ns[n] # "started"

\* The client learns of the end of every run whose record is kept, in whichever
\* order the messages of the thread's runs come.
EndIsTold ==
  \A r \in StreamedRuns :
     (runs[r] \in {"success", "error"} /\ r \notin due)
        ~> (r \in told \/ runs[r] = "gone" \/ con.pc = "over")

\* When the thread's stream fails the client is not left with a connection that
\* will never deliver anything, and gets what was accepted for it.
FailureIsSeen ==
  (con.pc = "over" /\ conn = "open") ~> (conn = "closed" /\ ~out)
=============================================================================
