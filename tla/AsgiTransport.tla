---------------------------- MODULE AsgiTransport ----------------------------
(***************************************************************************)
(* A request that the server sends to itself. The caller, a graph that     *)
(* uses the SDK's client without a URL, may be on an event loop of its     *)
(* own; the application runs on the main loop. What the application does   *)
(* reaches the caller as callbacks put at the end of its loop's queue, and *)
(* so does the end of the application, by way of two chained futures.      *)
(* Cancelling the caller's future reaches the main loop in the same way.   *)
(* The body of the request is not modelled.                                *)
(***************************************************************************)
EXTENDS Naturals, Sequences

CONSTANT MaxChunks     \* bound: chunks of the response's body

VARIABLES
  raising,       \* raise_app_exceptions
  app,           \* the application: it "runs", "returned", "raised" or was "cancelled"
  answered,      \* its response: "nothing", "head", "complete"
  chunksSent,    \* chunks of the body it sent
  callbacks,     \* the queue of the caller's loop
  appFuture,     \* the caller's future for the application
  cancelAsked,   \* source.cancel is on its way to the main loop
  startedFut,    \* response_started_event
  completeFut,   \* app_complete
  bodyQueue,     \* chunks and the end of the stream
  streamClosed,
  asgiCaller         \* [pc, got, status]

atVars == <<raising, app, answered, chunksSent, callbacks, appFuture, cancelAsked,
            startedFut, completeFut, bodyQueue, streamClosed, asgiCaller>>

STREAM_END == 0

AsgiInit ==
  /\ raising \in BOOLEAN
  /\ app = "runs" /\ answered = "nothing" /\ chunksSent = 0
  /\ callbacks = <<>> /\ appFuture = "pending" /\ cancelAsked = FALSE
  /\ startedFut = "pending" /\ completeFut = "pending"
  /\ bodyQueue = <<>> /\ streamClosed = FALSE
  /\ asgiCaller = [pc |-> "waits", got |-> 0, status |-> "none"]

callerSide == <<appFuture, startedFut, completeFut, bodyQueue, streamClosed, asgiCaller>>

Schedule(cs) == callbacks' = callbacks \o cs

(***************************************************************************)
(* The application, on the main loop                                       *)
(***************************************************************************)
SendStart ==
  /\ app = "runs" /\ answered = "nothing" /\ answered' = "head"
  /\ Schedule(<<[do |-> "started", n |-> 0]>>)
  /\ UNCHANGED <<raising, app, chunksSent, cancelAsked, callerSide>>

\* The last chunk, and the end behind it.
LastBody(n) == <<[do |-> "put", n |-> n], [do |-> "close", n |-> 0]>>

SendBody ==
  /\ app = "runs" /\ answered = "head"
  /\ \/ /\ chunksSent < MaxChunks /\ chunksSent' = chunksSent + 1
        /\ \/ Schedule(<<[do |-> "put", n |-> chunksSent + 1]>>) /\ UNCHANGED answered
           \/ Schedule(LastBody(chunksSent + 1)) /\ answered' = "complete"
     \/ /\ answered' = "complete" /\ Schedule(<<[do |-> "close", n |-> 0]>>)
        /\ UNCHANGED chunksSent
  /\ UNCHANGED <<raising, app, cancelAsked, callerSide>>

\* The task ends, and the chain copies its state to the caller's future: if the
\* application was asked to stop, it may have ended by that or in another way.
AppEnds ==
  /\ app = "runs"
  /\ app' \in {"returned", "raised", "cancelled"}
  /\ Schedule(<<[do |-> "settle", n |-> 0]>>)
  /\ UNCHANGED <<raising, answered, chunksSent, cancelAsked, callerSide>>

\* source.cancel on the main loop.
CancelSource ==
  /\ cancelAsked /\ app = "runs" /\ cancelAsked' = FALSE
  /\ app' = "cancelled" /\ Schedule(<<[do |-> "settle", n |-> 0]>>)
  /\ UNCHANGED <<raising, answered, chunksSent, callerSide>>

(***************************************************************************)
(* The caller's loop                                                       *)
(***************************************************************************)
Pending(fut, outcome) == IF fut = "pending" THEN outcome ELSE fut

\* close_stream: once.
ClosedQueue == IF streamClosed THEN bodyQueue ELSE Append(bodyQueue, STREAM_END)

\* finish_app: what the caller learns of the end of the application depends on whether
\* the head of the response reached it, and whether the body was completed.
FinishedStarted ==
  CASE appFuture = "cancelled" -> Pending(startedFut, "cancelled")
    [] appFuture = "raised"    -> Pending(startedFut, "error")
    [] appFuture = "returned"  -> Pending(startedFut, "error")

FinishedComplete ==
  LET wasStarted == startedFut = "set" IN
  CASE appFuture = "cancelled" -> IF wasStarted THEN "cancelled" ELSE "ok"
    [] appFuture = "raised"    -> IF wasStarted /\ raising THEN "error" ELSE "ok"
    [] appFuture = "returned"  ->
         IF startedFut # "pending" /\ answered # "complete" THEN "error" ELSE "ok"

FinishedQueue == ClosedQueue

RunCallback ==
  /\ callbacks # <<>>
  /\ LET call == Head(callbacks).do IN
     /\ \/ /\ call = "started" /\ startedFut' = Pending(startedFut, "set")
           /\ callbacks' = Tail(callbacks)
           /\ UNCHANGED <<appFuture, completeFut, bodyQueue, streamClosed, cancelAsked>>
        \/ /\ call = "put" /\ bodyQueue' = Append(bodyQueue, Head(callbacks).n)
           /\ callbacks' = Tail(callbacks)
           /\ UNCHANGED <<appFuture, startedFut, completeFut, streamClosed, cancelAsked>>
        \/ /\ call = "close" /\ bodyQueue' = ClosedQueue /\ streamClosed' = TRUE
           /\ callbacks' = Tail(callbacks)
           /\ UNCHANGED <<appFuture, startedFut, completeFut, cancelAsked>>
        \* _copy_future_state, which schedules the callbacks of the future it completes
        \/ /\ call = "settle" /\ appFuture' = Pending(appFuture, app)
           /\ callbacks' = Tail(callbacks)
                \o (IF appFuture = "pending" THEN <<[do |-> "finish", n |-> 0]>> ELSE <<>>)
           /\ UNCHANGED <<startedFut, completeFut, bodyQueue, streamClosed, cancelAsked>>
        \/ /\ call = "finish"
           /\ startedFut' = FinishedStarted
           /\ completeFut' = Pending(completeFut, FinishedComplete)
           /\ bodyQueue' = FinishedQueue /\ streamClosed' = TRUE
           /\ callbacks' = Tail(callbacks) /\ UNCHANGED <<appFuture, cancelAsked>>
        \* _call_check_cancel
        \/ /\ call = "check" /\ cancelAsked' = TRUE /\ callbacks' = Tail(callbacks)
           /\ UNCHANGED <<appFuture, startedFut, completeFut, bodyQueue, streamClosed>>
  /\ UNCHANGED <<raising, app, answered, chunksSent, asgiCaller>>

(***************************************************************************)
(* The caller                                                              *)
(***************************************************************************)
mainSide == <<raising, app, answered, chunksSent, cancelAsked>>

\* handle_async_request, behind its await: the response, the exception, or - if
\* exceptions are not raised - a response of its own.
GetResponse ==
  /\ asgiCaller.pc = "waits" /\ startedFut # "pending"
  /\ \/ /\ startedFut = "set" /\ asgiCaller' = [asgiCaller EXCEPT !.pc = "reads", !.status = "app"]
        /\ UNCHANGED <<completeFut, bodyQueue, streamClosed>>
     \/ /\ startedFut = "cancelled" /\ asgiCaller' = [asgiCaller EXCEPT !.pc = "cancelled"]
        /\ UNCHANGED <<completeFut, bodyQueue, streamClosed>>
     \/ /\ startedFut = "error" /\ raising /\ asgiCaller' = [asgiCaller EXCEPT !.pc = "error"]
        /\ UNCHANGED <<completeFut, bodyQueue, streamClosed>>
     \/ /\ startedFut = "error" /\ ~ raising
        /\ asgiCaller' = [asgiCaller EXCEPT !.pc = "reads", !.status = "500"]
        /\ completeFut' = Pending(completeFut, "ok")
        /\ bodyQueue' = ClosedQueue /\ streamClosed' = TRUE
  /\ UNCHANGED <<mainSide, callbacks, appFuture, startedFut>>

\* ASGIResponseStream.__aiter__: chunks up to the end of the stream ...
ReadChunk ==
  /\ asgiCaller.pc = "reads" /\ bodyQueue # <<>>
  /\ bodyQueue' = Tail(bodyQueue)
  /\ asgiCaller' = IF Head(bodyQueue) = STREAM_END THEN [asgiCaller EXCEPT !.pc = "ends"]
               ELSE [asgiCaller EXCEPT !.got = @ + 1]
  /\ UNCHANGED <<mainSide, callbacks, appFuture, startedFut, completeFut, streamClosed>>

CancelCallbacks == <<[do |-> "finish", n |-> 0], [do |-> "check", n |-> 0]>>

\* aclose: the stream is closed, and a future that is not done is cancelled.
Aclose(pc) ==
  /\ asgiCaller' = [asgiCaller EXCEPT !.pc = pc]
  /\ bodyQueue' = ClosedQueue /\ streamClosed' = TRUE
  /\ IF appFuture = "pending"
     THEN /\ appFuture' = "cancelled"
          /\ callbacks' = callbacks \o CancelCallbacks
     ELSE UNCHANGED <<appFuture, callbacks>>
  /\ UNCHANGED <<mainSide, startedFut, completeFut>>

\* ... then the end of the application, of which an error is raised.
AwaitComplete ==
  /\ asgiCaller.pc = "ends" /\ completeFut # "pending"
  /\ Aclose(CASE completeFut = "ok" -> "done" [] completeFut = "error" -> "error"
              [] completeFut = "cancelled" -> "cancelled")

\* The caller stops: while it reads, the application is stopped too; while it waits for
\* the head, nobody tells the application.
CallerStops ==
  \/ asgiCaller.pc \in {"reads", "ends"} /\ Aclose("closed")
  \/ /\ asgiCaller.pc = "waits" /\ asgiCaller' = [asgiCaller EXCEPT !.pc = "gone"]
     /\ startedFut' = Pending(startedFut, "cancelled")
     /\ UNCHANGED <<mainSide, callbacks, appFuture, completeFut, bodyQueue, streamClosed>>

CallerStep == GetResponse \/ ReadChunk \/ AwaitComplete

AsgiNext ==
  SendStart \/ SendBody \/ AppEnds \/ CancelSource \/ RunCallback \/ CallerStep \/ CallerStops

AsgiSpec == AsgiInit /\ [][AsgiNext]_atVars

\* Both loops run their callbacks, the caller reads, and a cancelled task ends; nothing
\* makes an application end that nobody cancels.
AsgiFairness == WF_atVars(RunCallback) /\ WF_atVars(CallerStep) /\ WF_atVars(CancelSource)
AsgiFairSpec == AsgiSpec /\ AsgiFairness

(***************************************************************************)
(* Properties                                                              *)
(***************************************************************************)
\* A response whose body ended without an error is the whole response of an application
\* that ended well: every chunk it sent was read and it completed the body - unless
\* exceptions of the application are not to be raised and it raised one.  The caller reads
\* the application's status if the head reached it, else 500 (asgi_transport.py, 198-310).
EndedMeansWhole ==
  asgiCaller.pc = "done" =>
    \/ asgiCaller.status = "app" /\ asgiCaller.got = chunksSent /\ answered = "complete" /\ app # "raised"
    \/ ~ raising /\ app = "raised"
    \/ ~ raising /\ asgiCaller.status = "500" /\ answered = "nothing" /\ asgiCaller.got = 0

\* Once the application ended, however it did, its caller is not left waiting, for the
\* response or for the rest of the body.
CallerLearnsOfTheEnd == app # "runs" ~> asgiCaller.pc \notin {"waits", "reads", "ends"}

\* A caller that closes a response it did not read to the end stops the application.
ClosingStopsApp == asgiCaller.pc = "closed" ~> app # "runs"
=============================================================================
