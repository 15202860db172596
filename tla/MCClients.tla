------------------------------ MODULE MCClients ------------------------------
(***************************************************************************)
(* Instances of the components between the run streams and the clients:    *)
(* event-streaming sessions, the tasks and the messages of the A2A         *)
(* endpoint, the loopback transport to the custom application and the      *)
(* stream of a JavaScript graph.  They share no state, so one behaviour    *)
(* runs one of them, the one in focus, and the others stay in one of their *)
(* initial states; fairness is asked of the one in focus.                  *)
(***************************************************************************)
EXTENDS EventSession, A2ATasks, A2AMessage, AsgiTransport, JsStream

VARIABLE focus    \* the component that runs

ClientComponents == {"EventSession", "A2ATasks", "A2AMessage", "AsgiTransport", "JsStream"}

On(c) == focus = c

\* What connections to a thread may meet.
MCFilter == [s \in Subs |-> IF s = "s1" THEN {"data", "input", "lifecycle"} ELSE {"data"}]
MCScenarios ==
  {[transport |-> "ws",  others |-> 2, kinds |-> {"updates"}],
   [transport |-> "ws",  others |-> 1, kinds |-> {"interrupt"}],
   [transport |-> "ws",  others |-> 1, kinds |-> {"started", "updates"}],
   [transport |-> "ws",  others |-> 1, kinds |-> {"values", "fail"}],
   [transport |-> "sse", others |-> 2, kinds |-> {"error", "delete"}],
   [transport |-> "sse", others |-> 1, kinds |-> {"values", "fail"}],
   [transport |-> "sse", others |-> 1, kinds |-> {"started", "retry"}]}

\* The messages a client may send: what is wrong with the request, or its parts.
Plain == [http |-> "POST", body |-> "ok", id |-> "ok", method |-> "SendStreamingMessage",
          accept |-> {"json", "sse"}, message |-> "ok", parts |-> <<"text">>,
          context |-> TRUE, task |-> TRUE, command |-> "none", limit |-> 0]
PartKinds == {"text", "data", "resume", "scalar data", "file", "empty data"}
PartLists == {<<>>} \cup {<<k>> : k \in PartKinds} \cup {<<"resume", k>> : k \in {"resume", "text"}}
Malformed ==
  {[Plain EXCEPT !.http = h] : h \in {"GET", "DELETE"}}
    \cup {[Plain EXCEPT !.body = b] : b \in {"unparsable", "not an object", "no version"}}
    \cup {[Plain EXCEPT !.body = "response", !.method = "none"]}
    \cup {[Plain EXCEPT !.id = i] : i \in {"none", "object"}}
    \cup {[Plain EXCEPT !.method = x] : x \in {"none", "not a string", "unknown"}}
    \cup {[Plain EXCEPT !.accept = a] : a \in {{}, {"json"}, {"sse"}}}
    \cup {[Plain EXCEPT !.message = x] : x \in {"none", "not an object", "no id", "no role"}}
SentMessages ==
  {[Plain EXCEPT !.method = mt, !.parts = p, !.context = c, !.task = t] :
     mt \in {"SendMessage", "SendStreamingMessage"}, p \in PartLists, c \in BOOLEAN, t \in BOOLEAN}
  \cup {[Plain EXCEPT !.method = mt, !.context = c, !.command = cmd] :
     mt \in {"SendMessage", "SendStreamingMessage"}, c \in BOOLEAN, cmd \in {"resume", "other"}}
MCRequests == Malformed \cup SentMessages \cup {[Plain EXCEPT !.method = "GetTask", !.limit = n] : n \in 0..2}

MCBreaks == {<<"n">>, <<"r">>, <<"r", "n">>}

\* Where a component has several initial states, it stays in this one.
EventSessionStands ==
  /\ transport = "ws" /\ kinds = {"interrupt"} /\ runs = [r \in StreamedRuns |-> IF r = 1 THEN "pending" ELSE "none"]
  /\ pend = {} /\ com = Idle
A2AMessageStands == req = Plain /\ threadPaused = FALSE /\ schema = "messages"
AsgiStands == raising = TRUE
JsStreamStands == sent = <<>> /\ wire = <<>>

Init ==
  /\ focus \in ClientComponents
  /\ IF On("EventSession") THEN TRUE ELSE EventSessionStands
  /\ IF On("A2AMessage") THEN TRUE ELSE A2AMessageStands
  /\ IF On("AsgiTransport") THEN TRUE ELSE AsgiStands
  /\ IF On("JsStream") THEN JsStreamInit ELSE JsStreamStands /\ JsStreamInit
  /\ EventInit /\ TaskInit /\ MessageInit /\ AsgiInit

\* Every component but one stands still.
Others(c) ==
  /\ UNCHANGED focus
  /\ IF c = "EventSession" THEN TRUE ELSE UNCHANGED eventVars
  /\ IF c = "A2ATasks" THEN TRUE ELSE UNCHANGED taskVars
  /\ IF c = "A2AMessage" THEN TRUE ELSE UNCHANGED messageVars
  /\ IF c = "AsgiTransport" THEN TRUE ELSE UNCHANGED atVars
  /\ IF c = "JsStream" THEN TRUE ELSE UNCHANGED jsStreamVars

Next ==
  \/ On("EventSession") /\ EventNext /\ Others("EventSession")
  \/ On("A2ATasks") /\ TaskNext /\ Others("A2ATasks")
  \/ On("A2AMessage") /\ MessageNext /\ Others("A2AMessage")
  \/ On("AsgiTransport") /\ AsgiNext /\ Others("AsgiTransport")
  \/ On("JsStream") /\ JsStreamNext /\ Others("JsStream")

clientVars == <<focus, eventVars, taskVars, messageVars, atVars, jsStreamVars>>

\* The fairness of each module's own specification, for the component in focus.
Fairness ==
  /\ WF_eventVars(On("EventSession") /\ ConsumerStep)
  /\ WF_eventVars(On("EventSession") /\ DrainBody)
  /\ WF_eventVars(On("EventSession") /\ EndConnection)
  /\ WF_taskVars(On("A2ATasks") /\ WorkerStep)
  /\ \A a \in Agents : WF_taskVars(On("A2ATasks") /\ HandlerStep(a))
  /\ WF_messageVars(On("A2AMessage") /\ HandlerNext)
  /\ WF_messageVars(On("A2AMessage") /\ RunNext)
  /\ WF_atVars(On("AsgiTransport") /\ RunCallback)
  /\ WF_atVars(On("AsgiTransport") /\ CallerStep)
  /\ WF_atVars(On("AsgiTransport") /\ CancelSource)

Spec == Init /\ [][Next]_clientVars /\ Fairness

(***************************************************************************)
(* Properties                                                              *)
(***************************************************************************)
\* The state of the component in focus has its type (see each module).
ClientsTypeOK ==
  /\ On("EventSession") => EventTypeOK
  /\ On("A2ATasks") => TaskTypeOK
  /\ On("A2AMessage") => MessageTypeOK

\* A client misses nothing: a subscriber is sent every event it matches, and no subgraph
\* is left open when the root has completed (see EventSession); a response of the custom
\* application that ended without an error is the response it sent (see AsgiTransport).
NothingIsMissed ==
  /\ On("EventSession") => NoEventMissed /\ RootCompletesLast
  /\ On("AsgiTransport") => EndedMeansWhole

\* The A2A client is told the outcome of the run its message made (see A2ATasks and
\* A2AMessage).
A2ATellsOutcome ==
  /\ On("A2ATasks") => AnswerIsOutcome
  /\ On("A2AMessage") => FinalTellsOutcome

\* A stream of a JavaScript graph that ended without an error was delivered as it was sent,
\* however the network cut it (see JsStream).
FramesAsSent == On("JsStream") => StreamAsSent

\* Nobody waits for ever: subscribers learn of the end of a run and of a failed
\* stream, A2A requests are answered, and a caller of the custom application learns
\* of its end.
ClientsAnswered ==
  /\ EndIsTold /\ FailureIsSeen
  /\ RequestsAnswered /\ (On("A2AMessage") ~> pc = "done")
  /\ CallerLearnsOfTheEnd /\ ClosingStopsApp
=============================================================================
