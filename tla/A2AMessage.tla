----------------------------- MODULE A2AMessage -----------------------------
(***************************************************************************)
(* One JSON-RPC request to the A2A endpoint of an assistant, from its body *)
(* to the last event of its answer: routing, validation of a message, the  *)
(* promotion of an answer to a paused task into a command, the             *)
(* creation of the run, and the translation of the run's event stream into *)
(* task events.  The handler awaits the server's own API at every step;    *)
(* the thread, the assistant and the run change in between.                *)
(***************************************************************************)
EXTENDS Naturals, Sequences, FiniteSets, FiniteSetsExt

CONSTANTS
  MessageRequests,     \* the requests: records, see Route and MessageRefusal
  MaxChanges,   \* bound: changes of the thread and of the assistant's schema
  MaxAnswerChunks, \* bound: events of an attempt of the run
  MaxAttempts,  \* bound: attempts of the run
  MaxStored     \* bound: messages a task has in the history of its thread

VARIABLES
  req,          \* the request
  pc,           \* where its handler is
  tries,        \* looks at the thread that are left
  resumes,      \* the message is sent as a command that resumes the thread
  threadPaused, \* the thread is interrupted
  schema,       \* what the assistant's input schema has: "messages", "other" or "none"
  cachedSchema, \* the schema in _assistant_schemas_cache, or "empty"
  changes,      \* how often the thread and the assistant changed
  run,          \* the run made for the message
  chunks,       \* its events that are on their way to the handler
  kept,         \* what the handler keeps of them: result, err, notified_is_working
  answer,       \* the events of the answer
  history       \* messages the task has, and how many of them are returned

messageVars == <<req, pc, tries, resumes, threadPaused, schema, cachedSchema, changes, run, chunks, kept, answer, history>>
worldVars == <<threadPaused, schema, cachedSchema, changes>>
runVars == <<run, chunks, kept>>

MessageInit ==
  /\ req \in MessageRequests
  /\ pc = "route" /\ tries = 3 /\ resumes = FALSE
  /\ threadPaused \in BOOLEAN /\ schema \in {"messages", "other", "none"} /\ cachedSchema = "empty"
  /\ changes = 0
  /\ run = [st |-> "none", attempt |-> 0, sent |-> 0, fresh |-> FALSE, end |-> "none"]
  /\ chunks = <<>>
  /\ kept = [result |-> "none", err |-> FALSE, working |-> FALSE]
  /\ answer = <<>>
  /\ history = [stored |-> 0, returned |-> 0]

\* The reply of the first check that fails.
FirstRefusal(checks) ==
  LET hit == {i \in DOMAIN checks : checks[i][1]} IN
  IF hit = {} THEN "none" ELSE checks[Min(hit)][2]

Streams(m) == m.method = "SendStreamingMessage"
Sends(m) == m.method \in {"SendMessage", "SendStreamingMessage"}
LastEvent(s) == s[Len(s)]

\* handle_a2a_assistant_endpoint and handle_post_request: what is refused before
\* the method's handler is called.
Route(m) == FirstRefusal(<<
  <<m.http = "GET", "agent card">>,
  <<m.http = "DELETE", "405">>,
  <<m.body = "unparsable", "PARSE_ERROR">>,
  <<m.body \in {"not an object", "no version"}, "INVALID_REQUEST">>,
  <<m.id = "object", "INVALID_REQUEST">>,
  <<m.method \in {"not a string", "unknown"}, "METHOD_NOT_FOUND">>,
  <<Sends(m) /\ m.message \in {"none", "not an object"}, "INVALID_PARAMS">>,
  <<IF Streams(m) THEN "sse" \notin m.accept ELSE "json" \notin m.accept, "400">>,
  <<m.id = "none", "INVALID_REQUEST">>,
  <<m.method = "none" /\ m.body = "response", "202">>,
  <<m.method = "none", "INVALID_REQUEST">> >>)

\* The checks of a message before the assistant is asked for.
MessageRefusal(m) == FirstRefusal(<<
  <<m.message \in {"no id", "no role"}, "INVALID_PARAMS">>,
  <<m.parts = <<>>, "INVALID_PARAMS">> >>)

HasText(m) == "text" \in {m.parts[i] : i \in DOMAIN m.parts}
Resumes(m) == Cardinality({i \in DOMAIN m.parts : m.parts[i] = "resume"})

\* _process_a2a_message_parts, and the command of a message: an explicit one, or
\* the only resume value among its data parts.
PartsRefusal(m) == FirstRefusal(<<
  <<{m.parts[i] : i \in DOMAIN m.parts} \cap {"file", "scalar data"} # {}, "CONTENT_TYPE_NOT_SUPPORTED">>,
  <<\A i \in DOMAIN m.parts : m.parts[i] = "empty data", "CONTENT_TYPE_NOT_SUPPORTED">>,
  <<m.command = "resume" /\ (~m.context \/ ~m.task), "INVALID_PARAMS">>,
  <<m.command = "none" /\ Resumes(m) > 1, "INVALID_PARAMS">>,
  <<m.command = "none" /\ Resumes(m) = 1 /\ (~m.context \/ ~m.task), "INVALID_PARAMS">> >>)

\* A message that may answer a question of a paused task is looked at again.
MayResume(m) == m.command = "none" /\ m.context /\ (Resumes(m) = 1 \/ HasText(m))

Goto(p) == pc' = p
AnswerMessage(events) == answer' = answer \o events /\ pc' = "done"
Refuse(reply) == AnswerMessage(<<[kind |-> "error", state |-> reply]>>)

RouteRequest ==
  /\ pc = "route"
  /\ IF Route(req) # "none" THEN Refuse(Route(req))
     ELSE IF ~Sends(req) THEN Goto("get") /\ UNCHANGED answer
     ELSE IF MessageRefusal(req) # "none" THEN Refuse(MessageRefusal(req))
     ELSE Goto("assistant") /\ UNCHANGED answer
  /\ UNCHANGED <<req, tries, resumes, history, worldVars, runVars>>

\* _get_assistant: it exists, or it was deleted.
GetAssistant ==
  /\ pc = "assistant"
  /\ \/ Goto("schemas") /\ UNCHANGED answer
     \/ Refuse("INVALID_PARAMS")
  /\ UNCHANGED <<req, tries, resumes, history, worldVars, runVars>>

\* _validate_supports_messages: a schema is good for as long as it is in the cache.
ValidateSupportsMessages ==
  /\ pc = "schemas"
  /\ cachedSchema' = IF cachedSchema = "empty" THEN schema ELSE cachedSchema
  /\ IF HasText(req) /\ cachedSchema' # "messages" THEN Refuse("INVALID_PARAMS")
     ELSE Goto("parts") /\ UNCHANGED answer
  /\ UNCHANGED <<req, tries, resumes, history, threadPaused, schema, changes, runVars>>

ProcessParts ==
  /\ pc = "parts"
  /\ IF PartsRefusal(req) # "none" THEN Refuse(PartsRefusal(req))
     ELSE /\ Goto(IF MayResume(req) THEN "look" ELSE "create")
          /\ UNCHANGED answer
  /\ resumes' = (req.command = "resume")
  /\ UNCHANGED <<req, tries, history, worldVars, runVars>>

\* _maybe_promote_resume_to_command: up to three looks at the thread.  A resume
\* value needs a paused thread; a text becomes the answer if there is one.
LookAtThread ==
  /\ pc = "look"
  /\ CASE threadPaused /\ req.task -> Goto("create") /\ resumes' = TRUE /\ UNCHANGED <<answer, tries>>
       [] threadPaused /\ ~req.task -> Refuse("INVALID_PARAMS") /\ UNCHANGED <<resumes, tries>>
       [] ~threadPaused /\ tries > 1 -> tries' = tries - 1 /\ UNCHANGED <<answer, pc, resumes>>
       [] ~threadPaused /\ tries = 1 /\ Resumes(req) = 1 -> Refuse("INVALID_PARAMS") /\ UNCHANGED <<resumes, tries>>
       [] OTHER -> Goto("create") /\ UNCHANGED <<answer, resumes, tries>>
  /\ UNCHANGED <<req, history, worldVars, runVars>>

\* The thread is no longer looked at: the run is created whatever became of it.
\* The stream's first event names the run, and the task is announced.
CreateMessageRun ==
  /\ pc = "create"
  /\ run' = [run EXCEPT !.st = "running", !.attempt = 1]
  /\ IF Streams(req)
     THEN /\ answer' = Append(answer, [kind |-> "task", state |-> "SUBMITTED"])
          /\ Goto("stream")
     ELSE Goto("join") /\ UNCHANGED answer
  /\ threadPaused' = FALSE
  /\ UNCHANGED <<req, tries, resumes, history, schema, cachedSchema, changes, chunks, kept>>

\* _map_runs_create_error_to_rpc: a refusal has a status, a crash has none; the
\* stream's handler does not tell them apart.
CreateError(status) ==
  IF Streams(req) \/ status = "none" THEN "INTERNAL_ERROR" ELSE "INVALID_PARAMS"

RefuseCreate(status) ==
  /\ pc = "create"
  /\ Refuse(CreateError(status))
  /\ UNCHANGED <<req, tries, resumes, history, worldVars, runVars>>

(***************************************************************************)
(* The run: its worker publishes the events of every attempt               *)
(***************************************************************************)
PublishEvent(chunk) == chunks' = IF Streams(req) THEN Append(chunks, chunk) ELSE chunks

RunEmits(chunk) ==
  /\ run.st = "running" /\ run.sent < MaxAnswerChunks /\ chunk \in {"values", "messages", "blank"}
  /\ PublishEvent(chunk)
  /\ run' = [run EXCEPT !.sent = @ + 1, !.fresh = TRUE]
  /\ UNCHANGED <<req, pc, tries, resumes, worldVars, kept, answer, history>>

\* An attempt that fails publishes its error, then the next one begins with the
\* metadata of the run.
RunRetries ==
  /\ run.st = "running" /\ run.attempt < MaxAttempts
  /\ chunks' = IF Streams(req) THEN chunks \o <<"error", "metadata">> ELSE chunks
  /\ run' = [run EXCEPT !.attempt = @ + 1, !.sent = 0, !.fresh = FALSE]
  /\ UNCHANGED <<req, pc, tries, resumes, worldVars, kept, answer, history>>

\* The run comes to an end after at least one event of its last attempt; a pause
\* is told by values that hold the interrupt, a failure by an error.
RunEnds(end) ==
  /\ run.st = "running" /\ (end = "ok" => run.fresh)
  /\ run' = [run EXCEPT !.st = "over", !.end = end]
  /\ IF end = "ok" THEN UNCHANGED chunks ELSE PublishEvent(end)
  /\ UNCHANGED <<req, pc, tries, resumes, worldVars, kept, answer, history>>

(***************************************************************************)
(* handle_message_stream: one event after the other                        *)
(***************************************************************************)
Kept(chunk) ==
  CASE chunk = "error" -> [kept EXCEPT !.err = TRUE]
    [] chunk = "metadata" -> [kept EXCEPT !.working = TRUE]
    [] chunk = "values" -> [kept EXCEPT !.err = FALSE, !.result = "values"]
    [] chunk = "pause" -> [kept EXCEPT !.err = FALSE, !.result = "pause"]
    [] OTHER -> [kept EXCEPT !.err = FALSE]

\* A message without content (_lc_items_to_status_update_event) is not forwarded.
Forwarded(chunk) ==
  IF chunk = "messages" \/ (chunk = "metadata" /\ ~kept.working)
  THEN <<[kind |-> "status", state |-> "WORKING"]>> ELSE <<>>

ReceiveChunk ==
  /\ pc = "stream" /\ chunks # <<>>
  /\ kept' = Kept(Head(chunks))
  /\ answer' = answer \o Forwarded(Head(chunks))
  /\ chunks' = Tail(chunks)
  /\ UNCHANGED <<req, pc, tries, resumes, worldVars, run, history>>

FinalState == IF kept.err THEN "FAILED"
              ELSE IF kept.result = "pause" THEN "INPUT_REQUIRED" ELSE "COMPLETED"

EndEvents ==
  (IF kept.result = "pause" THEN <<[kind |-> "artifact", state |-> "none"]>> ELSE <<>>)
    \o <<[kind |-> "final", state |-> FinalState]>>

EndMessageStream ==
  /\ pc = "stream" /\ run.st = "over" /\ chunks = <<>>
  /\ AnswerMessage(EndEvents)
  /\ UNCHANGED <<req, tries, resumes, history, worldVars, runVars>>

\* The stream of the run breaks.
BreakMessageStream ==
  /\ pc = "stream"
  /\ Refuse("INTERNAL_ERROR")
  /\ UNCHANGED <<req, tries, resumes, history, worldVars, runVars>>

\* _create_task_response: the answer of message/send, when the run is over.
TaskState(end) == CASE end = "error" -> "FAILED" [] end = "pause" -> "INPUT_REQUIRED" [] end = "ok" -> "COMPLETED"

AnswerSend ==
  /\ pc = "join" /\ run.st = "over"
  /\ AnswerMessage(<<[kind |-> "final", state |-> TaskState(run.end)]>>)
  /\ UNCHANGED <<req, tries, resumes, history, worldVars, runVars>>

(***************************************************************************)
(* tasks/get: the history of a task                                        *)
(***************************************************************************)
\* A slice of Python from a negative index: messages[-0:] is the whole list.
LastMessages(n, limit) == IF limit = 0 \/ limit > n THEN n ELSE limit

\* _get_historical_messages_for_task; a limit below 0 was refused.
GetHistory ==
  /\ pc = "get"
  /\ \E n \in 0..MaxStored :
        history' = [stored |-> n, returned |-> IF n > req.limit THEN LastMessages(n, req.limit) ELSE n]
  /\ AnswerMessage(<<[kind |-> "final", state |-> "none"]>>)
  /\ UNCHANGED <<req, tries, resumes, worldVars, runVars>>

(***************************************************************************)
(* The rest of the world                                                   *)
(***************************************************************************)
ChangeWorld ==
  /\ changes < MaxChanges /\ run.st = "none" /\ pc # "done" /\ changes' = changes + 1
  /\ \/ /\ threadPaused' = ~threadPaused /\ UNCHANGED <<schema, cachedSchema>>
     \/ /\ schema' \in {"messages", "other", "none"} \ {schema}
        /\ UNCHANGED <<threadPaused, cachedSchema>>
     \/ /\ cachedSchema = "empty" /\ cachedSchema' = schema /\ UNCHANGED <<threadPaused, schema>>
     \/ /\ cachedSchema # "empty" /\ cachedSchema' = "empty" /\ UNCHANGED <<threadPaused, schema>>
  /\ UNCHANGED <<req, pc, tries, resumes, runVars, answer, history>>

HandlerNext ==
  \/ RouteRequest \/ GetAssistant \/ ValidateSupportsMessages \/ ProcessParts \/ LookAtThread
  \/ CreateMessageRun \/ (\E status \in {"400", "403", "404", "409", "none"} : RefuseCreate(status))
  \/ ReceiveChunk \/ EndMessageStream \/ BreakMessageStream \/ AnswerSend \/ GetHistory

RunNext ==
  \/ \E chunk \in {"values", "messages", "blank"} : RunEmits(chunk)
  \/ RunRetries
  \/ \E end \in {"ok", "pause", "error"} : RunEnds(end)

MessageNext == HandlerNext \/ RunNext \/ ChangeWorld

MessageSpec ==
  /\ MessageInit /\ [][MessageNext]_messageVars
  /\ WF_messageVars(HandlerNext) /\ WF_messageVars(RunNext)

(***************************************************************************)
(* Properties                                                              *)
(***************************************************************************)
\* The type of the state of a request.
MessageTypeOK ==
  /\ req \in MessageRequests /\ tries \in 1..3 /\ resumes \in BOOLEAN
  /\ pc \in {"route", "assistant", "schemas", "parts", "look", "create", "stream", "join", "get", "done"}
  /\ schema \in {"messages", "other", "none"} /\ cachedSchema \in {"empty", "messages", "other", "none"}
  /\ \A i \in DOMAIN answer : answer[i].kind \in {"error", "task", "status", "artifact", "final"}

\* The client is told the outcome of the run, not that of an attempt or of a part
\* of its events: a run that failed for good is FAILED, one whose error was
\* retried is not, one that paused requires input and comes with the question;
\* unless the stream broke, of which the client is told.
FinalTellsOutcome ==
  (pc = "done" /\ run.st = "over" /\ LastEvent(answer).kind # "error")
    => /\ LastEvent(answer).state = TaskState(run.end)
       /\ (Streams(req) /\ run.end = "pause") => answer[Len(answer) - 1].kind = "artifact"

=============================================================================
