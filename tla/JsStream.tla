------------------------------ MODULE JsStream ------------------------------
(***************************************************************************)
(* What a run receives of a remote graph, and what a Python application    *)
(* receives of a request that the JavaScript application declined.         *)
(*                                                                         *)
(* The graph's process writes frames - parts, an error, heartbeats - and   *)
(* the network cuts them into chunks anywhere; BytesLineDecoder and        *)
(* SSEDecoder put them together again.  A byte is a line break, or the     *)
(* content of a line: "c" a comment, "v" the event field of a part, "e"    *)
(* that of an error, "d" a data field.                                     *)
(***************************************************************************)
EXTENDS Naturals, Sequences, FiniteSets, SequencesExt

CONSTANTS
  MaxFrames,    \* bound: frames of a stream
  Breaks        \* how the peer ends a line: a set of sequences over {"r", "n"}

\* A line of a stream of events ends with one of these.
ASSUME BreaksAssumption == Breaks \subseteq {<<"n">>, <<"r">>, <<"r", "n">>}

VARIABLES
  sent,         \* the frames the process writes
  wire,         \* their bytes that have not arrived
  buffer,       \* BytesLineDecoder.buffer
  trailingCr,   \* BytesLineDecoder.trailing_cr
  sse,          \* SSEDecoder: the event's name, and whether there is data
  yielded,      \* parts the caller received: "data", or "None" without
  stream        \* "open", "ended", "error" (RemoteException)

jsStreamVars == <<sent, wire, buffer, trailingCr, sse, yielded, stream>>

Frames == {"part", "error", "heartbeat"}

\* sendSSE and sendHeartbeat of client.mts.
Bytes(frame, br) ==
  CASE frame = "part" -> <<"v">> \o br \o <<"d">> \o br \o br
    [] frame = "error" -> <<"e">> \o br \o <<"d">> \o br \o br
    [] frame = "heartbeat" -> <<"c">> \o br

NoEvent == [event |-> "none", data |-> "None"]

JsStreamInit ==
  /\ sent \in UNION {[1..n -> Frames] : n \in 0..MaxFrames}
  /\ \E br \in Breaks : wire = FlattenSeq([i \in DOMAIN sent |-> Bytes(sent[i], br)])
  /\ buffer = <<>> /\ trailingCr = FALSE
  /\ sse = NoEvent
  /\ yielded = <<>> /\ stream = "open"

(***************************************************************************)
(* bytes.splitlines                                                        *)
(***************************************************************************)
LineEnds(t) == {i \in DOMAIN t : t[i] = "n" \/ (t[i] = "r" /\ (i = Len(t) \/ t[i + 1] # "n"))}

Line(t, e) ==
  LET start == Max({0} \cup {d \in LineEnds(t) : d < e}) + 1 IN
  SubSeq(t, start, IF t[e] = "n" /\ e > start /\ t[e - 1] = "r" THEN e - 2 ELSE e - 1)

\* The i-th line is the one with i line ends up to its own.
Complete(t) ==
  [i \in 1..Cardinality(LineEnds(t)) |->
     Line(t, CHOOSE e \in LineEnds(t) : Cardinality({d \in LineEnds(t) : d <= e}) = i)]
Rest(t) == SubSeq(t, Max({0} \cup LineEnds(t)) + 1, Len(t))

(***************************************************************************)
(* BytesLineDecoder                                                        *)
(***************************************************************************)
\* Mutant of Carried: the carriage return at the end of a chunk ends a line.
CarriedNever(chunk) == [text |-> chunk, cr |-> FALSE]

\* A carriage return at the end of a chunk waits for the next one.
Carried(chunk) ==
  LET text == (IF trailingCr THEN <<"r">> ELSE <<>>) \o chunk IN
  IF Len(text) > 0 /\ text[Len(text)] = "r"
  THEN [text |-> SubSeq(text, 1, Len(text) - 1), cr |-> TRUE]
  ELSE [text |-> text, cr |-> FALSE]

\* The first line continues the buffer, the unfinished one becomes it.
Lines(text) ==
  LET lines == Complete(text) IN
  IF lines = <<>> THEN <<>> ELSE <<buffer \o Head(lines)>> \o Tail(lines)

Buffered(text) == IF Complete(text) = <<>> THEN buffer \o text ELSE Rest(text)

Flushed == IF buffer = <<>> /\ ~trailingCr THEN <<>> ELSE <<buffer>>

(***************************************************************************)
(* SSEDecoder and _client_stream                                           *)
(***************************************************************************)
\* A blank line dispatches what was collected; an error ends the stream.
Dispatched(state) ==
  CASE state.sse = NoEvent -> state
    [] state.sse.event = "error" -> [state EXCEPT !.stream = "error"]
    [] OTHER -> [state EXCEPT !.yielded = Append(@, state.sse.data), !.sse = NoEvent]

Decoded(state, line) ==
  IF line = <<>> THEN Dispatched(state)
  ELSE CASE Head(line) = "e" -> [state EXCEPT !.sse.event = "error"]
         [] Head(line) = "v" -> [state EXCEPT !.sse.event = "event"]
         [] Head(line) = "d" -> [state EXCEPT !.sse.data = "data"]
         [] OTHER -> state

\* Lines after an error are not looked at.
Consumed(lines) ==
  LET after[i \in 0..Len(lines)] ==
        IF i = 0 THEN [sse |-> sse, yielded |-> yielded, stream |-> stream]
        ELSE IF after[i - 1].stream = "error" THEN after[i - 1]
        ELSE Decoded(after[i - 1], lines[i])
  IN after[Len(lines)]

Consume(lines) ==
  LET state == Consumed(lines) IN
  /\ sse' = state.sse /\ yielded' = state.yielded /\ stream' = state.stream

ReceiveBytes(n) ==
  /\ stream = "open" /\ n \in 1..Len(wire)
  /\ LET carried == Carried(SubSeq(wire, 1, n)) IN
     /\ trailingCr' = carried.cr
     /\ Consume(Lines(carried.text))
     /\ buffer' = Buffered(carried.text)
  /\ wire' = SubSeq(wire, n + 1, Len(wire))
  /\ UNCHANGED sent

\* The response is complete; one that was cut short raises.
EndOfResponse ==
  /\ stream = "open" /\ wire = <<>>
  /\ LET state == Consumed(Flushed) IN
     /\ sse' = state.sse /\ yielded' = state.yielded
     /\ stream' = IF state.stream = "open" THEN "ended" ELSE state.stream
  /\ buffer' = <<>> /\ trailingCr' = FALSE
  /\ UNCHANGED <<sent, wire>>

JsStreamNext == (\E n \in 1..Len(wire) : ReceiveBytes(n)) \/ EndOfResponse

JsStreamSpec == JsStreamInit /\ [][JsStreamNext]_jsStreamVars

(***************************************************************************)
(* Properties                                                              *)
(***************************************************************************)
FirstError(frames) == SelectInSeq(frames, LAMBDA f : f = "error")
Parts(frames) == [i \in 1..Cardinality({j \in DOMAIN frames : frames[j] = "part"}) |-> "data"]

\* However the network cuts the stream, and however the peer ends its lines, the
\* run gets the parts that were sent before the first error, no more and no less,
\* and the error if there is one.
StreamAsSent ==
  LET e == FirstError(sent) IN
  /\ stream = "ended" => e = 0 /\ yielded = Parts(sent)
  /\ stream = "error" => e # 0 /\ yielded = Parts(SubSeq(sent, 1, e - 1))
  /\ stream = "open" => IsPrefix(yielded, Parts(sent))
=============================================================================
