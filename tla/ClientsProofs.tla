---------------------------- MODULE ClientsProofs ----------------------------
(***************************************************************************)
(* What MCClients promises to those who read a run from outside, for every *)
(* value of the constants: callers of the custom application, clients of   *)
(* the A2A endpoint, subscribers of an event stream and the run that reads *)
(* the stream of a JavaScript graph.  Each inductive invariant is about    *)
(* one component.                                                          *)
(***************************************************************************)
EXTENDS MCClients, FiniteSetTheorems, SequenceTheorems, TLAPS

\* A step of MCClients is a step of a component or none.
LEMMA StepsOfComponents ==
  ASSUME [Next]_clientVars
  PROVE  /\ [EventNext]_eventVars /\ [TaskNext]_taskVars /\ [MessageNext]_messageVars
         /\ [AsgiNext]_atVars /\ [JsStreamNext]_jsStreamVars
<1>1. CASE Next
  BY <1>1 DEF Next, Others
<1>2. CASE UNCHANGED clientVars
  BY <1>2 DEF clientVars
<1> QED BY <1>1, <1>2

(***************************************************************************)
(* The loopback transport                                                  *)
(***************************************************************************)
\* The caller waits for the response or reads it, and nobody has stopped anything.
Engaged == asgiCaller.pc \in {"waits", "reads", "ends"}

\* The chunks that reached the caller's side: read, or in the queue, whose last element is
\* the end of a closed stream.
Arrived == asgiCaller.got + Len(bodyQueue) - (IF streamClosed /\ asgiCaller.pc # "ends" THEN 1 ELSE 0)

\* One callback, at the head of the queue, is ahead of the chunks: that of the response's head.
HeadOnItsWay == callbacks # <<>> /\ callbacks[1].do = "started"
Ahead == IF HeadOnItsWay THEN 1 ELSE 0

Callback == [do : {"started", "put", "close", "settle", "finish"}, n : Nat]

AsgiTypes ==
  /\ raising \in BOOLEAN
  /\ app \in {"runs", "returned", "raised", "cancelled"}
  /\ answered \in {"nothing", "head", "complete"}
  /\ chunksSent \in Nat /\ (answered = "nothing" => chunksSent = 0)
  /\ callbacks \in Seq(Callback)
  /\ appFuture \in {"pending", "returned", "raised", "cancelled"}
  /\ cancelAsked = FALSE
  /\ startedFut \in {"pending", "set", "cancelled", "error"}
  /\ completeFut \in {"pending", "ok", "error", "cancelled"}
  /\ bodyQueue \in Seq(Nat)
  /\ streamClosed \in BOOLEAN
  /\ asgiCaller \in [pc : {"waits", "reads", "ends"}, got : Nat, status : {"none", "app", "500"}]

\* The callbacks under way: the head of the response, the chunks that have not arrived, the
\* end of the body, the end of the application.
CallbacksInOrder ==
  /\ startedFut = "pending" /\ answered # "nothing" <=> HeadOnItsWay
  /\ startedFut = "set" => answered # "nothing"
  /\ \A i \in 1..Len(callbacks) :
       /\ callbacks[i].do = "started" => i = 1
       /\ callbacks[i].do = "put" <=> Ahead < i /\ i <= Ahead + chunksSent - Arrived
       /\ callbacks[i].do = "put" => callbacks[i].n # STREAM_END
       /\ callbacks[i].do = "close" => answered = "complete" /\ ~ streamClosed
       /\ callbacks[i].do = "close" => \A j \in 1..Len(callbacks) : i < j => callbacks[j].do = "settle"
       /\ callbacks[i].do \in {"settle", "finish"} => i = Len(callbacks)
  /\ Arrived <= chunksSent
  /\ Ahead + chunksSent - Arrived <= Len(callbacks)

\* The end of the application is settled once, as the last callback but its own.
EndOnItsWay ==
  /\ app = "runs" => /\ appFuture = "pending" /\ completeFut = "pending"
                     /\ \A i \in 1..Len(callbacks) : callbacks[i].do \notin {"settle", "finish"}
  /\ app # "runs" /\ appFuture = "pending" =>
       callbacks # <<>> /\ callbacks[Len(callbacks)].do = "settle" /\ completeFut = "pending"
  /\ appFuture # "pending" =>
       /\ appFuture = app
       /\ Len(callbacks) = IF completeFut = "pending" THEN 1 ELSE 0
       /\ completeFut = "pending" => callbacks[1].do = "finish"

\* The end of a stream is the last of the queue, and then everything has arrived.
StreamEnds ==
  /\ \A i \in 1..Len(bodyQueue) : bodyQueue[i] = STREAM_END <=> (streamClosed /\ i = Len(bodyQueue))
  /\ asgiCaller.pc = "ends" => streamClosed /\ bodyQueue = <<>>
  /\ asgiCaller.pc # "ends" /\ streamClosed => bodyQueue # <<>>
  /\ streamClosed => answered = "complete" \/ completeFut # "pending"
  /\ streamClosed => Arrived = chunksSent
  /\ answered = "complete" /\ ~ streamClosed => \E i \in 1..Len(callbacks) : callbacks[i].do = "close"
  /\ completeFut # "pending" => streamClosed

\* What the caller is told, and what it knows when it reads.
EndTold ==
  /\ asgiCaller.pc = "waits" => asgiCaller.got = 0 /\ asgiCaller.status = "none"
  /\ asgiCaller.pc # "waits" =>
       \/ asgiCaller.status = "app" /\ startedFut = "set"
       \/ asgiCaller.status = "500" /\ startedFut = "error" /\ ~ raising
  /\ startedFut \in {"error", "cancelled"} => completeFut # "pending"
  /\ completeFut # "pending" => startedFut # "pending"
  /\ completeFut = "ok" =>
       /\ startedFut = "set" =>
            \/ app = "raised" /\ ~ raising
            \/ app = "returned" /\ answered = "complete"
       /\ startedFut = "error" =>
            \/ app = "raised"
            \/ app = "returned" /\ answered = "nothing"

EngagedInv == AsgiTypes /\ CallbacksInOrder /\ EndOnItsWay /\ StreamEnds /\ EndTold

AsgiInv ==
  /\ Engaged => EngagedInv
  /\ asgiCaller.pc = "done" => app # "runs" /\ EndedMeansWhole

\* At first there is nothing.
LEMMA AsgiStart == AsgiInit => AsgiInv
<1> SUFFICES ASSUME AsgiInit PROVE EngagedInv /\ asgiCaller.pc = "waits"
  BY DEF AsgiInv
<1>1. AsgiTypes /\ asgiCaller.pc = "waits"
  <2>1. [pc |-> "waits", got |-> 0, status |-> "none"]
          \in [pc : {"waits", "reads", "ends"}, got : Nat, status : {"none", "app", "500"}]
    OBVIOUS
  <2>2. <<>> \in Seq(Callback) /\ <<>> \in Seq(Nat)
    OBVIOUS
  <2> QED BY <2>1, <2>2 DEF AsgiInit, AsgiTypes
<1>2. CallbacksInOrder /\ EndOnItsWay /\ StreamEnds /\ EndTold
  BY <1>1 DEF AsgiInit, AsgiTypes, CallbacksInOrder, EndOnItsWay, StreamEnds, EndTold, HeadOnItsWay, Ahead, Arrived
<1> QED BY <1>1, <1>2 DEF EngagedInv

\* The head of the response is sent when there is nothing on its way.
LEMMA SendStartKeeps ==
  ASSUME EngagedInv, SendStart
  PROVE  EngagedInv'
<1>1. AsgiTypes /\ CallbacksInOrder /\ EndOnItsWay /\ StreamEnds /\ EndTold
  BY DEF EngagedInv
<1>2. app = "runs" /\ answered = "nothing" /\ chunksSent = 0 /\ startedFut = "pending"
  BY <1>1 DEF SendStart, AsgiTypes, CallbacksInOrder, EndOnItsWay, EndTold
<1>3. Arrived \in Nat /\ Arrived = 0 /\ ~ HeadOnItsWay
  <2>1. Arrived \in Int /\ Arrived <= 0
    BY <1>1, <1>2 DEF AsgiTypes, CallbacksInOrder, Arrived
  <2>2. Arrived >= 0
    BY <1>1 DEF AsgiTypes, StreamEnds, Arrived
  <2> QED BY <1>1, <1>2, <2>1, <2>2 DEF CallbacksInOrder
<1>4. callbacks = <<>>
  <2> SUFFICES ASSUME Len(callbacks) # 0 PROVE FALSE
    BY <1>1 DEF AsgiTypes
  <2>1. Len(callbacks) \in Nat /\ callbacks[Len(callbacks)] \in Callback
    BY <1>1 DEF AsgiTypes
  <2>2. callbacks[Len(callbacks)].do \in {"started", "put", "close", "settle", "finish"}
    BY <2>1 DEF Callback
  <2>3. Len(callbacks) \in 1..Len(callbacks)
    BY <2>1
  <2>4. callbacks[Len(callbacks)].do = "started" => HeadOnItsWay
    BY <1>1, <2>3 DEF CallbacksInOrder, HeadOnItsWay
  <2> QED BY <1>1, <1>2, <1>3, <2>2, <2>3, <2>4 DEF CallbacksInOrder, EndOnItsWay, Ahead
<1>5. callbacks' = <<[do |-> "started", n |-> 0]>> /\ answered' = "head"
  BY <1>4 DEF SendStart, Schedule
<1>6. UNCHANGED <<raising, app, chunksSent, cancelAsked, appFuture, startedFut, completeFut, bodyQueue,
                  streamClosed, asgiCaller>>
  BY DEF SendStart, callerSide
<1>7. AsgiTypes'
  <2>1. [do |-> "started", n |-> 0] \in Callback
    BY DEF Callback
  <2>2. callbacks' \in Seq(Callback)
    BY <1>5, <2>1
  <2> QED BY <1>1, <1>2, <1>5, <1>6, <2>2 DEF AsgiTypes
<1>8. HeadOnItsWay' /\ Ahead' = 1 /\ Arrived' = 0
  BY <1>3, <1>5, <1>6 DEF HeadOnItsWay, Ahead, Arrived
<1>9. CallbacksInOrder'
  BY <1>2, <1>5, <1>6, <1>8 DEF CallbacksInOrder
<1>10. EndOnItsWay' /\ StreamEnds' /\ EndTold'
  BY <1>1, <1>2, <1>3, <1>5, <1>6, <1>8 DEF EndOnItsWay, StreamEnds, EndTold
<1> QED BY <1>7, <1>9, <1>10 DEF EngagedInv

\* A callback at the end of the queue, behind the others.
LEMMA Appended ==
  ASSUME NEW s \in Seq(Callback), NEW c \in Callback
  PROVE  LET t == s \o <<c>> IN
         /\ t \in Seq(Callback) /\ Len(t) = Len(s) + 1 /\ t # <<>>
         /\ t[Len(s) + 1] = c
         /\ \A i \in 1..Len(s) : t[i] = s[i]
         /\ s # <<>> => t[1] = s[1]
         /\ s = <<>> => t[1] = c
<1>1. Len(s) \in Nat /\ (s # <<>> => Len(s) > 0) /\ (s = <<>> => Len(s) = 0)
  OBVIOUS
<1> QED BY <1>1

\* While the application runs and the body is not complete, all that is on its way are the
\* head and the chunks.
LEMMA OnlyChunks ==
  ASSUME EngagedInv, app = "runs", answered # "complete"
  PROVE  /\ Len(callbacks) = Ahead + chunksSent - Arrived
         /\ Arrived \in Nat /\ Len(callbacks) \in Nat /\ Ahead \in {0, 1} /\ chunksSent \in Nat
         /\ ~ streamClosed /\ Arrived <= chunksSent
<1>1. AsgiTypes /\ CallbacksInOrder /\ EndOnItsWay /\ StreamEnds
  BY DEF EngagedInv
<1>2. /\ Arrived \in Nat /\ Len(callbacks) \in Nat /\ Ahead \in {0, 1} /\ chunksSent \in Nat
      /\ ~ streamClosed
  BY <1>1 DEF AsgiTypes, EndOnItsWay, StreamEnds, Arrived, Ahead
<1>3. Len(callbacks) <= Ahead + chunksSent - Arrived
  <2> SUFFICES ASSUME Len(callbacks) > Ahead + chunksSent - Arrived PROVE FALSE
    BY <1>2
  <2>1. Len(callbacks) \in 1..Len(callbacks)
    BY <1>1, <1>2 DEF CallbacksInOrder
  <2>2. callbacks[Len(callbacks)] \in Callback
    BY <1>1, <2>1 DEF AsgiTypes
  <2>3. callbacks[Len(callbacks)].do \in {"started", "put", "close", "settle", "finish"}
    BY <2>2 DEF Callback
  <2>4. callbacks[Len(callbacks)].do = "started" => HeadOnItsWay /\ Len(callbacks) = 1
    BY <1>1, <2>1 DEF CallbacksInOrder, HeadOnItsWay
  <2>5. callbacks[Len(callbacks)].do # "started"
    BY <1>1, <1>2, <2>4 DEF CallbacksInOrder, Ahead
  <2> QED BY <1>1, <1>2, <2>1, <2>3, <2>5 DEF CallbacksInOrder, EndOnItsWay
<1> QED BY <1>1, <1>2, <1>3 DEF CallbacksInOrder

\* A chunk, the end of the body or both.
LEMMA SendBodyKeeps ==
  ASSUME EngagedInv, SendBody
  PROVE  EngagedInv'
<1>1. AsgiTypes /\ CallbacksInOrder /\ EndOnItsWay /\ StreamEnds /\ EndTold
  BY DEF EngagedInv
<1>2. app = "runs" /\ answered = "head"
  BY DEF SendBody
<1>3. UNCHANGED <<raising, app, cancelAsked, appFuture, startedFut, completeFut, bodyQueue, streamClosed, asgiCaller>>
  BY DEF SendBody, callerSide
<1>4. /\ Len(callbacks) = Ahead + chunksSent - Arrived
      /\ Arrived \in Nat /\ Len(callbacks) \in Nat /\ Ahead \in {0, 1} /\ chunksSent \in Nat
      /\ ~ streamClosed /\ Arrived <= chunksSent
  BY <1>2, OnlyChunks
<1>5. Arrived' = Arrived
  BY <1>3 DEF Arrived
<1>6. callbacks \in Seq(Callback)
  BY <1>1 DEF AsgiTypes
<1>7. completeFut = "pending" /\ appFuture = "pending" /\ (HeadOnItsWay <=> startedFut = "pending")
  BY <1>1, <1>2 DEF EndOnItsWay, CallbacksInOrder
<1>8. \A i \in 1..Len(callbacks) :
        /\ callbacks[i].do \notin {"settle", "finish", "close"}
        /\ callbacks[i].do = "started" => i = 1
        /\ callbacks[i].do = "put" <=> Ahead < i
        /\ callbacks[i].do = "put" => callbacks[i].n # STREAM_END
  BY <1>1, <1>2, <1>4 DEF CallbacksInOrder, EndOnItsWay
<1> DEFINE p == [do |-> "put", n |-> chunksSent + 1]
           c == [do |-> "close", n |-> 0]
<1>9. p \in Callback /\ c \in Callback /\ p.do = "put" /\ c.do = "close" /\ p.n # STREAM_END
  BY <1>4 DEF Callback, STREAM_END
<1>10. \/ chunksSent' = chunksSent + 1 /\ callbacks' = callbacks \o <<p>> /\ answered' = "head"
       \/ chunksSent' = chunksSent + 1 /\ callbacks' = (callbacks \o <<p>>) \o <<c>> /\ answered' = "complete"
       \/ chunksSent' = chunksSent /\ callbacks' = callbacks \o <<c>> /\ answered' = "complete"
  <2>1. callbacks \o <<p, c>> = (callbacks \o <<p>>) \o <<c>>
    BY <1>6, <1>9
  <2> QED BY <1>2, <2>1 DEF SendBody, Schedule, LastBody
<1> HIDE DEF p, c
<1>11. ASSUME NEW t \in Seq(Callback), NEW k \in Nat, Len(t) = Len(callbacks) + k,
              \A i \in 1..Len(callbacks) : t[i] = callbacks[i], t # <<>>,
              callbacks # <<>> => t[1] = callbacks[1],
              callbacks = <<>> => t[1].do # "started",
              callbacks' = t
       PROVE  (HeadOnItsWay' <=> HeadOnItsWay) /\ Ahead' = Ahead
  <2>1. HeadOnItsWay' <=> HeadOnItsWay
    BY <1>11 DEF HeadOnItsWay
  <2> QED BY <2>1 DEF Ahead
<1>12. CASE chunksSent' = chunksSent + 1 /\ callbacks' = callbacks \o <<p>> /\ answered' = "head"
  <2>1. /\ callbacks' \in Seq(Callback) /\ Len(callbacks') = Len(callbacks) + 1 /\ callbacks' # <<>>
        /\ callbacks'[Len(callbacks) + 1] = p
        /\ \A i \in 1..Len(callbacks) : callbacks'[i] = callbacks[i]
        /\ callbacks # <<>> => callbacks'[1] = callbacks[1]
        /\ callbacks = <<>> => callbacks'[1] = p
    BY <1>6, <1>9, <1>12, Appended
  <2>2. (HeadOnItsWay' <=> HeadOnItsWay) /\ Ahead' = Ahead
    BY <1>9, <1>11, <2>1
  <2>3. \A i \in 1..Len(callbacks') : i \in 1..Len(callbacks) \/ i = Len(callbacks) + 1
    BY <1>4, <2>1
  <2>4. AsgiTypes'
    BY <1>1, <1>3, <1>4, <1>12, <2>1 DEF AsgiTypes
  <2>5. CallbacksInOrder'
    <3>1. /\ startedFut' = "pending" /\ answered' # "nothing" <=> HeadOnItsWay'
          /\ startedFut' = "set" => answered' # "nothing"
          /\ Arrived' <= chunksSent'
          /\ Ahead' + chunksSent' - Arrived' <= Len(callbacks')
      BY <1>1, <1>3, <1>4, <1>5, <1>7, <1>12, <2>1, <2>2 DEF CallbacksInOrder
    <3>2. ASSUME NEW i \in 1..Len(callbacks')
          PROVE  /\ callbacks'[i].do = "started" => i = 1
                 /\ callbacks'[i].do = "put" <=> Ahead' < i /\ i <= Ahead' + chunksSent' - Arrived'
                 /\ callbacks'[i].do = "put" => callbacks'[i].n # STREAM_END
                 /\ callbacks'[i].do \notin {"close", "settle", "finish"}
      <4>1. CASE i \in 1..Len(callbacks)
        <5>1. callbacks'[i] = callbacks[i] /\ i <= Ahead + chunksSent - Arrived
          BY <1>4, <2>1, <4>1
        <5>2. i <= Ahead' + chunksSent' - Arrived' /\ Ahead' = Ahead
          BY <1>4, <1>5, <1>12, <2>2, <5>1
        <5>3. /\ callbacks[i].do \notin {"settle", "finish", "close"}
              /\ callbacks[i].do = "started" => i = 1
              /\ callbacks[i].do = "put" <=> Ahead < i
              /\ callbacks[i].do = "put" => callbacks[i].n # STREAM_END
          BY <1>8, <4>1
        <5> QED BY <5>1, <5>2, <5>3
      <4>2. CASE i = Len(callbacks) + 1
        <5>1. callbacks'[i] = p
          BY <2>1, <4>2
        <5>2. Ahead' < i /\ i <= Ahead' + chunksSent' - Arrived'
          BY <1>4, <1>5, <1>12, <2>2, <4>2
        <5> QED BY <1>9, <5>1, <5>2
      <4> QED BY <2>3, <4>1, <4>2
    <3> QED BY <3>1, <3>2 DEF CallbacksInOrder
  <2>6. EndOnItsWay'
    BY <1>1, <1>2, <1>3, <1>7, <1>8, <1>9, <1>12, <2>1, <2>3 DEF EndOnItsWay
  <2>7. StreamEnds' /\ EndTold'
    BY <1>1, <1>2, <1>3, <1>4, <1>5, <1>7, <1>12, <2>1 DEF StreamEnds, EndTold
  <2> QED BY <2>4, <2>5, <2>6, <2>7 DEF EngagedInv
<1>13. CASE chunksSent' = chunksSent + 1 /\ callbacks' = (callbacks \o <<p>>) \o <<c>> /\ answered' = "complete"
  <2> DEFINE u == callbacks \o <<p>>
  <2>1. /\ u \in Seq(Callback) /\ Len(u) = Len(callbacks) + 1 /\ u # <<>>
        /\ u[Len(callbacks) + 1] = p
        /\ \A i \in 1..Len(callbacks) : u[i] = callbacks[i]
        /\ callbacks # <<>> => u[1] = callbacks[1]
        /\ callbacks = <<>> => u[1] = p
    BY <1>6, <1>9, Appended
  <2>2. callbacks' = u \o <<c>>
    BY <1>13
  <2> HIDE DEF u
  <2>3. /\ callbacks' \in Seq(Callback) /\ Len(callbacks') = Len(u) + 1 /\ callbacks' # <<>>
        /\ callbacks'[Len(u) + 1] = c
        /\ \A i \in 1..Len(u) : callbacks'[i] = u[i]
        /\ callbacks'[1] = u[1]
    BY <1>9, <2>1, <2>2, Appended
  <2>4. /\ Len(callbacks') = Len(callbacks) + 2
        /\ callbacks'[Len(callbacks) + 1] = p /\ callbacks'[Len(callbacks) + 2] = c
        /\ \A i \in 1..Len(callbacks) : callbacks'[i] = callbacks[i]
        /\ callbacks # <<>> => callbacks'[1] = callbacks[1]
        /\ callbacks = <<>> => callbacks'[1] = p
    <3>1. \A i \in 1..Len(callbacks) : i \in 1..Len(u)
      BY <1>4, <2>1
    <3>2. Len(callbacks) + 1 \in 1..Len(u) /\ Len(u) + 1 = Len(callbacks) + 2
      BY <1>4, <2>1
    <3> QED BY <2>1, <2>3, <3>1, <3>2
  <2>5. (HeadOnItsWay' <=> HeadOnItsWay) /\ Ahead' = Ahead
    BY <1>9, <1>11, <2>3, <2>4
  <2>6. \A i \in 1..Len(callbacks') : i \in 1..Len(callbacks) \/ i = Len(callbacks) + 1 \/ i = Len(callbacks) + 2
    BY <1>4, <2>4
  <2>7. AsgiTypes'
    BY <1>1, <1>3, <1>4, <1>13, <2>3 DEF AsgiTypes
  <2>8. CallbacksInOrder'
    <3>1. /\ startedFut' = "pending" /\ answered' # "nothing" <=> HeadOnItsWay'
          /\ startedFut' = "set" => answered' # "nothing"
          /\ Arrived' <= chunksSent'
          /\ Ahead' + chunksSent' - Arrived' <= Len(callbacks')
      BY <1>1, <1>3, <1>4, <1>5, <1>7, <1>13, <2>4, <2>5 DEF CallbacksInOrder
    <3>2. ASSUME NEW i \in 1..Len(callbacks')
          PROVE  /\ callbacks'[i].do = "started" => i = 1
                 /\ callbacks'[i].do = "put" <=> Ahead' < i /\ i <= Ahead' + chunksSent' - Arrived'
                 /\ callbacks'[i].do = "put" => callbacks'[i].n # STREAM_END
                 /\ callbacks'[i].do = "close" => i = Len(callbacks')
                 /\ callbacks'[i].do \notin {"settle", "finish"}
      <4>1. CASE i \in 1..Len(callbacks)
        <5>1. callbacks'[i] = callbacks[i] /\ i <= Ahead + chunksSent - Arrived
          BY <1>4, <2>4, <4>1
        <5>2. i <= Ahead' + chunksSent' - Arrived' /\ Ahead' = Ahead
          BY <1>4, <1>5, <1>13, <2>5, <5>1
        <5>3. /\ callbacks[i].do \notin {"settle", "finish", "close"}
              /\ callbacks[i].do = "started" => i = 1
              /\ callbacks[i].do = "put" <=> Ahead < i
              /\ callbacks[i].do = "put" => callbacks[i].n # STREAM_END
          BY <1>8, <4>1
        <5> QED BY <5>1, <5>2, <5>3
      <4>2. CASE i = Len(callbacks) + 1
        <5>1. callbacks'[i] = p
          BY <2>4, <4>2
        <5>2. Ahead' < i /\ i <= Ahead' + chunksSent' - Arrived'
          BY <1>4, <1>5, <1>13, <2>5, <4>2
        <5> QED BY <1>9, <5>1, <5>2
      <4>3. CASE i = Len(callbacks) + 2
        BY <1>4, <1>5, <1>9, <1>13, <2>4, <2>5, <4>3
      <4> QED BY <2>6, <4>1, <4>2, <4>3
    <3> QED BY <1>3, <1>4, <1>13, <2>4, <3>1, <3>2 DEF CallbacksInOrder
  <2>9. EndOnItsWay'
    BY <1>1, <1>2, <1>3, <1>7, <1>8, <1>9, <1>13, <2>4, <2>6 DEF EndOnItsWay
  <2>10. \E i \in 1..Len(callbacks') : callbacks'[i].do = "close"
    BY <1>4, <1>9, <2>4
  <2>11. StreamEnds' /\ EndTold'
    BY <1>1, <1>2, <1>3, <1>4, <1>5, <1>7, <1>13, <2>10 DEF StreamEnds, EndTold
  <2> QED BY <2>7, <2>8, <2>9, <2>11 DEF EngagedInv
<1>14. CASE chunksSent' = chunksSent /\ callbacks' = callbacks \o <<c>> /\ answered' = "complete"
  <2>1. /\ callbacks' \in Seq(Callback) /\ Len(callbacks') = Len(callbacks) + 1 /\ callbacks' # <<>>
        /\ callbacks'[Len(callbacks) + 1] = c
        /\ \A i \in 1..Len(callbacks) : callbacks'[i] = callbacks[i]
        /\ callbacks # <<>> => callbacks'[1] = callbacks[1]
        /\ callbacks = <<>> => callbacks'[1] = c
    BY <1>6, <1>9, <1>14, Appended
  <2>2. (HeadOnItsWay' <=> HeadOnItsWay) /\ Ahead' = Ahead
    BY <1>9, <1>11, <2>1
  <2>3. \A i \in 1..Len(callbacks') : i \in 1..Len(callbacks) \/ i = Len(callbacks) + 1
    BY <1>4, <2>1
  <2>4. AsgiTypes'
    BY <1>1, <1>3, <1>4, <1>14, <2>1 DEF AsgiTypes
  <2>5. CallbacksInOrder'
    <3>1. /\ startedFut' = "pending" /\ answered' # "nothing" <=> HeadOnItsWay'
          /\ startedFut' = "set" => answered' # "nothing"
          /\ Arrived' <= chunksSent'
          /\ Ahead' + chunksSent' - Arrived' <= Len(callbacks')
      BY <1>1, <1>3, <1>4, <1>5, <1>7, <1>14, <2>1, <2>2 DEF CallbacksInOrder
    <3>2. ASSUME NEW i \in 1..Len(callbacks')
          PROVE  /\ callbacks'[i].do = "started" => i = 1
                 /\ callbacks'[i].do = "put" <=> Ahead' < i /\ i <= Ahead' + chunksSent' - Arrived'
                 /\ callbacks'[i].do = "put" => callbacks'[i].n # STREAM_END
                 /\ callbacks'[i].do = "close" => i = Len(callbacks')
                 /\ callbacks'[i].do \notin {"settle", "finish"}
      BY <1>4, <1>5, <1>8, <1>9, <1>14, <2>1, <2>2, <2>3
    <3> QED BY <1>3, <1>4, <1>14, <2>1, <3>1, <3>2 DEF CallbacksInOrder
  <2>6. EndOnItsWay'
    BY <1>1, <1>2, <1>3, <1>7, <1>8, <1>9, <1>14, <2>1, <2>3 DEF EndOnItsWay
  <2>7. \E i \in 1..Len(callbacks') : callbacks'[i].do = "close"
    BY <1>4, <1>9, <2>1
  <2>8. StreamEnds' /\ EndTold'
    BY <1>1, <1>2, <1>3, <1>4, <1>5, <1>7, <1>14, <2>7 DEF StreamEnds, EndTold
  <2> QED BY <2>4, <2>5, <2>6, <2>8 DEF EngagedInv
<1> QED BY <1>10, <1>12, <1>13, <1>14

\* The end of the application comes last.
LEMMA AppEndsKeeps ==
  ASSUME EngagedInv, AppEnds
  PROVE  EngagedInv'
<1>1. AsgiTypes /\ CallbacksInOrder /\ EndOnItsWay /\ StreamEnds /\ EndTold
  BY DEF EngagedInv
<1>2. app = "runs" /\ app' \in {"returned", "raised", "cancelled"}
  BY DEF AppEnds
<1>3. UNCHANGED <<raising, answered, chunksSent, cancelAsked, appFuture, startedFut, completeFut, bodyQueue,
                  streamClosed, asgiCaller>>
  BY DEF AppEnds, callerSide
<1> DEFINE c == [do |-> "settle", n |-> 0]
<1>4. c \in Callback /\ c.do = "settle"
  BY DEF Callback
<1>5. callbacks' = callbacks \o <<c>>
  BY DEF AppEnds, Schedule
<1> HIDE DEF c
<1>6. callbacks \in Seq(Callback) /\ Len(callbacks) \in Nat
  BY <1>1 DEF AsgiTypes
<1>7. /\ callbacks' \in Seq(Callback) /\ Len(callbacks') = Len(callbacks) + 1 /\ callbacks' # <<>>
      /\ callbacks'[Len(callbacks) + 1] = c
      /\ \A i \in 1..Len(callbacks) : callbacks'[i] = callbacks[i]
      /\ callbacks # <<>> => callbacks'[1] = callbacks[1]
      /\ callbacks = <<>> => callbacks'[1] = c
  BY <1>4, <1>5, <1>6, Appended
<1>8. (HeadOnItsWay' <=> HeadOnItsWay) /\ Ahead' = Ahead /\ Arrived' = Arrived
  <2>1. HeadOnItsWay' <=> HeadOnItsWay
    BY <1>4, <1>7 DEF HeadOnItsWay
  <2> QED BY <1>3, <2>1 DEF Ahead, Arrived
<1>9. \A i \in 1..Len(callbacks') : i \in 1..Len(callbacks) \/ i = Len(callbacks) + 1
  BY <1>6, <1>7
<1>10. Arrived \in Int /\ Ahead \in {0, 1} /\ chunksSent \in Nat
  BY <1>1 DEF AsgiTypes, Arrived, Ahead
<1>11. AsgiTypes'
  BY <1>1, <1>2, <1>3, <1>7 DEF AsgiTypes
<1>12. CallbacksInOrder'
  <2>1. /\ startedFut' = "pending" /\ answered' # "nothing" <=> HeadOnItsWay'
        /\ startedFut' = "set" => answered' # "nothing"
        /\ Arrived' <= chunksSent'
        /\ Ahead' + chunksSent' - Arrived' <= Len(callbacks')
    BY <1>1, <1>3, <1>6, <1>7, <1>8, <1>10 DEF CallbacksInOrder
  <2>2. ASSUME NEW i \in 1..Len(callbacks')
        PROVE  /\ callbacks'[i].do = "started" => i = 1
               /\ callbacks'[i].do = "put" <=> Ahead' < i /\ i <= Ahead' + chunksSent' - Arrived'
               /\ callbacks'[i].do = "put" => callbacks'[i].n # STREAM_END
               /\ callbacks'[i].do = "close" => answered' = "complete" /\ ~ streamClosed'
               /\ callbacks'[i].do \in {"settle", "finish"} => i = Len(callbacks')
    <3>1. CASE i \in 1..Len(callbacks)
      BY <1>1, <1>2, <1>3, <1>7, <1>8, <3>1 DEF CallbacksInOrder, EndOnItsWay
    <3>2. CASE i = Len(callbacks) + 1
      BY <1>1, <1>3, <1>4, <1>6, <1>7, <1>8, <1>10, <3>2 DEF CallbacksInOrder
    <3> QED BY <1>9, <3>1, <3>2
  <2>3. ASSUME NEW i \in 1..Len(callbacks'), callbacks'[i].do = "close", NEW j \in 1..Len(callbacks'), i < j
        PROVE  callbacks'[j].do = "settle"
    <3>1. CASE j = Len(callbacks) + 1
      BY <1>4, <1>7, <3>1
    <3>2. CASE j \in 1..Len(callbacks)
      <4>1. i \in 1..Len(callbacks) /\ callbacks[i].do = "close"
        BY <1>6, <1>7, <2>3, <3>2
      <4> QED BY <1>1, <1>7, <2>3, <3>2, <4>1 DEF CallbacksInOrder
    <3> QED BY <1>9, <3>1, <3>2
  <2> QED BY <2>1, <2>2, <2>3 DEF CallbacksInOrder
<1>13. EndOnItsWay'
  BY <1>1, <1>2, <1>3, <1>4, <1>7 DEF EndOnItsWay
<1>14. StreamEnds'
  <2>1. answered' = "complete" /\ ~ streamClosed' => \E i \in 1..Len(callbacks') : callbacks'[i].do = "close"
    BY <1>1, <1>3, <1>6, <1>7 DEF StreamEnds
  <2> QED BY <1>1, <1>3, <1>8, <2>1 DEF StreamEnds
<1>15. EndTold'
  BY <1>1, <1>2, <1>3 DEF EndTold, EndOnItsWay
<1> QED BY <1>11, <1>12, <1>13, <1>14, <1>15 DEF EngagedInv

\* The callback at the head of the queue is taken.
LEMMA Taken ==
  ASSUME NEW s \in Seq(Callback), s # <<>>
  PROVE  /\ Tail(s) \in Seq(Callback) /\ Len(s) \in Nat \ {0} /\ Len(Tail(s)) = Len(s) - 1
         /\ \A i \in 1..Len(Tail(s)) : Tail(s)[i] = s[i + 1] /\ i + 1 \in 1..Len(s)
         /\ Head(s) = s[1] /\ s[1] \in Callback /\ 1 \in 1..Len(s)
OBVIOUS

\* What the order says of one callback.
LEMMA OrderOf ==
  ASSUME CallbacksInOrder, NEW i \in 1..Len(callbacks)
  PROVE  /\ callbacks[i].do = "started" => i = 1
         /\ callbacks[i].do = "put" <=> Ahead < i /\ i <= Ahead + chunksSent - Arrived
         /\ callbacks[i].do = "put" => callbacks[i].n # STREAM_END
         /\ callbacks[i].do = "close" => answered = "complete" /\ ~ streamClosed
         /\ callbacks[i].do = "close" => \A j \in 1..Len(callbacks) : i < j => callbacks[j].do = "settle"
         /\ callbacks[i].do \in {"settle", "finish"} => i = Len(callbacks)
BY DEF CallbacksInOrder

\* What is behind the callback that is taken, when nothing of the application changes: no
\* head of the response, and the rest in its order.
LEMMA RestInOrder ==
  ASSUME EngagedInv, callbacks # <<>>, callbacks' = Tail(callbacks),
         UNCHANGED <<raising, app, answered, chunksSent>>,
         Arrived' = IF callbacks[1].do = "put" THEN Arrived + 1 ELSE Arrived,
         Arrived' <= chunksSent, startedFut' # "pending" \/ answered = "nothing",
         startedFut' = "set" => answered # "nothing",
         streamClosed' => \A i \in 1..Len(callbacks) : i # 1 => callbacks[i].do # "close"
  PROVE  CallbacksInOrder'
<1>1. AsgiTypes /\ CallbacksInOrder
  BY DEF EngagedInv
<1>2. /\ callbacks' \in Seq(Callback) /\ Len(callbacks) \in Nat \ {0} /\ Len(callbacks') = Len(callbacks) - 1
      /\ \A i \in 1..Len(callbacks') : callbacks'[i] = callbacks[i + 1] /\ i + 1 \in 1..Len(callbacks)
      /\ callbacks[1] \in Callback /\ 1 \in 1..Len(callbacks)
  BY <1>1, Taken DEF AsgiTypes
<1>3. Arrived \in Int /\ Ahead \in {0, 1} /\ chunksSent \in Nat
  BY <1>1 DEF AsgiTypes, Arrived, Ahead
<1>4. ~ HeadOnItsWay' /\ Ahead' = 0
  <2>1. callbacks' # <<>> => 1 \in 1..Len(callbacks')
    BY <1>2
  <2>2. ASSUME callbacks' # <<>> PROVE callbacks'[1].do # "started"
    <3>1. callbacks'[1] = callbacks[2] /\ 2 \in 1..Len(callbacks)
      BY <1>2, <2>1, <2>2
    <3> QED BY <1>1, <3>1, OrderOf
  <2> QED BY <2>2 DEF HeadOnItsWay, Ahead
<1>5. Ahead = (IF callbacks[1].do = "started" THEN 1 ELSE 0)
  BY DEF Ahead, HeadOnItsWay
<1>5a. /\ callbacks[1].do = "put" <=> Ahead < 1 /\ 1 <= Ahead + chunksSent - Arrived
       /\ Ahead + chunksSent - Arrived <= Len(callbacks)
       /\ Arrived <= chunksSent
  BY <1>1, <1>2, OrderOf DEF CallbacksInOrder
<1>6. /\ Ahead' + chunksSent' - Arrived' <= Len(callbacks')
      /\ \A i \in 1..Len(callbacks') :
           (Ahead < i + 1 /\ i + 1 <= Ahead + chunksSent - Arrived) <=> (Ahead' < i /\ i <= Ahead' + chunksSent' - Arrived')
  <2>1. CASE callbacks[1].do = "started"
    <3>1. Arrived' = Arrived /\ Ahead = 1
      BY <1>5, <2>1
    <3> QED BY <1>2, <1>3, <1>4, <1>5a, <3>1
  <2>2. CASE callbacks[1].do = "put"
    <3>1. Arrived' = Arrived + 1 /\ Ahead = 0
      BY <1>5, <2>2
    <3> QED BY <1>2, <1>3, <1>4, <1>5a, <3>1
  <2>3. CASE callbacks[1].do \notin {"started", "put"}
    <3>1. Arrived' = Arrived /\ Ahead = 0
      BY <1>5, <2>3
    <3>2. chunksSent - Arrived <= 0
      BY <1>3, <1>5a, <2>3, <3>1
    <3> QED BY <1>2, <1>3, <1>4, <1>5a, <3>1, <3>2
  <2> QED BY <2>1, <2>2, <2>3
<1>7. ASSUME NEW i \in 1..Len(callbacks')
      PROVE  /\ callbacks'[i].do = "started" => i = 1
             /\ callbacks'[i].do = "put" <=> Ahead' < i /\ i <= Ahead' + chunksSent' - Arrived'
             /\ callbacks'[i].do = "put" => callbacks'[i].n # STREAM_END
             /\ callbacks'[i].do = "close" => answered' = "complete" /\ ~ streamClosed'
             /\ callbacks'[i].do = "close" => \A j \in 1..Len(callbacks') : i < j => callbacks'[j].do = "settle"
             /\ callbacks'[i].do \in {"settle", "finish"} => i = Len(callbacks')
  <2>1. callbacks'[i] = callbacks[i + 1] /\ i + 1 \in 1..Len(callbacks) /\ i + 1 # 1
    BY <1>2
  <2>2. callbacks'[i].do = "started" => i = 1
    BY <1>1, <2>1 DEF CallbacksInOrder
  <2>3. callbacks'[i].do = "put" <=> Ahead' < i /\ i <= Ahead' + chunksSent' - Arrived'
    <3>1. callbacks[i + 1].do = "put" <=> (Ahead < i + 1 /\ i + 1 <= Ahead + chunksSent - Arrived)
      BY <1>1, <2>1 DEF CallbacksInOrder
    <3> QED BY <1>6, <2>1, <3>1
  <2>4. callbacks'[i].do = "put" => callbacks'[i].n # STREAM_END
    BY <1>1, <2>1 DEF CallbacksInOrder
  <2>5. callbacks'[i].do = "close" => answered' = "complete" /\ ~ streamClosed'
    BY <1>1, <2>1 DEF CallbacksInOrder
  <2>6. ASSUME callbacks'[i].do = "close", NEW j \in 1..Len(callbacks'), i < j
        PROVE  callbacks'[j].do = "settle"
    <3>1. callbacks'[j] = callbacks[j + 1] /\ j + 1 \in 1..Len(callbacks) /\ i + 1 < j + 1
      BY <1>2, <2>6
    <3> QED BY <1>1, <2>1, <2>6, <3>1 DEF CallbacksInOrder
  <2>7. callbacks'[i].do \in {"settle", "finish"} => i = Len(callbacks')
    <3>1. callbacks[i + 1].do \in {"settle", "finish"} => i + 1 = Len(callbacks)
      BY <1>1, <2>1, OrderOf
    <3>2. Len(callbacks) \in Nat /\ Len(callbacks') = Len(callbacks) - 1
      BY <1>2
    <3>3. i + 1 = Len(callbacks) => i = Len(callbacks')
      <4>1. ASSUME NEW m \in Int, NEW k \in Int, NEW n \in Int, m = n - 1, k + 1 = n PROVE k = m
        BY <4>1
      <4>2. i \in Int /\ Len(callbacks) \in Int /\ Len(callbacks') \in Int
        BY <3>2
      <4> QED BY <3>2, <4>1, <4>2
    <3> QED BY <2>1, <3>1, <3>3
  <2> QED BY <2>2, <2>3, <2>4, <2>5, <2>6, <2>7
<1> QED BY <1>4, <1>6, <1>7 DEF CallbacksInOrder

\* What is taken before the end of the application leaves it on its way.
LEMMA EndStays ==
  ASSUME EngagedInv, callbacks # <<>>, callbacks' = Tail(callbacks),
         callbacks[1].do \in {"started", "put", "close"},
         UNCHANGED <<app, appFuture, completeFut>>
  PROVE  EndOnItsWay' /\ appFuture = "pending" /\ completeFut = "pending"
<1>1. AsgiTypes /\ EndOnItsWay
  BY DEF EngagedInv
<1>2. /\ callbacks' \in Seq(Callback) /\ Len(callbacks) \in Nat \ {0} /\ Len(callbacks') = Len(callbacks) - 1
      /\ \A i \in 1..Len(callbacks') : callbacks'[i] = callbacks[i + 1] /\ i + 1 \in 1..Len(callbacks)
  BY <1>1, Taken DEF AsgiTypes
<1>3. appFuture = "pending" /\ completeFut = "pending"
  BY <1>1, <1>2 DEF EndOnItsWay
<1>4. ASSUME app = "runs", NEW i \in 1..Len(callbacks') PROVE callbacks'[i].do \notin {"settle", "finish"}
  BY <1>1, <1>2, <1>4 DEF EndOnItsWay
<1>5. ASSUME app # "runs" PROVE callbacks' # <<>> /\ callbacks'[Len(callbacks')].do = "settle"
  <2>1. callbacks[Len(callbacks)].do = "settle"
    BY <1>1, <1>3, <1>5 DEF EndOnItsWay
  <2>2. Len(callbacks) # 1
    BY <2>1
  <2>3. Len(callbacks') \in 1..Len(callbacks') /\ Len(callbacks') + 1 = Len(callbacks)
    BY <1>2, <2>2
  <2>4. callbacks' # <<>>
    <3>1. Len(callbacks') # 0
      BY <2>3
    <3> QED BY <3>1
  <2> QED BY <1>2, <2>1, <2>3, <2>4
<1> QED BY <1>1, <1>3, <1>4, <1>5 DEF EndOnItsWay

\* The head of the response reaches the caller's side.
LEMMA StartedKeeps ==
  ASSUME EngagedInv, RunCallback, callbacks[1].do = "started"
  PROVE  EngagedInv'
<1>1. AsgiTypes /\ CallbacksInOrder /\ EndOnItsWay /\ StreamEnds /\ EndTold
  BY DEF EngagedInv
<1>2. callbacks # <<>> /\ Head(callbacks) = callbacks[1]
  BY <1>1, Taken DEF RunCallback, AsgiTypes
<1>3. HeadOnItsWay /\ startedFut = "pending" /\ answered # "nothing"
  BY <1>1, <1>2 DEF HeadOnItsWay, CallbacksInOrder
<1>4. /\ startedFut' = "set" /\ callbacks' = Tail(callbacks)
      /\ UNCHANGED <<raising, app, answered, chunksSent, asgiCaller, appFuture, completeFut, bodyQueue,
                     streamClosed, cancelAsked>>
  BY <1>2, <1>3 DEF RunCallback, Pending
<1>5. Arrived' = Arrived
  BY <1>4 DEF Arrived
<1>6. /\ callbacks' \in Seq(Callback) /\ Len(callbacks) \in Nat \ {0} /\ Len(callbacks') = Len(callbacks) - 1
      /\ \A i \in 1..Len(callbacks') : callbacks'[i] = callbacks[i + 1] /\ i + 1 \in 1..Len(callbacks)
  BY <1>1, <1>2, <1>4, Taken DEF AsgiTypes
<1>7. CallbacksInOrder'
  BY <1>1, <1>2, <1>3, <1>4, <1>5, RestInOrder DEF CallbacksInOrder
<1>8. EndOnItsWay' /\ completeFut = "pending"
  BY <1>2, <1>4, EndStays
<1>9. AsgiTypes'
  BY <1>1, <1>4, <1>6 DEF AsgiTypes
<1>10. StreamEnds'
  <2>1. ASSUME answered' = "complete", ~ streamClosed' PROVE \E i \in 1..Len(callbacks') : callbacks'[i].do = "close"
    <3>1. PICK i \in 1..Len(callbacks) : callbacks[i].do = "close"
      BY <1>1, <1>4, <2>1 DEF StreamEnds
    <3>2. i # 1 /\ i - 1 \in 1..Len(callbacks') /\ (i - 1) + 1 = i
      BY <1>6, <3>1
    <3> QED BY <1>6, <3>1, <3>2
  <2> QED BY <1>1, <1>4, <1>5, <2>1 DEF StreamEnds
<1>11. EndTold'
  BY <1>1, <1>3, <1>4, <1>8 DEF EndTold
<1> QED BY <1>7, <1>8, <1>9, <1>10, <1>11 DEF EngagedInv

\* A chunk reaches the queue.
LEMMA PutKeeps ==
  ASSUME EngagedInv, RunCallback, callbacks[1].do = "put"
  PROVE  EngagedInv'
<1>1. AsgiTypes /\ CallbacksInOrder /\ EndOnItsWay /\ StreamEnds /\ EndTold
  BY DEF EngagedInv
<1>2. callbacks # <<>> /\ Head(callbacks) = callbacks[1] /\ callbacks[1] \in Callback /\ 1 \in 1..Len(callbacks)
  BY <1>1, Taken DEF RunCallback, AsgiTypes
<1>3. /\ bodyQueue' = Append(bodyQueue, callbacks[1].n) /\ callbacks' = Tail(callbacks)
      /\ UNCHANGED <<raising, app, answered, chunksSent, asgiCaller, appFuture, startedFut, completeFut,
                     streamClosed, cancelAsked>>
  BY <1>2 DEF RunCallback
<1>4. callbacks[1].n \in Nat /\ callbacks[1].n # STREAM_END
  BY <1>1, <1>2 DEF Callback, CallbacksInOrder
<1>6. Arrived \in Int /\ chunksSent \in Nat /\ asgiCaller.got \in Nat
  BY <1>1 DEF AsgiTypes, Arrived
<1>5. ~ HeadOnItsWay /\ Ahead = 0 /\ 1 <= chunksSent - Arrived
  <2>1. ~ HeadOnItsWay /\ Ahead = 0
    BY DEF HeadOnItsWay, Ahead
  <2>2. 1 <= Ahead + chunksSent - Arrived
    BY <1>1, <1>2, OrderOf
  <2> QED BY <1>6, <2>1, <2>2
<1>7. ~ streamClosed /\ asgiCaller.pc # "ends"
  BY <1>1, <1>5, <1>6 DEF StreamEnds
<1>8. /\ bodyQueue' \in Seq(Nat) /\ Len(bodyQueue) \in Nat /\ Len(bodyQueue') = Len(bodyQueue) + 1
      /\ \A i \in 1..Len(bodyQueue) : bodyQueue'[i] = bodyQueue[i]
      /\ bodyQueue'[Len(bodyQueue) + 1] = callbacks[1].n /\ bodyQueue' # <<>>
  BY <1>1, <1>3, <1>4 DEF AsgiTypes
<1>9. Arrived' = Arrived + 1 /\ Arrived' <= chunksSent
  <2>1. Arrived = asgiCaller.got + Len(bodyQueue) /\ Arrived' = asgiCaller.got + Len(bodyQueue')
    BY <1>3, <1>6, <1>7, <1>8 DEF Arrived
  <2>2. Len(bodyQueue) \in Nat /\ Len(bodyQueue') = Len(bodyQueue) + 1
    BY <1>8
  <2>3. Arrived' = Arrived + 1
    BY <1>6, <2>1, <2>2
  <2>4. 1 <= chunksSent - Arrived
    BY <1>5
  <2> QED BY <1>6, <2>3, <2>4
<1>10. /\ callbacks' \in Seq(Callback) /\ Len(callbacks) \in Nat \ {0} /\ Len(callbacks') = Len(callbacks) - 1
       /\ \A i \in 1..Len(callbacks') : callbacks'[i] = callbacks[i + 1] /\ i + 1 \in 1..Len(callbacks)
  BY <1>1, <1>2, <1>3, Taken DEF AsgiTypes
<1>11. CallbacksInOrder'
  <2>1. startedFut' # "pending" \/ answered = "nothing"
    BY <1>1, <1>3, <1>5 DEF CallbacksInOrder
  <2> QED BY <1>1, <1>2, <1>3, <1>7, <1>9, <2>1, RestInOrder DEF CallbacksInOrder
<1>12. EndOnItsWay'
  BY <1>2, <1>3, EndStays
<1>13. AsgiTypes'
  BY <1>1, <1>3, <1>8, <1>10 DEF AsgiTypes
<1>14. StreamEnds'
  <2>1. ASSUME answered' = "complete" PROVE \E i \in 1..Len(callbacks') : callbacks'[i].do = "close"
    <3>1. PICK i \in 1..Len(callbacks) : callbacks[i].do = "close"
      BY <1>1, <1>3, <1>7, <2>1 DEF StreamEnds
    <3>2. i # 1 /\ i - 1 \in 1..Len(callbacks') /\ (i - 1) + 1 = i
      BY <1>10, <3>1
    <3> QED BY <1>10, <3>1, <3>2
  <2>2. \A i \in 1..Len(bodyQueue') : bodyQueue'[i] # STREAM_END
    <3>1. \A i \in 1..Len(bodyQueue') : i \in 1..Len(bodyQueue) \/ i = Len(bodyQueue) + 1
      BY <1>8
    <3> QED BY <1>1, <1>4, <1>7, <1>8, <3>1 DEF StreamEnds
  <2> QED BY <1>1, <1>3, <1>7, <2>1, <2>2 DEF StreamEnds
<1>15. EndTold'
  BY <1>1, <1>3 DEF EndTold
<1> QED BY <1>11, <1>12, <1>13, <1>14, <1>15 DEF EngagedInv

\* The end of the body reaches the queue.
LEMMA CloseKeeps ==
  ASSUME EngagedInv, RunCallback, callbacks[1].do = "close"
  PROVE  EngagedInv'
<1>1. AsgiTypes /\ CallbacksInOrder /\ EndOnItsWay /\ StreamEnds /\ EndTold
  BY DEF EngagedInv
<1>2. callbacks # <<>> /\ Head(callbacks) = callbacks[1] /\ callbacks[1] \in Callback /\ 1 \in 1..Len(callbacks)
  BY <1>1, Taken DEF RunCallback, AsgiTypes
<1>3. /\ bodyQueue' = ClosedQueue /\ streamClosed' = TRUE /\ callbacks' = Tail(callbacks)
      /\ UNCHANGED <<raising, app, answered, chunksSent, asgiCaller, appFuture, startedFut, completeFut, cancelAsked>>
  BY <1>2 DEF RunCallback
<1>4. answered = "complete" /\ ~ streamClosed
  BY <1>1, <1>2, OrderOf
<1>5. Arrived \in Int /\ chunksSent \in Nat /\ asgiCaller.got \in Nat /\ Len(bodyQueue) \in Nat
  BY <1>1 DEF AsgiTypes, Arrived
<1>6. ~ HeadOnItsWay /\ Arrived = chunksSent
  <2>1. ~ HeadOnItsWay /\ Ahead = 0
    BY DEF HeadOnItsWay, Ahead
  <2>2. ~ (0 < 1 /\ 1 <= 0 + chunksSent - Arrived) /\ Arrived <= chunksSent
    BY <1>1, <1>2, <2>1, OrderOf DEF CallbacksInOrder
  <2> QED BY <1>5, <2>1, <2>2
<1>7. asgiCaller.pc # "ends"
  BY <1>1, <1>4 DEF StreamEnds
<1>8. /\ bodyQueue' \in Seq(Nat) /\ Len(bodyQueue') = Len(bodyQueue) + 1
      /\ \A i \in 1..Len(bodyQueue) : bodyQueue'[i] = bodyQueue[i]
      /\ bodyQueue'[Len(bodyQueue) + 1] = STREAM_END /\ bodyQueue' # <<>>
  BY <1>1, <1>3, <1>4 DEF AsgiTypes, ClosedQueue, STREAM_END
<1>9. Arrived' = Arrived
  <2>1. Arrived = asgiCaller.got + Len(bodyQueue) /\ Arrived' = asgiCaller.got + Len(bodyQueue') - 1
    BY <1>3, <1>4, <1>5, <1>7, <1>8 DEF Arrived
  <2> QED BY <1>5, <1>8, <2>1
<1>10. /\ callbacks' \in Seq(Callback) /\ Len(callbacks) \in Nat \ {0} /\ Len(callbacks') = Len(callbacks) - 1
       /\ \A i \in 1..Len(callbacks') : callbacks'[i] = callbacks[i + 1] /\ i + 1 \in 1..Len(callbacks)
  BY <1>1, <1>2, <1>3, Taken DEF AsgiTypes
<1>11. CallbacksInOrder'
  <2>1. \A i \in 1..Len(callbacks) : i # 1 => callbacks[i].do # "close"
    <3>1. \A i \in 1..Len(callbacks) : 1 < i => callbacks[i].do = "settle"
      BY <1>1, <1>2, OrderOf
    <3>2. \A i \in 1..Len(callbacks) : i # 1 => 1 < i
      BY <1>10
    <3> QED BY <3>1, <3>2
  <2>2. startedFut' # "pending" \/ answered = "nothing"
    BY <1>1, <1>3, <1>6 DEF CallbacksInOrder
  <2>3. startedFut' = "set" => answered # "nothing"
    BY <1>4
  <2>4. Arrived' = (IF callbacks[1].do = "put" THEN Arrived + 1 ELSE Arrived) /\ Arrived' <= chunksSent
    BY <1>5, <1>6, <1>9
  <2> QED BY <1>2, <1>3, <2>1, <2>2, <2>3, <2>4, RestInOrder
<1>12. EndOnItsWay' /\ completeFut = "pending"
  BY <1>2, <1>3, EndStays
<1>13. AsgiTypes'
  BY <1>1, <1>3, <1>8, <1>10 DEF AsgiTypes
<1>14. StreamEnds'
  <2>1. ASSUME NEW i \in 1..Len(bodyQueue') PROVE bodyQueue'[i] = STREAM_END <=> i = Len(bodyQueue')
    <3>1. CASE i = Len(bodyQueue) + 1
      BY <1>8, <3>1
    <3>2. CASE i # Len(bodyQueue) + 1
      <4>1. i \in 1..Len(bodyQueue)
        BY <1>5, <1>8, <3>2
      <4>2. bodyQueue[i] # STREAM_END
        BY <1>1, <1>4, <4>1 DEF StreamEnds
      <4> QED BY <1>8, <3>2, <4>1, <4>2
    <3> QED BY <3>1, <3>2
  <2> QED BY <1>1, <1>3, <1>4, <1>6, <1>7, <1>8, <1>9, <2>1 DEF StreamEnds
<1>15. EndTold'
  BY <1>1, <1>3 DEF EndTold
<1> QED BY <1>11, <1>12, <1>13, <1>14, <1>15 DEF EngagedInv

\* The outcome of the application is copied to its future.
LEMMA SettleKeeps ==
  ASSUME EngagedInv, RunCallback, callbacks[1].do = "settle"
  PROVE  EngagedInv'
<1>1. AsgiTypes /\ CallbacksInOrder /\ EndOnItsWay /\ StreamEnds /\ EndTold
  BY DEF EngagedInv
<1>2. callbacks # <<>> /\ Head(callbacks) = callbacks[1] /\ 1 \in 1..Len(callbacks) /\ Len(callbacks) \in Nat
  BY <1>1, Taken DEF RunCallback, AsgiTypes
<1>3. Len(callbacks) = 1
  BY <1>1, <1>2, OrderOf
<1>4. app # "runs" /\ appFuture = "pending" /\ completeFut = "pending"
  BY <1>1, <1>2 DEF EndOnItsWay
<1> DEFINE f == [do |-> "finish", n |-> 0]
<1>5. f \in Callback /\ f.do = "finish"
  BY DEF Callback
<1>6. Tail(callbacks) = <<>>
  <2>1. Tail(callbacks) \in Seq(Callback) /\ Len(Tail(callbacks)) = 0
    BY <1>1, <1>2, <1>3, Taken DEF AsgiTypes
  <2> QED BY <2>1, EmptySeq
<1>7. /\ appFuture' = app /\ callbacks' = Tail(callbacks) \o <<f>>
      /\ UNCHANGED <<raising, app, answered, chunksSent, asgiCaller, startedFut, completeFut, bodyQueue,
                     streamClosed, cancelAsked>>
  BY <1>2, <1>4 DEF RunCallback, Pending
<1> HIDE DEF f
<1>8. callbacks' = <<f>>
  <2>1. <<f>> \in Seq(Callback)
    BY <1>5
  <2> QED BY <1>6, <1>7, <2>1, ConcatEmptySeq
<1>9. callbacks' \in Seq(Callback) /\ Len(callbacks') = 1 /\ callbacks'[1] = f /\ callbacks' # <<>>
  BY <1>5, <1>8
<1>10. ~ HeadOnItsWay /\ ~ HeadOnItsWay' /\ Ahead = 0 /\ Ahead' = 0 /\ Arrived' = Arrived
  BY <1>5, <1>7, <1>9 DEF HeadOnItsWay, Ahead, Arrived
<1>11. Arrived \in Int /\ chunksSent \in Nat
  BY <1>1 DEF AsgiTypes, Arrived
<1>12. Arrived = chunksSent
  <2>1. ~ (0 < 1 /\ 1 <= 0 + chunksSent - Arrived) /\ Arrived <= chunksSent
    BY <1>1, <1>2, <1>10, OrderOf DEF CallbacksInOrder
  <2> QED BY <1>11, <2>1
<1>13. AsgiTypes'
  BY <1>1, <1>4, <1>7, <1>9 DEF AsgiTypes
<1>14. CallbacksInOrder'
  <2>1. /\ ~ (startedFut' = "pending" /\ answered' # "nothing")
        /\ startedFut' = "set" => answered' # "nothing"
    BY <1>1, <1>7, <1>10 DEF CallbacksInOrder
  <2>2. Arrived' <= chunksSent' /\ Ahead' + chunksSent' - Arrived' <= Len(callbacks')
    BY <1>7, <1>9, <1>10, <1>11, <1>12
  <2>3. ASSUME NEW i \in 1..Len(callbacks')
        PROVE  i = Len(callbacks') /\ callbacks'[i].do = "finish" /\ ~ (i <= Ahead' + chunksSent' - Arrived')
    <3>1. i = 1 /\ Len(callbacks') = 1
      BY <1>9
    <3>2. ~ (i <= Ahead' + chunksSent' - Arrived')
      BY <1>7, <1>10, <1>11, <1>12, <3>1
    <3> QED BY <1>5, <1>9, <3>1, <3>2
  <2> QED BY <1>10, <2>1, <2>2, <2>3 DEF CallbacksInOrder
<1>15. EndOnItsWay'
  <2>1. app' # "runs" /\ appFuture' # "pending" /\ appFuture' = app'
    BY <1>1, <1>4, <1>7 DEF AsgiTypes
  <2>2. Len(callbacks') = 1 /\ completeFut' = "pending" /\ callbacks'[1].do = "finish"
    BY <1>4, <1>5, <1>7, <1>9
  <2> QED BY <2>1, <2>2 DEF EndOnItsWay
<1>16. StreamEnds'
  <2>1. answered = "complete" => streamClosed
    <3> SUFFICES ASSUME answered = "complete", ~ streamClosed PROVE FALSE
      OBVIOUS
    <3>1. \E i \in 1..Len(callbacks) : callbacks[i].do = "close"
      BY <1>1 DEF StreamEnds
    <3> QED BY <1>2, <1>3, <3>1
  <2> QED BY <1>1, <1>4, <1>7, <1>10, <2>1 DEF StreamEnds
<1>17. EndTold'
  BY <1>1, <1>4, <1>7 DEF EndTold
<1> QED BY <1>13, <1>14, <1>15, <1>16, <1>17 DEF EngagedInv

\* The end of the application: what the caller will be told of it.
LEMMA FinishKeeps ==
  ASSUME EngagedInv, RunCallback, callbacks[1].do = "finish"
  PROVE  EngagedInv'
<1>1. AsgiTypes /\ CallbacksInOrder /\ EndOnItsWay /\ StreamEnds /\ EndTold
  BY DEF EngagedInv
<1>2. callbacks # <<>> /\ Head(callbacks) = callbacks[1] /\ 1 \in 1..Len(callbacks) /\ Len(callbacks) \in Nat
  BY <1>1, Taken DEF RunCallback, AsgiTypes
<1>3. Len(callbacks) = 1
  BY <1>1, <1>2, OrderOf
<1>4. app # "runs" /\ appFuture # "pending" /\ appFuture = app /\ completeFut = "pending"
  BY <1>1, <1>2, <1>3 DEF EndOnItsWay
<1>5. /\ startedFut' = FinishedStarted /\ completeFut' = FinishedComplete
      /\ bodyQueue' = ClosedQueue /\ streamClosed' = TRUE /\ callbacks' = Tail(callbacks)
      /\ UNCHANGED <<raising, app, answered, chunksSent, asgiCaller, appFuture, cancelAsked>>
  BY <1>2, <1>4 DEF RunCallback, Pending, FinishedQueue
<1>6. callbacks' = <<>>
  BY <1>1, <1>2, <1>3, <1>5 DEF AsgiTypes
<1>7. Arrived \in Int /\ chunksSent \in Nat /\ asgiCaller.got \in Nat /\ Len(bodyQueue) \in Nat
  BY <1>1 DEF AsgiTypes, Arrived
<1>8. ~ HeadOnItsWay /\ ~ HeadOnItsWay' /\ Ahead = 0 /\ Ahead' = 0
  BY <1>6 DEF HeadOnItsWay, Ahead
<1>9. Arrived = chunksSent
  <2>1. ~ (0 < 1 /\ 1 <= 0 + chunksSent - Arrived) /\ Arrived <= chunksSent
    BY <1>1, <1>2, <1>8, OrderOf DEF CallbacksInOrder
  <2> QED BY <1>7, <2>1
<1>10. startedFut = "pending" => answered = "nothing"
  BY <1>1, <1>8 DEF CallbacksInOrder
<1>11. startedFut \in {"pending", "set"}
  BY <1>1, <1>4 DEF EndTold, AsgiTypes
<1>12. app \in {"returned", "raised", "cancelled"}
  BY <1>1, <1>4 DEF AsgiTypes
<1>13. /\ startedFut' = IF startedFut = "set" THEN "set" ELSE IF app = "cancelled" THEN "cancelled" ELSE "error"
       /\ completeFut' \in {"ok", "error", "cancelled"}
       /\ completeFut' = "ok" /\ startedFut = "set" =>
            (app = "raised" /\ ~ raising) \/ (app = "returned" /\ answered = "complete")
  BY <1>4, <1>5, <1>11, <1>12 DEF FinishedStarted, FinishedComplete, Pending
<1>14. /\ bodyQueue' \in Seq(Nat) /\ bodyQueue' = ClosedQueue
       /\ streamClosed => bodyQueue' = bodyQueue
       /\ ~ streamClosed => /\ Len(bodyQueue') = Len(bodyQueue) + 1 /\ bodyQueue' # <<>>
                            /\ \A i \in 1..Len(bodyQueue) : bodyQueue'[i] = bodyQueue[i]
                            /\ bodyQueue'[Len(bodyQueue) + 1] = STREAM_END
  BY <1>1, <1>5 DEF AsgiTypes, ClosedQueue, STREAM_END
<1>15. Arrived' = Arrived
  <2>1. CASE streamClosed
    BY <1>5, <1>14, <2>1 DEF Arrived
  <2>2. CASE ~ streamClosed
    <3>1. asgiCaller.pc # "ends"
      BY <1>1, <2>2 DEF StreamEnds
    <3>2. Arrived = asgiCaller.got + Len(bodyQueue) /\ Arrived' = asgiCaller.got + Len(bodyQueue') - 1
      BY <1>5, <1>7, <1>14, <2>2, <3>1 DEF Arrived
    <3> QED BY <1>7, <1>14, <2>2, <3>2
  <2> QED BY <2>1, <2>2
<1>16. AsgiTypes'
  <2>1. callbacks' \in Seq(Callback)
    BY <1>6
  <2>2. /\ startedFut' \in {"pending", "set", "cancelled", "error"}
        /\ completeFut' \in {"pending", "ok", "error", "cancelled"}
    BY <1>13
  <2> QED BY <1>1, <1>5, <1>14, <2>1, <2>2 DEF AsgiTypes
<1>17. CallbacksInOrder'
  <2>1. Len(callbacks') = 0
    BY <1>6
  <2>2. startedFut' # "pending" /\ (startedFut' = "set" => answered' # "nothing")
    BY <1>1, <1>5, <1>13 DEF CallbacksInOrder
  <2>3. Arrived' <= chunksSent' /\ Ahead' + chunksSent' - Arrived' <= 0
    BY <1>5, <1>7, <1>8, <1>9, <1>15
  <2> QED BY <1>8, <2>1, <2>2, <2>3 DEF CallbacksInOrder
<1>18. EndOnItsWay'
  <2>1. Len(callbacks') = 0 /\ completeFut' # "pending"
    BY <1>6, <1>13
  <2> QED BY <1>4, <1>5, <2>1 DEF EndOnItsWay
<1>19. StreamEnds'
  <2>1. CASE streamClosed
    BY <1>1, <1>5, <1>9, <1>13, <1>14, <1>15, <2>1 DEF StreamEnds
  <2>2. CASE ~ streamClosed
    <3>1. asgiCaller.pc # "ends"
      BY <1>1, <2>2 DEF StreamEnds
    <3>2. ASSUME NEW i \in 1..Len(bodyQueue') PROVE bodyQueue'[i] = STREAM_END <=> i = Len(bodyQueue')
      <4>1. CASE i = Len(bodyQueue) + 1
        BY <1>14, <2>2, <4>1
      <4>2. CASE i # Len(bodyQueue) + 1
        <5>1. i \in 1..Len(bodyQueue)
          BY <1>7, <1>14, <2>2, <4>2
        <5>2. bodyQueue[i] # STREAM_END
          BY <1>1, <2>2, <5>1 DEF StreamEnds
        <5> QED BY <1>14, <2>2, <4>2, <5>1, <5>2
      <4> QED BY <4>1, <4>2
    <3> QED BY <1>1, <1>5, <1>9, <1>13, <1>14, <1>15, <2>2, <3>1, <3>2 DEF StreamEnds
  <2> QED BY <2>1, <2>2
<1>20. EndTold'
  BY <1>1, <1>5, <1>10, <1>11, <1>12, <1>13 DEF EndTold
<1> QED BY <1>16, <1>17, <1>18, <1>19, <1>20 DEF EngagedInv

\* The caller gets the response, and reads.
LEMMA GetResponseKeeps ==
  ASSUME EngagedInv, GetResponse, Engaged'
  PROVE  EngagedInv'
<1>1. AsgiTypes /\ CallbacksInOrder /\ EndOnItsWay /\ StreamEnds /\ EndTold
  BY DEF EngagedInv
<1>2. /\ asgiCaller.pc = "waits" /\ asgiCaller.got = 0
      /\ UNCHANGED <<raising, app, answered, chunksSent, cancelAsked, callbacks, appFuture, startedFut>>
  BY <1>1 DEF GetResponse, mainSide, EndTold
<1>3. asgiCaller \in [pc : {"waits", "reads", "ends"}, got : Nat, status : {"none", "app", "500"}]
  BY <1>1 DEF AsgiTypes
<1>4. \/ startedFut = "set" /\ asgiCaller' = [asgiCaller EXCEPT !.pc = "reads", !.status = "app"]
         /\ UNCHANGED <<completeFut, bodyQueue, streamClosed>>
      \/ startedFut = "error" /\ ~ raising /\ asgiCaller' = [asgiCaller EXCEPT !.pc = "reads", !.status = "500"]
         /\ UNCHANGED <<completeFut, bodyQueue, streamClosed>>
  <2>1. startedFut = "error" => completeFut # "pending" /\ streamClosed
    BY <1>1 DEF EndTold, StreamEnds
  <2>2. asgiCaller' # [asgiCaller EXCEPT !.pc = "cancelled"] /\ asgiCaller' # [asgiCaller EXCEPT !.pc = "error"]
    BY <1>3 DEF Engaged
  <2>3. streamClosed \in BOOLEAN
    BY <1>1 DEF AsgiTypes
  <2> QED BY <2>1, <2>2, <2>3 DEF GetResponse, Pending, ClosedQueue
<1>5. /\ asgiCaller'.pc = "reads" /\ asgiCaller'.got = 0
      /\ asgiCaller' \in [pc : {"waits", "reads", "ends"}, got : Nat, status : {"none", "app", "500"}]
      /\ UNCHANGED <<completeFut, bodyQueue, streamClosed>>
      /\ \/ startedFut = "set" /\ asgiCaller'.status = "app"
         \/ startedFut = "error" /\ ~ raising /\ asgiCaller'.status = "500"
  BY <1>2, <1>3, <1>4
<1>6. Arrived' = Arrived /\ (HeadOnItsWay' <=> HeadOnItsWay) /\ Ahead' = Ahead
  BY <1>2, <1>5 DEF Arrived, HeadOnItsWay, Ahead
<1>7. AsgiTypes'
  BY <1>1, <1>2, <1>5 DEF AsgiTypes
<1>8. CallbacksInOrder'
  BY <1>1, <1>2, <1>5, <1>6 DEF CallbacksInOrder
<1>9. EndOnItsWay'
  BY <1>1, <1>2, <1>5 DEF EndOnItsWay
<1>10. StreamEnds'
  BY <1>1, <1>2, <1>5, <1>6 DEF StreamEnds
<1>11. EndTold'
  BY <1>1, <1>2, <1>5 DEF EndTold
<1> QED BY <1>7, <1>8, <1>9, <1>10, <1>11 DEF EngagedInv

\* It takes a chunk, or the end of the stream, which is the last it takes.
LEMMA ReadChunkKeeps ==
  ASSUME EngagedInv, ReadChunk
  PROVE  EngagedInv'
<1>1. AsgiTypes /\ CallbacksInOrder /\ EndOnItsWay /\ StreamEnds /\ EndTold
  BY DEF EngagedInv
<1>2. /\ asgiCaller.pc = "reads" /\ bodyQueue # <<>> /\ bodyQueue' = Tail(bodyQueue)
      /\ UNCHANGED <<raising, app, answered, chunksSent, cancelAsked, callbacks, appFuture, startedFut,
                     completeFut, streamClosed>>
  BY DEF ReadChunk, mainSide
<1>3. asgiCaller \in [pc : {"waits", "reads", "ends"}, got : Nat, status : {"none", "app", "500"}]
  BY <1>1 DEF AsgiTypes
<1>4. /\ bodyQueue' \in Seq(Nat) /\ Len(bodyQueue) \in Nat \ {0} /\ Len(bodyQueue') = Len(bodyQueue) - 1
      /\ \A i \in 1..Len(bodyQueue') : bodyQueue'[i] = bodyQueue[i + 1] /\ i + 1 \in 1..Len(bodyQueue)
      /\ Head(bodyQueue) = bodyQueue[1] /\ 1 \in 1..Len(bodyQueue)
  BY <1>1, <1>2 DEF AsgiTypes
<1>5. bodyQueue[1] = STREAM_END <=> streamClosed /\ Len(bodyQueue) = 1
  BY <1>1, <1>4 DEF StreamEnds
<1>6. CASE bodyQueue[1] = STREAM_END
  <2>1. asgiCaller' = [asgiCaller EXCEPT !.pc = "ends"]
    BY <1>4, <1>6 DEF ReadChunk
  <2>2. /\ asgiCaller'.pc = "ends" /\ asgiCaller'.got = asgiCaller.got /\ asgiCaller'.status = asgiCaller.status
        /\ asgiCaller' \in [pc : {"waits", "reads", "ends"}, got : Nat, status : {"none", "app", "500"}]
    BY <1>3, <2>1
  <2>3. streamClosed /\ Len(bodyQueue) = 1 /\ Len(bodyQueue') = 0 /\ bodyQueue' = <<>>
    <3>1. streamClosed /\ Len(bodyQueue) = 1
      BY <1>5, <1>6
    <3>2. Len(bodyQueue') = 0
      BY <1>4, <3>1
    <3> QED BY <1>4, <3>1, <3>2, EmptySeq
  <2>4. Arrived' = Arrived
    <3>1. Arrived = asgiCaller.got + 1 - 1 /\ Arrived' = asgiCaller.got + 0 - 0
      BY <1>2, <2>2, <2>3 DEF Arrived
    <3> QED BY <1>3, <3>1
  <2>5. (HeadOnItsWay' <=> HeadOnItsWay) /\ Ahead' = Ahead
    BY <1>2 DEF HeadOnItsWay, Ahead
  <2>6. AsgiTypes'
    BY <1>1, <1>2, <1>4, <2>2 DEF AsgiTypes
  <2>7. CallbacksInOrder'
    BY <1>1, <1>2, <2>4, <2>5 DEF CallbacksInOrder
  <2>8. EndOnItsWay'
    BY <1>1, <1>2 DEF EndOnItsWay
  <2>9. StreamEnds'
    BY <1>1, <1>2, <2>2, <2>3, <2>4 DEF StreamEnds
  <2>10. EndTold'
    BY <1>1, <1>2, <2>2 DEF EndTold
  <2> QED BY <2>6, <2>7, <2>8, <2>9, <2>10 DEF EngagedInv
<1>7. CASE bodyQueue[1] # STREAM_END
  <2>1. asgiCaller' = [asgiCaller EXCEPT !.got = @ + 1]
    BY <1>4, <1>7 DEF ReadChunk
  <2>2. /\ asgiCaller'.pc = "reads" /\ asgiCaller'.got = asgiCaller.got + 1 /\ asgiCaller'.status = asgiCaller.status
        /\ asgiCaller' \in [pc : {"waits", "reads", "ends"}, got : Nat, status : {"none", "app", "500"}]
    BY <1>2, <1>3, <2>1
  <2>3. Arrived' = Arrived
    <3>1. /\ Arrived = asgiCaller.got + Len(bodyQueue) - (IF streamClosed THEN 1 ELSE 0)
          /\ Arrived' = (asgiCaller.got + 1) + (Len(bodyQueue) - 1) - (IF streamClosed THEN 1 ELSE 0)
      BY <1>2, <1>4, <2>2 DEF Arrived
    <3>2. asgiCaller.got \in Nat /\ Len(bodyQueue) \in Nat
      BY <1>3, <1>4
    <3>3. CASE streamClosed
      <4>1. Arrived = asgiCaller.got + Len(bodyQueue) - 1 /\ Arrived' = (asgiCaller.got + 1) + (Len(bodyQueue) - 1) - 1
        BY <3>1, <3>3
      <4> QED BY <3>2, <4>1
    <3>4. CASE ~ streamClosed
      <4>1. Arrived = asgiCaller.got + Len(bodyQueue) - 0 /\ Arrived' = (asgiCaller.got + 1) + (Len(bodyQueue) - 1) - 0
        BY <3>1, <3>4
      <4> QED BY <3>2, <4>1
    <3> QED BY <3>3, <3>4
  <2>4. (HeadOnItsWay' <=> HeadOnItsWay) /\ Ahead' = Ahead
    BY <1>2 DEF HeadOnItsWay, Ahead
  <2>5. AsgiTypes'
    BY <1>1, <1>2, <1>4, <2>2 DEF AsgiTypes
  <2>6. CallbacksInOrder'
    BY <1>1, <1>2, <2>3, <2>4 DEF CallbacksInOrder
  <2>7. EndOnItsWay'
    BY <1>1, <1>2 DEF EndOnItsWay
  <2>8. StreamEnds'
    <3>1. ASSUME NEW i \in 1..Len(bodyQueue')
          PROVE  bodyQueue'[i] = STREAM_END <=> (streamClosed' /\ i = Len(bodyQueue'))
      <4>1. bodyQueue[i + 1] = STREAM_END <=> (streamClosed /\ i + 1 = Len(bodyQueue))
        BY <1>1, <1>4 DEF StreamEnds
      <4>2. i + 1 = Len(bodyQueue) <=> i = Len(bodyQueue')
        BY <1>4
      <4> QED BY <1>2, <1>4, <4>1, <4>2
    <3>2. streamClosed => bodyQueue' # <<>>
      <4> SUFFICES ASSUME streamClosed, bodyQueue' = <<>> PROVE FALSE
        OBVIOUS
      <4>1. Len(bodyQueue) = 1
        BY <1>4
      <4> QED BY <1>5, <1>7, <4>1
    <3> QED BY <1>1, <1>2, <2>2, <2>3, <3>1, <3>2 DEF StreamEnds
  <2>9. EndTold'
    BY <1>1, <1>2, <2>2 DEF EndTold
  <2> QED BY <2>5, <2>6, <2>7, <2>8, <2>9 DEF EngagedInv
<1> QED BY <1>6, <1>7

\* Everything was read when the caller comes to its end.
LEMMA DoneIsWhole ==
  ASSUME EngagedInv, AwaitComplete, asgiCaller'.pc = "done"
  PROVE  app' # "runs" /\ EndedMeansWhole'
<1>1. AsgiTypes /\ EndOnItsWay /\ StreamEnds /\ EndTold
  BY DEF EngagedInv
<1>2. asgiCaller.pc = "ends" /\ completeFut # "pending" /\ UNCHANGED <<raising, app, answered, chunksSent>>
  BY DEF AwaitComplete, Aclose, mainSide
<1>3. asgiCaller \in [pc : {"waits", "reads", "ends"}, got : Nat, status : {"none", "app", "500"}]
  BY <1>1 DEF AsgiTypes
<1>4. completeFut \in {"ok", "error", "cancelled"}
  BY <1>1, <1>2 DEF AsgiTypes
<1>5. completeFut = "ok" /\ asgiCaller'.got = asgiCaller.got /\ asgiCaller'.status = asgiCaller.status
  BY <1>3, <1>4 DEF AwaitComplete, Aclose
<1>6. app # "runs"
  BY <1>1, <1>2 DEF EndOnItsWay
<1>7. asgiCaller.got = chunksSent
  <2>1. Len(bodyQueue) = 0 /\ Arrived = chunksSent
    BY <1>1, <1>2 DEF StreamEnds
  <2>2. Arrived = asgiCaller.got + 0 - 0
    BY <1>2, <2>1 DEF Arrived
  <2> QED BY <1>3, <2>1, <2>2
<1>8. answered = "nothing" => chunksSent = 0
  BY <1>1 DEF AsgiTypes
<1> QED BY <1>1, <1>2, <1>5, <1>6, <1>7, <1>8 DEF EndTold, EndedMeansWhole

\* Every step of the transport keeps the invariant.
LEMMA AsgiStep ==
  ASSUME AsgiInv, [AsgiNext]_atVars
  PROVE  AsgiInv'
<1>1. ASSUME UNCHANGED atVars PROVE AsgiInv'
  BY <1>1 DEF AsgiInv, Engaged, EngagedInv, AsgiTypes, CallbacksInOrder, EndOnItsWay, StreamEnds, EndTold,
              EndedMeansWhole, Arrived, HeadOnItsWay, Ahead, atVars
<1>2. ASSUME AsgiNext, Engaged, Engaged' PROVE EngagedInv'
  <2>1. EngagedInv
    BY <1>2 DEF AsgiInv
  <2>2. CASE CancelSource
    BY <2>1, <2>2 DEF EngagedInv, AsgiTypes, CancelSource
  <2>3. CASE RunCallback
    <3>1. callbacks[1] \in Callback /\ Head(callbacks) = callbacks[1]
      BY <2>1, <2>3, Taken DEF EngagedInv, AsgiTypes, RunCallback
    <3>2. callbacks[1].do \in {"started", "put", "close", "settle", "finish"}
      BY <3>1 DEF Callback
    <3> QED BY <2>1, <2>3, <3>2, StartedKeeps, PutKeeps, CloseKeeps, SettleKeeps, FinishKeeps
  <2>4. asgiCaller \in [pc : {"waits", "reads", "ends"}, got : Nat, status : {"none", "app", "500"}]
    BY <2>1 DEF EngagedInv, AsgiTypes
  <2>5. CASE AwaitComplete
    <3>1. completeFut \in {"ok", "error", "cancelled"}
      BY <2>1, <2>5 DEF EngagedInv, AsgiTypes, AwaitComplete
    <3>2. asgiCaller'.pc \in {"done", "error", "cancelled"}
      BY <2>4, <2>5, <3>1 DEF AwaitComplete, Aclose
    <3> QED BY <1>2, <3>2 DEF Engaged
  <2>6. CASE CallerStops
    <3>1. asgiCaller'.pc \in {"closed", "gone"}
      BY <2>4, <2>6 DEF CallerStops, Aclose
    <3> QED BY <1>2, <3>1 DEF Engaged
  <2> QED BY <1>2, <2>1, <2>2, <2>3, <2>5, <2>6, SendStartKeeps, SendBodyKeeps, AppEndsKeeps, GetResponseKeeps,
             ReadChunkKeeps DEF AsgiNext, CallerStep
<1>3. ASSUME AsgiNext, ~ Engaged PROVE asgiCaller' = asgiCaller
  BY <1>3 DEF AsgiNext, Engaged, SendStart, SendBody, AppEnds, CancelSource, RunCallback, CallerStep, GetResponse,
              ReadChunk, AwaitComplete, CallerStops, Aclose, callerSide
<1>4. ASSUME AsgiNext, asgiCaller'.pc = "done" PROVE app' # "runs" /\ EndedMeansWhole'
  <2>1. CASE Engaged
    <3>1. EngagedInv
      BY <2>1 DEF AsgiInv
    <3>2. asgiCaller \in [pc : {"waits", "reads", "ends"}, got : Nat, status : {"none", "app", "500"}]
      BY <3>1 DEF EngagedInv, AsgiTypes
    <3>3. asgiCaller.pc # "done"
      BY <2>1 DEF Engaged
    <3>4. ~ GetResponse /\ ~ ReadChunk /\ ~ CallerStops
      <4>1. ~ GetResponse
        BY <1>4, <3>2 DEF GetResponse
      <4>2. ~ ReadChunk
        BY <1>4, <3>2 DEF ReadChunk
      <4>3. ~ CallerStops
        BY <1>4, <3>2 DEF CallerStops, Aclose
      <4> QED BY <4>1, <4>2, <4>3
    <3>5. AwaitComplete
      BY <1>4, <3>3, <3>4 DEF AsgiNext, CallerStep, SendStart, SendBody, AppEnds, CancelSource, RunCallback, callerSide
    <3> QED BY <1>4, <3>1, <3>5, DoneIsWhole
  <2>2. CASE ~ Engaged
    <3>1. asgiCaller' = asgiCaller
      BY <1>3, <1>4, <2>2
    <3>2. app # "runs" /\ EndedMeansWhole /\ asgiCaller.pc = "done"
      BY <1>4, <3>1 DEF AsgiInv
    <3>3. UNCHANGED <<raising, app, answered, chunksSent>>
      BY <1>4, <3>2 DEF AsgiNext, SendStart, SendBody, AppEnds, CancelSource, RunCallback, CallerStep, GetResponse,
                        ReadChunk, AwaitComplete, CallerStops, Aclose, mainSide
    <3> QED BY <3>1, <3>2, <3>3 DEF EndedMeansWhole
  <2> QED BY <2>1, <2>2
<1>5. ASSUME AsgiNext, Engaged' PROVE Engaged
  BY <1>3, <1>5 DEF Engaged
<1> QED BY <1>1, <1>2, <1>4, <1>5 DEF AsgiInv

(***************************************************************************)
(* The messages of the A2A endpoint                                        *)
(***************************************************************************)
\* Whatever is refused, with whichever reply, is an event of the answer.
Replies ==
  {"none", "WORKING", "SUBMITTED", "FAILED", "INPUT_REQUIRED", "COMPLETED", "INVALID_PARAMS", "INTERNAL_ERROR"}
    \cup {Route(m) : m \in MessageRequests} \cup {MessageRefusal(m) : m \in MessageRequests}
    \cup {PartsRefusal(m) : m \in MessageRequests}
AnswerEvent == [kind : {"error", "task", "status", "artifact", "final"}, state : Replies]
Contents == {"values", "messages", "blank"}
Chunk == Contents \cup {"error", "metadata", "pause"}

MessageTypes ==
  /\ MessageTypeOK
  /\ threadPaused \in BOOLEAN
  /\ answer \in Seq(AnswerEvent)
  /\ run.st \in {"none", "running", "over"} /\ run.end \in {"none", "ok", "pause", "error"}
  /\ run = [st |-> run.st, attempt |-> run.attempt, sent |-> run.sent, fresh |-> run.fresh, end |-> run.end]
  /\ chunks \in Seq(Chunk)
  /\ kept \in [result : {"none", "values", "pause"}, err : BOOLEAN, working : BOOLEAN]

\* A run is made once, by a handler that then follows its stream or joins it.
RunOfMessage ==
  /\ run.st = "none" => run.end = "none" /\ run.fresh = FALSE /\ chunks = <<>> /\ kept.result = "none"
  /\ run.st = "running" => run.end = "none"
  /\ run.st = "over" => run.end # "none"
  /\ pc = "stream" => Streams(req) /\ run.st # "none"
  /\ pc = "join" => ~ Streams(req) /\ run.st # "none"
  /\ pc \notin {"stream", "join", "done"} => run.st = "none"

\* The error the handler knows of was not the last it will hear: something came after it.
ErrorCleared ==
  \/ /\ \A j \in 1..Len(chunks) : chunks[j] # "error"
     /\ ~ kept.err
  \/ \E i \in 1..Len(chunks) :
       /\ chunks[i] \in Contents
       /\ \A j \in 1..Len(chunks) : i <= j => chunks[j] # "error"
NoPause == kept.result # "pause" /\ \A j \in 1..Len(chunks) : chunks[j] # "pause"

PauseAtEnd == IF chunks = <<>> THEN kept.result = "pause" /\ ~ kept.err ELSE chunks[Len(chunks)] = "pause"
ErrorAtEnd == IF chunks = <<>> THEN kept.err ELSE chunks[Len(chunks)] = "error"

\* What is on its way to the handler, and what it kept, tell how the run ends.
ChunksTell ==
  pc = "stream" =>
    /\ run.st = "running" => NoPause
    /\ run.st = "running" /\ run.fresh => ErrorCleared
    /\ run.end = "ok" => NoPause /\ ErrorCleared
    /\ run.end = "pause" => PauseAtEnd
    /\ run.end = "error" => ErrorAtEnd

OutcomeTold ==
  /\ LastEvent(answer).state = TaskState(run.end)
  /\ Streams(req) /\ run.end = "pause" => answer[Len(answer) - 1].kind = "artifact"

AnswerTells ==
  pc = "done" =>
    /\ answer # <<>>
    /\ LastEvent(answer).kind = "error" \/ run.st = "none" \/ (run.st = "over" /\ OutcomeTold)

MessageInv == MessageTypes /\ RunOfMessage /\ ChunksTell /\ AnswerTells

\* What Append and Tail do to a sequence of chunks.
LEMMA ChunkAppended ==
  ASSUME NEW s \in Seq(Chunk), NEW c \in Chunk
  PROVE  /\ Append(s, c) \in Seq(Chunk) /\ Len(Append(s, c)) = Len(s) + 1 /\ Len(s) \in Nat
         /\ Append(s, c)[Len(s) + 1] = c /\ Append(s, c) # <<>>
         /\ \A i \in 1..Len(s) : Append(s, c)[i] = s[i]
OBVIOUS

\* What Head and Tail do to a sequence of chunks.
LEMMA ChunkTaken ==
  ASSUME NEW s \in Seq(Chunk), s # <<>>
  PROVE  /\ Tail(s) \in Seq(Chunk) /\ Len(Tail(s)) = Len(s) - 1 /\ Len(s) \in Nat /\ Len(s) > 0
         /\ Head(s) = s[1] /\ s[1] \in Chunk
         /\ \A i \in 1..Len(s) - 1 : Tail(s)[i] = s[i + 1]
OBVIOUS

\* The events a request is answered with, at its end.
LEMMA AnswerGrows ==
  ASSUME MessageTypes, NEW events \in Seq(AnswerEvent), events # <<>>, AnswerMessage(events)
  PROVE  /\ pc' = "done" /\ answer' \in Seq(AnswerEvent) /\ answer' # <<>>
         /\ LastEvent(answer') = events[Len(events)]
         /\ Len(events) = 2 => answer'[Len(answer') - 1] = events[1]
<1>1. answer \in Seq(AnswerEvent) /\ answer' = answer \o events /\ pc' = "done"
  BY DEF MessageTypes, AnswerMessage
<1>2. Len(events) \in Nat /\ Len(events) > 0 /\ Len(answer) \in Nat
  BY <1>1
<1>3. answer' \in Seq(AnswerEvent) /\ Len(answer') = Len(answer) + Len(events) /\ answer' # <<>>
  <2>1. answer' \in Seq(AnswerEvent) /\ Len(answer') = Len(answer) + Len(events)
    BY <1>1
  <2>2. Len(answer') # 0
    BY <1>2, <2>1
  <2> QED BY <2>1, <2>2
<1>4. \A i \in 1..Len(events) : answer'[Len(answer) + i] = events[i]
  BY <1>1
<1>5. LastEvent(answer') = events[Len(events)]
  BY <1>2, <1>3, <1>4 DEF LastEvent
<1>6. Len(events) = 2 => answer'[Len(answer') - 1] = events[1]
  BY <1>2, <1>3, <1>4
<1> QED BY <1>1, <1>2, <1>3, <1>5, <1>6

\* A refusal ends a request without a run, or that of a broken stream.
LEMMA RefusalEnds ==
  ASSUME MessageInv, NEW reply \in Replies, Refuse(reply), UNCHANGED <<req, run, chunks, kept>>,
         tries' \in 1..3, resumes' \in BOOLEAN, threadPaused' \in BOOLEAN, schema' = schema,
         cachedSchema' \in {"empty", "messages", "other", "none"}
  PROVE  MessageInv'
<1> DEFINE e == [kind |-> "error", state |-> reply]
<1>1. MessageTypes /\ RunOfMessage
  BY DEF MessageInv
<1>2. <<e>> \in Seq(AnswerEvent) /\ <<e>> # <<>> /\ AnswerMessage(<<e>>) /\ <<e>>[Len(<<e>>)] = e
  <2>1. e \in AnswerEvent
    BY DEF AnswerEvent
  <2> QED BY <2>1 DEF Refuse
<1>3. pc' = "done" /\ answer' \in Seq(AnswerEvent) /\ answer' # <<>> /\ LastEvent(answer') = e
  BY <1>1, <1>2, AnswerGrows
<1>4. LastEvent(answer').kind = "error"
  BY <1>3
<1>5. MessageTypeOK'
  <2>1. \A i \in DOMAIN answer' : answer'[i].kind \in {"error", "task", "status", "artifact", "final"}
    <3>1. \A i \in DOMAIN answer' : answer'[i] \in AnswerEvent
      BY <1>3
    <3> QED BY <3>1 DEF AnswerEvent
  <2> QED BY <1>1, <1>3, <2>1 DEF MessageTypes, MessageTypeOK
<1> HIDE DEF e
<1>6. MessageTypes' /\ RunOfMessage'
  BY <1>1, <1>3, <1>5 DEF MessageTypes, RunOfMessage
<1>7. ChunksTell' /\ AnswerTells'
  BY <1>3, <1>4 DEF ChunksTell, AnswerTells
<1> QED BY <1>6, <1>7 DEF MessageInv

\* The handler goes on to its next step, before there is a run.
LEMMA HandlerGoesOn ==
  ASSUME MessageInv, run.st = "none", UNCHANGED <<req, run, chunks, kept, answer>>,
         pc' \in {"assistant", "schemas", "parts", "look", "create", "get"},
         tries' \in 1..3, resumes' \in BOOLEAN, threadPaused' \in BOOLEAN, schema' = schema,
         cachedSchema' \in {"empty", "messages", "other", "none"}
  PROVE  MessageInv'
BY DEF MessageInv, MessageTypes, MessageTypeOK, RunOfMessage, ChunksTell, AnswerTells

\* What is refused before there is a run, and what goes on.
LEMMA RequestHandled ==
  ASSUME MessageInv,
         \/ RouteRequest \/ GetAssistant \/ ValidateSupportsMessages \/ ProcessParts \/ LookAtThread
         \/ \E status \in {"400", "403", "404", "409", "none"} : RefuseCreate(status)
         \/ BreakMessageStream
  PROVE  MessageInv'
<1>1. MessageTypes /\ MessageTypeOK /\ RunOfMessage /\ req \in MessageRequests
  BY DEF MessageInv, MessageTypes, MessageTypeOK
<1>2. /\ Route(req) \in Replies /\ MessageRefusal(req) \in Replies /\ PartsRefusal(req) \in Replies
      /\ "INVALID_PARAMS" \in Replies /\ "INTERNAL_ERROR" \in Replies
  BY <1>1 DEF Replies
<1>3. CASE RouteRequest
  <2>1. run.st = "none"
    BY <1>1, <1>3 DEF RouteRequest, RunOfMessage
  <2>2. UNCHANGED <<req, tries, resumes, threadPaused, schema, cachedSchema, run, chunks, kept>>
    BY <1>3 DEF RouteRequest, worldVars, runVars
  <2>3. \/ Refuse(Route(req)) \/ Refuse(MessageRefusal(req))
        \/ pc' \in {"get", "assistant"} /\ UNCHANGED answer
    BY <1>3 DEF RouteRequest, Goto
  <2> QED BY <1>1, <1>2, <2>1, <2>2, <2>3, RefusalEnds, HandlerGoesOn DEF MessageTypes, MessageTypeOK
<1>4. CASE GetAssistant
  <2>1. run.st = "none"
    BY <1>1, <1>4 DEF GetAssistant, RunOfMessage
  <2>2. UNCHANGED <<req, tries, resumes, threadPaused, schema, cachedSchema, run, chunks, kept>>
    BY <1>4 DEF GetAssistant, worldVars, runVars
  <2>3. Refuse("INVALID_PARAMS") \/ (pc' = "schemas" /\ UNCHANGED answer)
    BY <1>4 DEF GetAssistant, Goto
  <2> QED BY <1>1, <1>2, <2>1, <2>2, <2>3, RefusalEnds, HandlerGoesOn DEF MessageTypes, MessageTypeOK
<1>5. CASE ValidateSupportsMessages
  <2>1. run.st = "none"
    BY <1>1, <1>5 DEF ValidateSupportsMessages, RunOfMessage
  <2>2. /\ UNCHANGED <<req, tries, resumes, threadPaused, schema, run, chunks, kept>>
        /\ cachedSchema' \in {"empty", "messages", "other", "none"}
    BY <1>1, <1>5 DEF ValidateSupportsMessages, runVars, MessageTypeOK
  <2>3. Refuse("INVALID_PARAMS") \/ (pc' = "parts" /\ UNCHANGED answer)
    BY <1>5 DEF ValidateSupportsMessages, Goto
  <2> QED BY <1>1, <1>2, <2>1, <2>2, <2>3, RefusalEnds, HandlerGoesOn DEF MessageTypes, MessageTypeOK
<1>6. CASE ProcessParts
  <2>1. run.st = "none"
    BY <1>1, <1>6 DEF ProcessParts, RunOfMessage
  <2>2. /\ UNCHANGED <<req, tries, threadPaused, schema, cachedSchema, run, chunks, kept>>
        /\ resumes' \in BOOLEAN
    BY <1>6 DEF ProcessParts, worldVars, runVars
  <2>3. Refuse(PartsRefusal(req)) \/ (pc' \in {"look", "create"} /\ UNCHANGED answer)
    BY <1>6 DEF ProcessParts, Goto
  <2> QED BY <1>1, <1>2, <2>1, <2>2, <2>3, RefusalEnds, HandlerGoesOn DEF MessageTypes, MessageTypeOK
<1>7. CASE LookAtThread
  <2>1. run.st = "none"
    BY <1>1, <1>7 DEF LookAtThread, RunOfMessage
  <2>2. UNCHANGED <<req, threadPaused, schema, cachedSchema, run, chunks, kept>>
    BY <1>7 DEF LookAtThread, worldVars, runVars
  <2>3. tries \in 1..3 /\ resumes \in BOOLEAN /\ threadPaused \in BOOLEAN
    BY <1>1 DEF MessageTypes, MessageTypeOK
  <2>4. tries' \in 1..3 /\ resumes' \in BOOLEAN
    <3>1. tries' = tries \/ (tries > 1 /\ tries' = tries - 1)
      BY <1>7 DEF LookAtThread
    <3>2. resumes' = resumes \/ resumes' = TRUE
      BY <1>7 DEF LookAtThread
    <3>3. tries' \in 1..3
      BY <2>3, <3>1
    <3> QED BY <2>3, <3>2, <3>3
  <2>5. Refuse("INVALID_PARAMS") \/ (pc' \in {"look", "create"} /\ UNCHANGED answer)
    BY <1>7 DEF LookAtThread, Goto
  <2> QED BY <1>1, <1>2, <2>1, <2>2, <2>3, <2>4, <2>5, RefusalEnds, HandlerGoesOn DEF MessageTypes, MessageTypeOK
<1>8. CASE \E status \in {"400", "403", "404", "409", "none"} : RefuseCreate(status)
  <2>1. UNCHANGED <<req, tries, resumes, threadPaused, schema, cachedSchema, run, chunks, kept>>
    BY <1>8 DEF RefuseCreate, worldVars, runVars
  <2>2. Refuse("INVALID_PARAMS") \/ Refuse("INTERNAL_ERROR")
    BY <1>8 DEF RefuseCreate, CreateError
  <2> QED BY <1>1, <1>2, <2>1, <2>2, RefusalEnds DEF MessageTypes, MessageTypeOK
<1>9. CASE BreakMessageStream
  <2>1. UNCHANGED <<req, tries, resumes, threadPaused, schema, cachedSchema, run, chunks, kept>>
    BY <1>9 DEF BreakMessageStream, worldVars, runVars
  <2>2. Refuse("INTERNAL_ERROR")
    BY <1>9 DEF BreakMessageStream
  <2> QED BY <1>1, <1>2, <2>1, <2>2, RefusalEnds DEF MessageTypes, MessageTypeOK
<1> QED BY <1>3, <1>4, <1>5, <1>6, <1>7, <1>8, <1>9

\* A stored answer to tasks/get, and what the world does while there is no run.
LEMMA RestOfTheWorld ==
  ASSUME MessageInv, GetHistory \/ ChangeWorld
  PROVE  MessageInv'
<1>1. MessageTypes /\ MessageTypeOK /\ RunOfMessage /\ AnswerTells
  BY DEF MessageInv, MessageTypes
<1>2. CASE GetHistory
  <2> DEFINE e == [kind |-> "final", state |-> "none"]
  <2>1. <<e>> \in Seq(AnswerEvent) /\ <<e>> # <<>> /\ AnswerMessage(<<e>>)
    <3>1. e \in AnswerEvent
      BY DEF AnswerEvent, Replies
    <3> QED BY <1>2, <3>1 DEF GetHistory
  <2> HIDE DEF e
  <2>2. pc' = "done" /\ answer' \in Seq(AnswerEvent) /\ answer' # <<>>
    BY <1>1, <2>1, AnswerGrows
  <2>3. UNCHANGED <<req, tries, resumes, threadPaused, schema, cachedSchema, run, chunks, kept>> /\ run.st = "none"
    BY <1>1, <1>2 DEF GetHistory, RunOfMessage, worldVars, runVars
  <2>4. \A i \in DOMAIN answer' : answer'[i] \in AnswerEvent
    BY <2>2
  <2>5. MessageTypeOK'
    BY <1>1, <2>2, <2>3, <2>4 DEF MessageTypeOK, AnswerEvent
  <2>6. MessageTypes' /\ RunOfMessage'
    BY <1>1, <2>2, <2>3, <2>5 DEF MessageTypes, RunOfMessage
  <2>7. ChunksTell' /\ AnswerTells'
    BY <2>2, <2>3 DEF ChunksTell, AnswerTells
  <2> QED BY <2>6, <2>7 DEF MessageInv
<1>3. CASE ChangeWorld
  <2>1. UNCHANGED <<req, pc, tries, resumes, run, chunks, kept, answer, history>> /\ run.st = "none" /\ pc # "done"
    BY <1>3 DEF ChangeWorld, runVars
  <2>2. threadPaused' \in BOOLEAN /\ schema' \in {"messages", "other", "none"}
        /\ cachedSchema' \in {"empty", "messages", "other", "none"}
    BY <1>1, <1>3 DEF ChangeWorld, MessageTypes, MessageTypeOK
  <2>3. MessageTypes' /\ RunOfMessage'
    BY <1>1, <2>1, <2>2 DEF MessageTypes, MessageTypeOK, RunOfMessage
  <2>4. ChunksTell' /\ AnswerTells'
    BY <1>1, <2>1 DEF ChunksTell, AnswerTells, RunOfMessage
  <2> QED BY <2>3, <2>4 DEF MessageInv
<1> QED BY <1>2, <1>3

\* A message has a type only, while its run is made and goes on.
LEMMA MessageTyped ==
  ASSUME MessageTypes, UNCHANGED <<req, tries, resumes, schema, cachedSchema>>, threadPaused' \in BOOLEAN,
         pc' \in {"stream", "join", "done"}, answer' \in Seq(AnswerEvent), chunks' \in Seq(Chunk),
         run' = [st |-> run'.st, attempt |-> run'.attempt, sent |-> run'.sent, fresh |-> run'.fresh, end |-> run'.end],
         run'.st \in {"none", "running", "over"}, run'.end \in {"none", "ok", "pause", "error"},
         kept' \in [result : {"none", "values", "pause"}, err : BOOLEAN, working : BOOLEAN]
  PROVE  MessageTypes'
<1>1. \A i \in DOMAIN answer' : answer'[i] \in AnswerEvent
  OBVIOUS
<1> QED BY <1>1 DEF MessageTypes, MessageTypeOK, AnswerEvent

\* The run is made: nothing was published yet.
LEMMA RunIsMade ==
  ASSUME MessageInv, CreateMessageRun
  PROVE  MessageInv'
<1>1. MessageTypes /\ RunOfMessage /\ ChunksTell /\ AnswerTells
  BY DEF MessageInv
<1>2. run.st = "none" /\ run.end = "none" /\ run.fresh = FALSE /\ chunks = <<>> /\ kept.result = "none"
  BY <1>1 DEF CreateMessageRun, RunOfMessage
<1>3. /\ UNCHANGED <<req, tries, resumes, schema, cachedSchema, chunks, kept>> /\ threadPaused' = FALSE
      /\ IF Streams(req) THEN pc' = "stream" ELSE pc' = "join"
  BY DEF CreateMessageRun, Goto
<1>4. /\ run' = [st |-> run'.st, attempt |-> run'.attempt, sent |-> run'.sent, fresh |-> run'.fresh, end |-> run'.end]
      /\ run'.st = "running" /\ run'.end = "none" /\ run'.fresh = FALSE
  BY <1>1, <1>2 DEF CreateMessageRun, MessageTypes
<1>5. answer' \in Seq(AnswerEvent)
  <2>1. [kind |-> "task", state |-> "SUBMITTED"] \in AnswerEvent
    BY DEF AnswerEvent, Replies
  <2>2. answer \in Seq(AnswerEvent)
    BY <1>1 DEF MessageTypes
  <2> QED BY <2>1, <2>2 DEF CreateMessageRun
<1>6. MessageTypes'
  <2>1. chunks' \in Seq(Chunk) /\ kept' \in [result : {"none", "values", "pause"}, err : BOOLEAN, working : BOOLEAN]
    BY <1>1, <1>3 DEF MessageTypes
  <2> QED BY <1>1, <1>3, <1>4, <1>5, <2>1, MessageTyped
<1>7. RunOfMessage'
  BY <1>3, <1>4 DEF RunOfMessage
<1>8. NoPause'
  BY <1>2, <1>3 DEF NoPause
<1>9. ChunksTell' /\ AnswerTells'
  BY <1>3, <1>4, <1>8 DEF ChunksTell, AnswerTells
<1> QED BY <1>6, <1>7, <1>9 DEF MessageInv

\* What every step of the run leaves alone.
LEMMA RunGoesOn ==
  ASSUME MessageInv, run.st = "running", UNCHANGED <<req, pc, tries, resumes, worldVars, kept, answer, history>>,
         run' = [st |-> run'.st, attempt |-> run'.attempt, sent |-> run'.sent, fresh |-> run'.fresh, end |-> run'.end],
         \/ run'.st = "running" /\ run'.end = "none"
         \/ run'.st = "over" /\ run'.end \in {"ok", "pause", "error"},
         chunks' \in Seq(Chunk)
  PROVE  MessageTypes' /\ RunOfMessage' /\ AnswerTells'
<1>1. MessageTypes /\ RunOfMessage /\ AnswerTells
  BY DEF MessageInv
<1>2. MessageTypes'
  BY <1>1 DEF MessageTypes, MessageTypeOK, worldVars
<1>3. RunOfMessage'
  BY <1>1 DEF RunOfMessage
<1>4. AnswerTells'
  BY <1>1 DEF AnswerTells
<1> QED BY <1>2, <1>3, <1>4

\* An event of the run clears what the handler knows of an error.
LEMMA EmittedKeeps ==
  ASSUME MessageInv, NEW chunk \in Contents, RunEmits(chunk)
  PROVE  MessageInv'
<1>1. MessageTypes /\ RunOfMessage /\ ChunksTell
  BY DEF MessageInv
<1>2. /\ run.st = "running" /\ run.end = "none" /\ chunk \in Chunk
      /\ UNCHANGED <<req, pc, tries, resumes, worldVars, kept, answer, history>>
  BY <1>1 DEF RunEmits, RunOfMessage, Chunk
<1>3. /\ run' = [st |-> run'.st, attempt |-> run'.attempt, sent |-> run'.sent, fresh |-> run'.fresh, end |-> run'.end]
      /\ run'.st = "running" /\ run'.end = "none"
  BY <1>1, <1>2 DEF RunEmits, MessageTypes
<1>4. chunks \in Seq(Chunk) /\ chunks' \in Seq(Chunk)
  <2>1. chunks \in Seq(Chunk)
    BY <1>1 DEF MessageTypes
  <2> QED BY <1>2, <2>1, ChunkAppended DEF RunEmits, PublishEvent
<1>5. ASSUME pc = "stream" PROVE NoPause' /\ ErrorCleared'
  <2>1. chunks' = Append(chunks, chunk) /\ NoPause
    BY <1>1, <1>2, <1>5 DEF RunEmits, PublishEvent, RunOfMessage, ChunksTell
  <2>2. /\ Len(chunks') = Len(chunks) + 1 /\ Len(chunks) \in Nat /\ chunks'[Len(chunks) + 1] = chunk
        /\ \A i \in 1..Len(chunks) : chunks'[i] = chunks[i]
    BY <1>2, <1>4, <2>1, ChunkAppended
  <2>3. chunk # "pause" /\ chunk # "error"
    BY DEF Contents
  <2>4. \A j \in 1..Len(chunks') : chunks'[j] # "pause"
    BY <2>1, <2>2, <2>3 DEF NoPause
  <2>5. \A j \in 1..Len(chunks') : Len(chunks') <= j => chunks'[j] # "error"
    BY <2>2, <2>3
  <2>6. Len(chunks') \in 1..Len(chunks') /\ chunks'[Len(chunks')] \in Contents
    BY <2>2
  <2>7. ErrorCleared'
    BY <2>5, <2>6 DEF ErrorCleared
  <2> QED BY <1>2, <2>1, <2>4, <2>7 DEF NoPause
<1>6. ChunksTell'
  BY <1>2, <1>3, <1>5 DEF ChunksTell
<1> QED BY <1>2, <1>3, <1>4, <1>6, RunGoesOn DEF MessageInv

\* A new attempt has told nothing yet.
LEMMA RetriedKeeps ==
  ASSUME MessageInv, RunRetries
  PROVE  MessageInv'
<1>1. MessageTypes /\ RunOfMessage /\ ChunksTell
  BY DEF MessageInv
<1>2. /\ run.st = "running" /\ run.end = "none"
      /\ UNCHANGED <<req, pc, tries, resumes, worldVars, kept, answer, history>>
  BY <1>1 DEF RunRetries, RunOfMessage
<1>3. /\ run' = [st |-> run'.st, attempt |-> run'.attempt, sent |-> run'.sent, fresh |-> run'.fresh, end |-> run'.end]
      /\ run'.st = "running" /\ run'.end = "none" /\ run'.fresh = FALSE
  BY <1>1, <1>2 DEF RunRetries, MessageTypes
<1>4. chunks \in Seq(Chunk) /\ <<"error", "metadata">> \in Seq(Chunk)
  BY <1>1 DEF MessageTypes, Chunk
<1>5. chunks' \in Seq(Chunk)
  BY <1>4 DEF RunRetries
<1>6. ASSUME pc = "stream" PROVE NoPause'
  <2>1. chunks' = chunks \o <<"error", "metadata">> /\ NoPause
    BY <1>1, <1>2, <1>6 DEF RunRetries, RunOfMessage, ChunksTell
  <2>2. Len(chunks') = Len(chunks) + 2 /\ Len(chunks) \in Nat
    BY <1>4, <2>1
  <2>3. /\ chunks'[Len(chunks) + 1] = "error" /\ chunks'[Len(chunks) + 2] = "metadata"
        /\ \A i \in 1..Len(chunks) : chunks'[i] = chunks[i]
    BY <1>4, <2>1
  <2>4. \A j \in 1..Len(chunks') : chunks'[j] # "pause"
    BY <2>1, <2>2, <2>3 DEF NoPause
  <2> QED BY <1>2, <2>1, <2>4 DEF NoPause
<1>7. ChunksTell'
  BY <1>2, <1>3, <1>6 DEF ChunksTell
<1> QED BY <1>2, <1>3, <1>5, <1>7, RunGoesOn DEF MessageInv

\* The last event of a run that pauses or fails tells so.
LEMMA EndedKeeps ==
  ASSUME MessageInv, NEW end \in {"ok", "pause", "error"}, RunEnds(end)
  PROVE  MessageInv'
<1>1. MessageTypes /\ RunOfMessage /\ ChunksTell
  BY DEF MessageInv
<1>2. /\ run.st = "running" /\ (end = "ok" => run.fresh)
      /\ UNCHANGED <<req, pc, tries, resumes, worldVars, kept, answer, history>>
  BY DEF RunEnds
<1>3. /\ run' = [st |-> run'.st, attempt |-> run'.attempt, sent |-> run'.sent, fresh |-> run'.fresh, end |-> run'.end]
      /\ run'.st = "over" /\ run'.end = end
  BY <1>1, <1>2 DEF RunEnds, MessageTypes
<1>4. chunks \in Seq(Chunk) /\ (end \in Chunk \/ end = "ok")
  BY <1>1 DEF MessageTypes, Chunk
<1>5. chunks' \in Seq(Chunk)
  BY <1>4, ChunkAppended DEF RunEnds, PublishEvent
<1>6. ASSUME pc = "stream", end = "ok" PROVE NoPause' /\ ErrorCleared'
  <2>1. UNCHANGED <<chunks, kept>> /\ NoPause /\ ErrorCleared
    BY <1>1, <1>2, <1>6 DEF RunEnds, ChunksTell
  <2> QED BY <2>1 DEF NoPause, ErrorCleared
<1>7. ASSUME pc = "stream", end # "ok" PROVE chunks' # <<>> /\ chunks'[Len(chunks')] = end
  <2>1. chunks' = Append(chunks, end)
    BY <1>1, <1>7 DEF RunEnds, PublishEvent, RunOfMessage
  <2> QED BY <1>4, <1>7, <2>1, ChunkAppended
<1>8. ChunksTell'
  BY <1>2, <1>3, <1>6, <1>7 DEF ChunksTell, PauseAtEnd, ErrorAtEnd
<1> QED BY <1>2, <1>3, <1>5, <1>8, RunGoesOn DEF MessageInv

\* The handler keeps of an event what it says about the end of the run.
LEMMA ReceivedKeeps ==
  ASSUME MessageInv, ReceiveChunk
  PROVE  MessageInv'
<1>1. MessageTypes /\ RunOfMessage /\ ChunksTell
  BY DEF MessageInv
<1>2. /\ pc = "stream" /\ chunks \in Seq(Chunk) /\ chunks # <<>> /\ chunks' = Tail(chunks)
      /\ kept \in [result : {"none", "values", "pause"}, err : BOOLEAN, working : BOOLEAN]
      /\ UNCHANGED <<req, pc, tries, resumes, worldVars, run, history>>
  BY <1>1 DEF ReceiveChunk, MessageTypes
<1>3. /\ chunks' \in Seq(Chunk) /\ Len(chunks') = Len(chunks) - 1 /\ Len(chunks) \in Nat /\ Len(chunks) > 0
      /\ Head(chunks) = chunks[1] /\ chunks[1] \in Chunk
      /\ \A i \in 1..Len(chunks) - 1 : chunks'[i] = chunks[i + 1]
  BY <1>2, ChunkTaken
<1>4. /\ kept' \in [result : {"none", "values", "pause"}, err : BOOLEAN, working : BOOLEAN]
      /\ chunks[1] \in Contents => ~ kept'.err
      /\ chunks[1] # "error" /\ ~ kept.err => ~ kept'.err
      /\ chunks[1] = "pause" => kept'.result = "pause" /\ ~ kept'.err
      /\ chunks[1] = "error" => kept'.err
      /\ chunks[1] # "pause" /\ kept.result # "pause" => kept'.result # "pause"
  BY <1>2, <1>3 DEF ReceiveChunk, Kept, Chunk, Contents
<1>5. answer' \in Seq(AnswerEvent)
  <2>1. Forwarded(Head(chunks)) \in Seq(AnswerEvent)
    <3>1. [kind |-> "status", state |-> "WORKING"] \in AnswerEvent
      BY DEF AnswerEvent, Replies
    <3> QED BY <3>1 DEF Forwarded
  <2>2. answer \in Seq(AnswerEvent)
    BY <1>1 DEF MessageTypes
  <2> QED BY <2>1, <2>2 DEF ReceiveChunk
<1>6. MessageTypes'
  BY <1>1, <1>2, <1>3, <1>4, <1>5, MessageTyped DEF worldVars, MessageTypes
<1>7. RunOfMessage' /\ AnswerTells'
  BY <1>1, <1>2 DEF RunOfMessage, AnswerTells
<1>8. ASSUME NoPause PROVE NoPause'
  <2>1. \A j \in 1..Len(chunks') : chunks'[j] # "pause"
    BY <1>3, <1>8 DEF NoPause
  <2>2. chunks[1] # "pause" /\ kept.result # "pause"
    BY <1>3, <1>8 DEF NoPause
  <2> QED BY <1>4, <2>1, <2>2 DEF NoPause
<1>9. ASSUME ErrorCleared PROVE ErrorCleared'
  <2>1. CASE ~ kept.err /\ \A j \in 1..Len(chunks) : chunks[j] # "error"
    <3>1. \A j \in 1..Len(chunks') : chunks'[j] # "error"
      BY <1>3, <2>1
    <3>2. chunks[1] # "error"
      BY <1>3, <2>1
    <3>3. ~ kept'.err
      BY <1>4, <2>1, <3>2
    <3> QED BY <3>1, <3>3 DEF ErrorCleared
  <2>2. ASSUME NEW i \in 1..Len(chunks), chunks[i] \in Contents,
               \A j \in 1..Len(chunks) : i <= j => chunks[j] # "error"
        PROVE  ErrorCleared'
    <3>1. CASE i = 1
      <4>1. \A j \in 1..Len(chunks') : chunks'[j] # "error"
        BY <1>3, <2>2, <3>1
      <4>2. ~ kept'.err
        BY <1>4, <2>2, <3>1
      <4> QED BY <4>1, <4>2 DEF ErrorCleared
    <3>2. CASE i # 1
      <4>1. i - 1 \in 1..Len(chunks') /\ chunks'[i - 1] = chunks[i]
        BY <1>3, <2>2, <3>2
      <4>2. \A j \in 1..Len(chunks') : i - 1 <= j => chunks'[j] # "error"
        BY <1>3, <2>2, <3>2
      <4> QED BY <2>2, <4>1, <4>2 DEF ErrorCleared
    <3> QED BY <3>1, <3>2
  <2> QED BY <1>9, <2>1, <2>2 DEF ErrorCleared
<1>10. CASE Len(chunks) = 1
  <2>1. chunks' = <<>>
    BY <1>3, <1>10, EmptySeq
  <2>2. PauseAtEnd => PauseAtEnd'
    BY <1>2, <1>4, <1>10, <2>1 DEF PauseAtEnd
  <2>3. ErrorAtEnd => ErrorAtEnd'
    BY <1>2, <1>4, <1>10, <2>1 DEF ErrorAtEnd
  <2> QED BY <1>1, <1>2, <1>6, <1>7, <1>8, <1>9, <2>2, <2>3 DEF ChunksTell, MessageInv
<1>11. CASE Len(chunks) # 1
  <2>1. chunks' # <<>> /\ chunks'[Len(chunks')] = chunks[Len(chunks)]
    <3>1. Len(chunks') # 0 /\ Len(chunks') \in 1..Len(chunks) - 1 /\ Len(chunks') + 1 = Len(chunks)
      BY <1>3, <1>11
    <3>2. chunks'[Len(chunks')] = chunks[Len(chunks') + 1]
      BY <1>3, <3>1
    <3>3. chunks' # <<>>
      BY <3>1
    <3> QED BY <3>1, <3>2, <3>3
  <2>2. PauseAtEnd => PauseAtEnd'
    BY <1>2, <2>1 DEF PauseAtEnd
  <2>3. ErrorAtEnd => ErrorAtEnd'
    BY <1>2, <2>1 DEF ErrorAtEnd
  <2> QED BY <1>1, <1>2, <1>6, <1>7, <1>8, <1>9, <2>2, <2>3 DEF ChunksTell, MessageInv
<1> QED BY <1>10, <1>11

\* The last events of the answer are those of the end of the run.
LEMMA ConclusionTold ==
  ASSUME MessageInv, NEW events \in Seq(AnswerEvent), events # <<>>, AnswerMessage(events),
         run.st = "over", UNCHANGED <<req, tries, resumes, history, worldVars, runVars>>,
         events[Len(events)].state = TaskState(run.end),
         Streams(req) /\ run.end = "pause" => Len(events) = 2 /\ events[1].kind = "artifact"
  PROVE  MessageInv'
<1>1. MessageTypes /\ RunOfMessage
  BY DEF MessageInv
<1>2. /\ pc' = "done" /\ answer' \in Seq(AnswerEvent) /\ answer' # <<>>
      /\ LastEvent(answer') = events[Len(events)]
      /\ Len(events) = 2 => answer'[Len(answer') - 1] = events[1]
  BY <1>1, AnswerGrows
<1>3. MessageTypes'
  BY <1>1, <1>2, MessageTyped DEF MessageTypes, worldVars, runVars
<1>4. RunOfMessage'
  BY <1>1, <1>2 DEF RunOfMessage, runVars
<1>5. OutcomeTold'
  BY <1>2 DEF OutcomeTold, runVars
<1>6. ChunksTell' /\ AnswerTells'
  BY <1>2, <1>5 DEF ChunksTell, AnswerTells, runVars
<1> QED BY <1>3, <1>4, <1>6 DEF MessageInv

\* The end of a stream tells how the run ended, and so does the answer of a joined one.
LEMMA EndTellsOutcome ==
  ASSUME MessageInv, EndMessageStream \/ AnswerSend
  PROVE  MessageInv'
<1>1. MessageTypes /\ RunOfMessage /\ ChunksTell
  BY DEF MessageInv
<1>2. run.st = "over" /\ run.end \in {"ok", "pause", "error"}
  BY <1>1 DEF EndMessageStream, AnswerSend, MessageTypes, RunOfMessage
<1>3. CASE EndMessageStream
  <2>1. pc = "stream" /\ chunks = <<>>
    BY <1>3 DEF EndMessageStream
  <2>2. /\ run.end = "ok" => kept.result # "pause" /\ ~ kept.err
        /\ run.end = "pause" => kept.result = "pause" /\ ~ kept.err
        /\ run.end = "error" => kept.err
    BY <1>1, <2>1 DEF ChunksTell, NoPause, ErrorCleared, PauseAtEnd, ErrorAtEnd
  <2>3. FinalState = TaskState(run.end)
    BY <1>2, <2>2 DEF FinalState, TaskState
  <2>4. FinalState \in Replies
    BY DEF FinalState, Replies
  <2> DEFINE a == [kind |-> "artifact", state |-> "none"]
             f == [kind |-> "final", state |-> FinalState]
  <2>5. a \in AnswerEvent /\ f \in AnswerEvent /\ a.kind = "artifact" /\ f.state = FinalState
    BY <2>4 DEF AnswerEvent, Replies
  <2>6. EndEvents = (IF kept.result = "pause" THEN <<a>> ELSE <<>>) \o <<f>>
    BY DEF EndEvents
  <2> HIDE DEF a, f
  <2>7. CASE kept.result = "pause"
    <3>1. EndEvents = <<a>> \o <<f>> /\ <<a>> \in Seq(AnswerEvent) /\ <<f>> \in Seq(AnswerEvent)
      BY <2>5, <2>6, <2>7
    <3>2. EndEvents \in Seq(AnswerEvent) /\ EndEvents # <<>> /\ Len(EndEvents) = 2
          /\ EndEvents[Len(EndEvents)] = f /\ EndEvents[1] = a
      <4>1. EndEvents \in Seq(AnswerEvent) /\ Len(EndEvents) = 2
        BY <3>1
      <4>2. EndEvents[1] = a /\ EndEvents[2] = f
        BY <3>1
      <4> QED BY <4>1, <4>2
    <3> QED BY <1>2, <1>3, <2>3, <2>5, <3>2, ConclusionTold DEF EndMessageStream
  <2>8. CASE kept.result # "pause"
    <3>1. EndEvents = <<f>>
      BY <2>5, <2>6, <2>8
    <3>2. EndEvents \in Seq(AnswerEvent) /\ EndEvents # <<>> /\ EndEvents[Len(EndEvents)] = f
      BY <2>5, <3>1
    <3> QED BY <1>2, <1>3, <2>2, <2>3, <2>5, <2>8, <3>2, ConclusionTold DEF EndMessageStream
  <2> QED BY <2>7, <2>8
<1>4. CASE AnswerSend
  <2> DEFINE f == [kind |-> "final", state |-> TaskState(run.end)]
  <2>1. TaskState(run.end) \in Replies
    BY <1>2 DEF TaskState, Replies
  <2>2. f \in AnswerEvent /\ f.state = TaskState(run.end)
    BY <2>1 DEF AnswerEvent
  <2>3. AnswerMessage(<<f>>) /\ ~ Streams(req)
    BY <1>1, <1>4 DEF AnswerSend, RunOfMessage
  <2> HIDE DEF f
  <2>4. <<f>> \in Seq(AnswerEvent) /\ <<f>> # <<>> /\ <<f>>[Len(<<f>>)] = f
    BY <2>2
  <2> QED BY <1>2, <1>4, <2>2, <2>3, <2>4, ConclusionTold DEF AnswerSend
<1> QED BY <1>3, <1>4

\* At first there is the request.
LEMMA MessageStart == MessageInit => MessageInv
<1> SUFFICES ASSUME MessageInit PROVE MessageInv
  OBVIOUS
<1>1. MessageTypes
  <2>1. <<>> \in Seq(AnswerEvent) /\ <<>> \in Seq(Chunk) /\ DOMAIN <<>> = {}
    OBVIOUS
  <2>2. MessageTypeOK
    <3>1. \A i \in DOMAIN answer : answer[i].kind \in {"error", "task", "status", "artifact", "final"}
      BY <2>1 DEF MessageInit
    <3>2. tries \in 1..3
      BY DEF MessageInit
    <3> QED BY <3>1, <3>2 DEF MessageInit, MessageTypeOK
  <2>3. kept \in [result : {"none", "values", "pause"}, err : BOOLEAN, working : BOOLEAN]
    BY DEF MessageInit
  <2>4. run.st = "none" /\ run.end = "none"
        /\ run = [st |-> run.st, attempt |-> run.attempt, sent |-> run.sent, fresh |-> run.fresh, end |-> run.end]
    BY DEF MessageInit
  <2> QED BY <2>1, <2>2, <2>3, <2>4 DEF MessageInit, MessageTypes
<1>2. RunOfMessage /\ ChunksTell /\ AnswerTells
  BY DEF MessageInit, RunOfMessage, ChunksTell, AnswerTells
<1> QED BY <1>1, <1>2 DEF MessageInv

\* Every step of a request keeps the invariant.
LEMMA MessageStep ==
  ASSUME MessageInv, [MessageNext]_messageVars
  PROVE  MessageInv'
<1>1. CASE UNCHANGED messageVars
  BY <1>1 DEF messageVars, MessageInv, MessageTypes, MessageTypeOK, RunOfMessage, ChunksTell, AnswerTells, NoPause,
              ErrorCleared, PauseAtEnd, ErrorAtEnd, OutcomeTold
<1>2. CASE HandlerNext
  BY <1>2, RequestHandled, RunIsMade, ReceivedKeeps, EndTellsOutcome, RestOfTheWorld DEF HandlerNext
<1>3. CASE RunNext
  BY <1>3, EmittedKeeps, RetriedKeeps, EndedKeeps DEF RunNext, Contents
<1>4. CASE ChangeWorld
  BY <1>4, RestOfTheWorld
<1> QED BY <1>1, <1>2, <1>3, <1>4 DEF MessageNext

(***************************************************************************)
(* The tasks of the A2A endpoint                                           *)
(***************************************************************************)
TaskRunType == [st : {"none", "pending", "running", "cancelling", "success", "error", "interrupted"}, end : Outcome]
AgentType ==
  [pc : {"idle", "check", "create", "join", "joined", "read", "decide", "canceling", "answered"},
   op : {"none", "send", "stream", "get", "list", "cancel"}, task : 0..NTasks, run : 0..NTasks, tries : 0..3,
   resume : BOOLEAN, seen : Outcome,
   read : {"none", "pending", "running", "success", "error", "interrupted"}, later : BOOLEAN,
   answer : State \cup {"none"}]

TaskTypes ==
  /\ trun \in [TaskRuns -> TaskRunType]
  /\ ctx \in {"none", "idle", "busy", "interrupted", "error"}
  /\ agent \in [Agents -> AgentType]

\* The runs of a context are numbered as they are made ...
NumberedAsMade == \E n \in 0..NTasks : \A r \in TaskRuns : r \in Made <=> r <= n

\* ... and started in that order: one that was started, or ended with anything to tell, is
\* behind no older run that waits or runs.
StartedInOrder ==
  \A r \in TaskRuns :
    /\ trun[r].end # "none" <=> r \in Over
    /\ \A q \in TaskRuns : q < r /\ q \in Active =>
         trun[r].st \notin {"running", "cancelling"} /\ trun[r].end \in {"none", "ok"}

AsksAlone(g) == g.pc \in {"idle", "check", "create", "read", "decide"} => g.run = 0 /\ g.later = FALSE /\ g.seen = "none"

OpAt(g) ==
  /\ g.pc \in {"check", "create", "join", "joined"} => g.op \in {"send", "stream"}
  /\ g.pc \in {"read", "decide", "canceling"} => g.op \in {"get", "list", "cancel"} /\ g.task # 0
  /\ g.pc = "decide" => g.read # "none"
  /\ g.pc \in {"join", "joined", "canceling"} => g.run # 0
  /\ g.pc = "join" => g.op = "send" /\ g.seen = "none"
  /\ g.run # 0 => g.run \in Made

\* What the handler of a message hears of its run, or can still learn from the thread.
RunFollowed(g) ==
  g.op \in {"send", "stream"} /\ g.run # 0 =>
    /\ ~ g.later => \A q \in Made : q <= g.run
    /\ g.seen # "none" => g.run \in Over /\ g.seen = trun[g.run].end
    /\ g.pc \in {"join", "joined"} /\ g.run \in Over /\ g.seen = "none" =>
         /\ g.op = "stream" => trun[g.run].end = "ok"
         /\ g.op = "send" /\ ~ g.later => ThreadFallback(ctx) = trun[g.run].end
    /\ g.pc = "answered" =>
         /\ g.run \in Over
         /\ (g.op = "send" => ~ g.later) => g.answer = ResultState(trun[g.run].end)

Followed(g) == AsksAlone(g) /\ OpAt(g) /\ RunFollowed(g)

TaskInv ==
  /\ TaskTypes
  /\ NumberedAsMade /\ StartedInOrder
  /\ \A a \in Agents : Followed(agent[a])

\* One agent's handler acts, the runs and the thread stay.
LEMMA OneAgentActs ==
  ASSUME TaskInv, NEW a \in Agents, NEW g \in AgentType, Followed(g),
         agent' = [agent EXCEPT ![a] = g], UNCHANGED <<trun, ctx>>
  PROVE  TaskInv'
<1>1. TaskTypes /\ NumberedAsMade /\ StartedInOrder
  BY DEF TaskInv
<1>2. TaskTypes'
  BY <1>1 DEF TaskTypes
<1>3. Made' = Made /\ Over' = Over /\ Active' = Active
  BY DEF Made, Over, Active
<1>4. NumberedAsMade' /\ StartedInOrder'
  BY <1>1, <1>3 DEF NumberedAsMade, StartedInOrder
<1>5. ASSUME NEW b \in Agents PROVE Followed(agent[b])'
  <2>1. agent'[b] = (IF b = a THEN g ELSE agent[b]) /\ Followed(agent[b])
    BY <1>1 DEF TaskTypes, TaskInv
  <2>2. Followed(agent'[b])
    BY <2>1
  <2> QED BY <1>3, <2>2 DEF Followed, AsksAlone, OpAt, RunFollowed
<1> QED BY <1>2, <1>4, <1>5 DEF TaskInv

\* A handler that has made no run yet, or whose request makes none, knows of no run.
LEMMA AsksOn ==
  ASSUME NEW g \in AgentType, g.run = 0, g.later = FALSE, g.seen = "none",
         g.pc \notin {"join", "joined", "canceling"}, OpAt(g)
  PROVE  Followed(g)
BY DEF Followed, AsksAlone, RunFollowed

\* The run of an agent that answered, or of a message, keeps what is known of it.
LEMMA OfAgent ==
  ASSUME TaskInv, NEW a \in Agents
  PROVE  /\ agent[a] \in AgentType /\ AsksAlone(agent[a]) /\ OpAt(agent[a]) /\ RunFollowed(agent[a])
         /\ TaskTypes /\ NumberedAsMade /\ StartedInOrder
BY DEF TaskInv, TaskTypes, Followed

\* A request is sent, and an answer is taken.
LEMMA RequestsSent ==
  ASSUME TaskInv, NEW a \in Agents,
         \/ TakeAnswer(a)
         \/ \E op \in {"send", "stream"}, task \in 0..NTasks : SendMessage(a, op, task)
         \/ \E op \in {"get", "list", "cancel"}, task \in TaskRuns : AskTask(a, op, task)
  PROVE  TaskInv'
<1>1. 0 \in 0..NTasks /\ 0 \in 0..3 /\ 3 \in 0..3
  BY TasksAssumption
<1>2. NoAgent \in AgentType
  BY <1>1 DEF NoAgent, AgentType, Outcome
<1>3. CASE TakeAnswer(a)
  <2>1. Followed(NoAgent)
    BY <1>2, AsksOn DEF NoAgent, OpAt
  <2> QED BY <1>2, <1>3, <2>1, OneAgentActs DEF TakeAnswer, Become
<1>4. ASSUME NEW op \in {"send", "stream"}, NEW task \in 0..NTasks, SendMessage(a, op, task) PROVE TaskInv'
  <2> DEFINE g == [NoAgent EXCEPT !.pc = "check", !.op = op, !.task = task, !.tries = 3]
  <2>1. g \in AgentType
    BY <1>1, <1>2 DEF AgentType
  <2>2. g.run = 0 /\ g.later = FALSE /\ g.seen = "none" /\ g.pc = "check" /\ g.op = op
    BY DEF NoAgent
  <2>3. agent' = [agent EXCEPT ![a] = g] /\ UNCHANGED <<trun, ctx>>
    BY <1>4 DEF SendMessage, Become
  <2> HIDE DEF g
  <2>4. Followed(g)
    BY <2>1, <2>2, AsksOn DEF OpAt
  <2> QED BY <2>1, <2>3, <2>4, OneAgentActs
<1>5. ASSUME NEW op \in {"get", "list", "cancel"}, NEW task \in TaskRuns, AskTask(a, op, task) PROVE TaskInv'
  <2> DEFINE g == [NoAgent EXCEPT !.pc = "read", !.op = op, !.task = task]
  <2>1. task \in 0..NTasks /\ task # 0
    BY TasksAssumption DEF TaskRuns
  <2>2. g \in AgentType
    BY <1>1, <1>2, <2>1 DEF AgentType
  <2>3. g.run = 0 /\ g.later = FALSE /\ g.seen = "none" /\ g.pc = "read" /\ g.op = op /\ g.task = task
    BY DEF NoAgent
  <2>4. agent' = [agent EXCEPT ![a] = g] /\ UNCHANGED <<trun, ctx>>
    BY <1>5 DEF AskTask, Become
  <2> HIDE DEF g
  <2>5. Followed(g)
    BY <2>1, <2>2, <2>3, AsksOn DEF OpAt
  <2> QED BY <2>2, <2>4, <2>5, OneAgentActs
<1> QED BY <1>3, <1>4, <1>5

\* The steps of a handler that change nothing but what it knows itself.
LEMMA HandlerKeeps ==
  ASSUME TaskInv, NEW a \in Agents,
         \/ CheckInterrupted(a) \/ JoinTaskRun(a) \/ ReadTaskRun(a) \/ AnswerGet(a) \/ AnswerList(a) \/ CancelOver(a)
         \/ AnswerCancel(a)
  PROVE  TaskInv'
<1>1. agent[a] \in AgentType /\ AsksAlone(agent[a]) /\ OpAt(agent[a]) /\ RunFollowed(agent[a]) /\ TaskTypes
  BY OfAgent
<1>2. UNCHANGED <<trun, ctx>>
  BY DEF CheckInterrupted, JoinTaskRun, ReadTaskRun, AnswerGet, AnswerList, CancelOver, AnswerCancel
<1>3. ASSUME NEW state \in State, Answer(a, state), agent[a].op \in {"get", "list", "cancel"} \/ agent[a].run = 0
      PROVE  TaskInv'
  <2> DEFINE g == [agent[a] EXCEPT !.pc = "answered", !.answer = state]
  <2>1. g \in AgentType
    BY <1>1 DEF AgentType
  <2>2. g.pc = "answered" /\ g.run = agent[a].run /\ g.op = agent[a].op
    BY <1>1 DEF AgentType
  <2>3. agent' = [agent EXCEPT ![a] = g]
    BY <1>3 DEF Answer, Become
  <2> HIDE DEF g
  <2>4. Followed(g)
    BY <1>1, <1>3, <2>2 DEF Followed, AsksAlone, OpAt, RunFollowed
  <2> QED BY <1>2, <2>1, <2>3, <2>4, OneAgentActs
<1>4. CASE CheckInterrupted(a)
  <2>1. agent[a].pc = "check" /\ agent[a].run = 0 /\ agent[a].later = FALSE /\ agent[a].seen = "none"
        /\ agent[a].op \in {"send", "stream"}
    BY <1>1, <1>4 DEF CheckInterrupted, AsksAlone, OpAt
  <2>2. ASSUME NEW g \in AgentType, g.pc \in {"check", "create"}, g.op = agent[a].op, g.run = 0, g.later = FALSE,
               g.seen = "none", Become(a, g)
        PROVE  TaskInv'
    <3>1. Followed(g)
      BY <2>1, <2>2, AsksOn DEF OpAt
    <3> QED BY <1>2, <2>2, <3>1, OneAgentActs DEF Become
  <2>3. CASE Answer(a, "REFUSED")
    BY <1>3, <2>1, <2>3 DEF State
  <2>4. CASE Become(a, [agent[a] EXCEPT !.pc = "create", !.resume = TRUE])
    <3> DEFINE g == [agent[a] EXCEPT !.pc = "create", !.resume = TRUE]
    <3>1. g \in AgentType /\ g.pc = "create" /\ g.op = agent[a].op /\ g.run = 0 /\ g.later = FALSE /\ g.seen = "none"
      BY <1>1, <2>1 DEF AgentType
    <3> HIDE DEF g
    <3> QED BY <2>2, <2>4, <3>1 DEF g
  <2>5. CASE agent[a].tries > 1 /\ Become(a, [agent[a] EXCEPT !.tries = @ - 1])
    <3> DEFINE g == [agent[a] EXCEPT !.tries = @ - 1]
    <3>1. agent[a].tries - 1 \in 0..3
      BY <1>1, <2>5 DEF AgentType
    <3>2. g \in AgentType /\ g.pc = "check" /\ g.op = agent[a].op /\ g.run = 0 /\ g.later = FALSE /\ g.seen = "none"
      BY <1>1, <2>1, <3>1 DEF AgentType
    <3> HIDE DEF g
    <3> QED BY <2>2, <2>5, <3>2 DEF g
  <2>6. CASE Become(a, [agent[a] EXCEPT !.pc = "create"])
    <3> DEFINE g == [agent[a] EXCEPT !.pc = "create"]
    <3>1. g \in AgentType /\ g.pc = "create" /\ g.op = agent[a].op /\ g.run = 0 /\ g.later = FALSE /\ g.seen = "none"
      BY <1>1, <2>1 DEF AgentType
    <3> HIDE DEF g
    <3> QED BY <2>2, <2>6, <3>1 DEF g
  <2> QED BY <1>4, <2>3, <2>4, <2>5, <2>6 DEF CheckInterrupted
<1>5. CASE JoinTaskRun(a)
  <2> DEFINE g == [agent[a] EXCEPT !.pc = "joined"]
  <2>1. g \in AgentType
    BY <1>1 DEF AgentType
  <2>2. agent[a].pc = "join" /\ g.pc = "joined" /\ g.run = agent[a].run /\ g.op = agent[a].op
        /\ g.seen = agent[a].seen /\ g.later = agent[a].later
    BY <1>1, <1>5 DEF JoinTaskRun, AgentType
  <2>3. agent' = [agent EXCEPT ![a] = g]
    BY <1>5 DEF JoinTaskRun, Become
  <2> HIDE DEF g
  <2>4. Followed(g)
    BY <1>1, <2>2 DEF Followed, AsksAlone, OpAt, RunFollowed
  <2> QED BY <1>2, <2>1, <2>3, <2>4, OneAgentActs
<1>6. CASE ReadTaskRun(a)
  <2>1. agent[a].pc = "read" /\ agent[a].run = 0 /\ agent[a].later = FALSE /\ agent[a].seen = "none"
        /\ agent[a].op \in {"get", "list", "cancel"} /\ agent[a].task # 0 /\ agent[a].task \in TaskRuns
    BY <1>1, <1>6, TasksAssumption DEF ReadTaskRun, AsksAlone, OpAt, AgentType, TaskRuns
  <2>2. CASE Answer(a, "NOT_FOUND")
    BY <1>3, <2>1, <2>2 DEF State
  <2>3. CASE ~ Answer(a, "NOT_FOUND")
    <3> DEFINE status == trun[agent[a].task].st
               read == IF status = "cancelling" THEN "interrupted" ELSE status
               g == [agent[a] EXCEPT !.pc = "decide", !.read = read]
    <3>1. status # "none" /\ agent' = [agent EXCEPT ![a] = g]
      BY <1>6, <2>3 DEF ReadTaskRun, Become
    <3>2. trun[agent[a].task] \in TaskRunType
      BY <1>1, <2>1 DEF TaskTypes
    <3>3. read \in {"pending", "running", "success", "error", "interrupted"}
      BY <3>1, <3>2 DEF TaskRunType
    <3> HIDE DEF read
    <3>4. g \in AgentType
      BY <1>1, <3>3 DEF AgentType
    <3>5. g.pc = "decide" /\ g.read = read /\ g.op = agent[a].op /\ g.run = 0 /\ g.later = FALSE /\ g.seen = "none"
          /\ g.task = agent[a].task
      BY <1>1, <2>1 DEF AgentType
    <3> HIDE DEF g
    <3>6. Followed(g)
      BY <2>1, <3>3, <3>4, <3>5, AsksOn DEF OpAt
    <3> QED BY <1>2, <3>1, <3>4, <3>6, OneAgentActs
  <2> QED BY <2>2, <2>3
<1>7. CASE AnswerGet(a) \/ AnswerList(a) \/ CancelOver(a) \/ AnswerCancel(a)
  <2>1. agent[a].op \in {"get", "list", "cancel"}
    BY <1>1, <1>7 DEF AnswerGet, AnswerList, CancelOver, AnswerCancel, OpAt
  <2>2. agent[a].pc = "decide" => StateOf(agent[a].read) \in State
    BY <1>1 DEF OpAt, AgentType, StateOf, State
  <2>3. \E state \in State : Answer(a, state)
    <3>1. "INPUT_REQUIRED" \in State /\ "CANCELED" \in State
      BY DEF State
    <3> QED BY <1>7, <2>2, <3>1 DEF AnswerGet, AnswerList, CancelOver, AnswerCancel
  <2> QED BY <1>3, <2>1, <2>3
<1> QED BY <1>4, <1>5, <1>6, <1>7

\* The answer to a message: what was received, or what the thread says of the run.
LEMMA FinishKeepsTask ==
  ASSUME TaskInv, NEW a \in Agents, FinishMessage(a)
  PROVE  TaskInv'
<1>1. agent[a] \in AgentType /\ AsksAlone(agent[a]) /\ OpAt(agent[a]) /\ RunFollowed(agent[a]) /\ TaskTypes
  BY OfAgent
<1> DEFINE r == agent[a].run
           known == IF agent[a].seen # "none" THEN agent[a].seen
                    ELSE IF agent[a].op = "stream" THEN "ok" ELSE ThreadFallback(ctx)
           g == [agent[a] EXCEPT !.pc = "answered", !.answer = ResultState(known)]
<1>2. agent[a].pc = "joined" /\ agent[a].op \in {"send", "stream"} /\ r # 0 /\ r \in Made
  BY <1>1 DEF FinishMessage, OpAt
<1>3. r \in Over
  <2>1. r \in TaskRuns /\ trun[r] \in TaskRunType
    BY <1>1, <1>2 DEF TaskTypes, Made
  <2>2. trun[r].st \notin {"none", "pending", "running", "cancelling"}
    BY <1>2 DEF FinishMessage, Made
  <2> QED BY <2>1, <2>2 DEF Over, TaskRunType
<1>4. known \in {"ok", "pause", "error"}
  BY <1>1, <1>2 DEF AgentType, Outcome, ThreadFallback
<1>5. (agent[a].op = "send" => ~ agent[a].later) => known = trun[r].end
  BY <1>1, <1>2, <1>3 DEF RunFollowed
<1>6. agent' = [agent EXCEPT ![a] = g] /\ UNCHANGED <<trun, ctx>>
  BY DEF FinishMessage, Answer, Become
<1> HIDE DEF known
<1>7. ResultState(known) \in State
  BY <1>4 DEF ResultState, State
<1>8. g \in AgentType
  BY <1>1, <1>7 DEF AgentType
<1>9. /\ g.pc = "answered" /\ g.op = agent[a].op /\ g.run = r /\ g.seen = agent[a].seen /\ g.later = agent[a].later
      /\ g.answer = ResultState(known)
  BY <1>1 DEF AgentType
<1> HIDE DEF g, r
<1>10. RunFollowed(g)
  BY <1>1, <1>2, <1>3, <1>5, <1>9 DEF RunFollowed, r
<1>11. AsksAlone(g) /\ OpAt(g)
  BY <1>2, <1>9 DEF AsksAlone, OpAt
<1> QED BY <1>6, <1>8, <1>10, <1>11, OneAgentActs DEF Followed

\* A worker takes the oldest run that waits.
LEMMA StartKeepsTask ==
  ASSUME TaskInv, NEW r \in TaskRuns, StartTaskRun(r)
  PROVE  TaskInv'
<1>1. TaskTypes /\ NumberedAsMade /\ StartedInOrder
  BY DEF TaskInv
<1>2. trun' = [trun EXCEPT ![r].st = "running"] /\ trun[r].st = "pending" /\ UNCHANGED <<ctx, agent>>
  BY DEF StartTaskRun
<1>3. \A q \in TaskRuns : trun'[q] = IF q = r THEN [st |-> "running", end |-> trun[r].end] ELSE trun[q]
  BY <1>1, <1>2 DEF TaskTypes, TaskRunType
<1>4. Made' = Made /\ Over' = Over /\ Active' = Active
  <2>1. \A q \in TaskRuns : /\ trun'[q].st # "none" <=> trun[q].st # "none"
                            /\ trun'[q].st \in {"success", "error", "interrupted"}
                                 <=> trun[q].st \in {"success", "error", "interrupted"}
                            /\ trun'[q].st \in {"pending", "running"} <=> trun[q].st \in {"pending", "running"}
                            /\ trun'[q].end = trun[q].end
    BY <1>2, <1>3
  <2> QED BY <2>1 DEF Made, Over, Active
<1>5. TaskTypes'
  <2>1. [st |-> "running", end |-> trun[r].end] \in TaskRunType
    BY <1>1 DEF TaskTypes, TaskRunType
  <2> QED BY <1>1, <1>2, <1>3, <2>1 DEF TaskTypes
<1>6. NumberedAsMade'
  BY <1>1, <1>4 DEF NumberedAsMade
<1>7. StartedInOrder'
  <2> SUFFICES ASSUME NEW q \in TaskRuns
               PROVE  /\ trun'[q].end # "none" <=> q \in Over
                      /\ \A p \in TaskRuns : p < q /\ p \in Active =>
                           trun'[q].st \notin {"running", "cancelling"} /\ trun'[q].end \in {"none", "ok"}
    BY <1>4 DEF StartedInOrder
  <2>1. trun'[q].end # "none" <=> q \in Over
    BY <1>1, <1>3 DEF StartedInOrder
  <2>2. ASSUME NEW p \in TaskRuns, p < q, p \in Active
        PROVE  trun'[q].st \notin {"running", "cancelling"} /\ trun'[q].end \in {"none", "ok"}
    <3>1. trun[q].st \notin {"running", "cancelling"} /\ trun[q].end \in {"none", "ok"}
      BY <1>1, <2>2 DEF StartedInOrder
    <3>2. q # r
      BY <2>2 DEF StartTaskRun, Active
    <3> QED BY <1>3, <3>1, <3>2
  <2> QED BY <2>1, <2>2
<1>8. ASSUME NEW b \in Agents PROVE Followed(agent[b])'
  <2>1. Followed(agent[b])
    BY DEF TaskInv
  <2>2. \A q \in TaskRuns : trun'[q].end = trun[q].end
    BY <1>3
  <2>3. Over \subseteq TaskRuns
    BY DEF Over
  <2>4. RunFollowed(agent[b])'
    BY <1>2, <1>4, <2>1, <2>2, <2>3 DEF Followed, RunFollowed
  <2> QED BY <1>2, <1>4, <2>1, <2>4 DEF Followed, AsksAlone, OpAt
<1> QED BY <1>5, <1>6, <1>7, <1>8 DEF TaskInv

\* The runs that were made are as many as the last one's number.
LEMMA NextNumber ==
  ASSUME TaskInv
  PROVE  \A r \in TaskRuns : r = Cardinality(Made) + 1 => r \notin Made /\ \A q \in TaskRuns : q \in Made <=> q < r
<1>1. PICK n \in 0..NTasks : \A r \in TaskRuns : r \in Made <=> r <= n
  BY DEF TaskInv, NumberedAsMade
<1>2. Made = 1..n /\ n \in Nat
  BY <1>1, TasksAssumption DEF Made, TaskRuns
<1>3. Cardinality(Made) = n
  BY <1>2, FS_Interval
<1> QED BY <1>1, <1>2, <1>3, TasksAssumption DEF TaskRuns

\* A run is made for the message: it is the last of its context.
LEMMA CreateKeepsTask ==
  ASSUME TaskInv, NEW a \in Agents, CreateTaskRun(a)
  PROVE  TaskInv'
<1>1. agent[a] \in AgentType /\ AsksAlone(agent[a]) /\ OpAt(agent[a]) /\ TaskTypes /\ NumberedAsMade /\ StartedInOrder
  BY OfAgent
<1>2. agent[a].pc = "create" /\ agent[a].run = 0 /\ agent[a].later = FALSE /\ agent[a].seen = "none"
      /\ agent[a].op \in {"send", "stream"}
  BY <1>1 DEF CreateTaskRun, AsksAlone, OpAt
<1>3. PICK r \in TaskRuns :
        /\ r = Cardinality(Made) + 1
        /\ trun' = [trun EXCEPT ![r].st = "pending"]
        /\ agent' = [b \in Agents |->
             IF b = a
             THEN [agent[a] EXCEPT !.run = r,
                                   !.task = IF @ = 0 THEN r ELSE @,
                                   !.pc = IF agent[a].op = "stream" THEN "joined" ELSE "join"]
             ELSE [agent[b] EXCEPT !.later = @ \/ agent[b].run # 0]]
  BY DEF CreateTaskRun
<1>4. r \notin Made /\ r \in Nat /\ r # 0 /\ r \in 0..NTasks /\ \A q \in TaskRuns : q \in Made <=> q < r
  BY <1>3, NextNumber, TasksAssumption DEF TaskRuns
<1>5. trun[r].st = "none" /\ trun[r].end = "none" /\ trun[r] \in TaskRunType
  <2>1. trun[r].st = "none" /\ r \notin Over
    BY <1>4 DEF Made, Over
  <2> QED BY <1>1, <2>1 DEF StartedInOrder, TaskTypes
<1>6. \A q \in TaskRuns : trun'[q] = IF q = r THEN [st |-> "pending", end |-> "none"] ELSE trun[q]
  BY <1>1, <1>3, <1>5 DEF TaskTypes, TaskRunType
<1>7. Made' = Made \cup {r} /\ Over' = Over /\ Active' = Active \cup {r} /\ ctx' = "busy"
  <2>1. \A q \in TaskRuns : q # r => trun'[q] = trun[q]
    BY <1>6
  <2>2. trun'[r].st = "pending"
    BY <1>6
  <2> QED BY <1>5, <2>1, <2>2 DEF Made, Over, Active, CreateTaskRun
<1>8. NumberedAsMade'
  <2>1. \A q \in TaskRuns : q \in Made' <=> q <= r
    BY <1>4, <1>7 DEF TaskRuns
  <2> QED BY <1>4, <2>1 DEF NumberedAsMade
<1>9. StartedInOrder'
  <2> SUFFICES ASSUME NEW q \in TaskRuns
               PROVE  /\ trun'[q].end # "none" <=> q \in Over
                      /\ \A p \in TaskRuns : p < q /\ p \in Active' =>
                           trun'[q].st \notin {"running", "cancelling"} /\ trun'[q].end \in {"none", "ok"}
    BY <1>7 DEF StartedInOrder
  <2>1. trun'[q].end # "none" <=> q \in Over
    BY <1>1, <1>5, <1>6 DEF StartedInOrder
  <2>2. ASSUME NEW p \in TaskRuns, p < q, p \in Active'
        PROVE  trun'[q].st \notin {"running", "cancelling"} /\ trun'[q].end \in {"none", "ok"}
    <3>1. CASE q = r
      BY <1>6, <3>1
    <3>2. CASE q # r
      <4>1. CASE p = r
        <5>1. q \notin Made
          BY <1>4, <2>2, <4>1 DEF TaskRuns
        <5>2. trun[q].st = "none" /\ q \notin Over
          BY <5>1 DEF Made, Over
        <5> QED BY <1>1, <1>6, <3>2, <5>2 DEF StartedInOrder
      <4>2. CASE p # r
        BY <1>1, <1>6, <1>7, <2>2, <3>2, <4>2 DEF StartedInOrder
      <4> QED BY <4>1, <4>2
    <3> QED BY <3>1, <3>2
  <2> QED BY <2>1, <2>2
<1>10. ASSUME NEW b \in Agents PROVE Followed(agent[b])' /\ agent'[b] \in AgentType
  <2>1. CASE b = a
    <3> DEFINE g == [agent[a] EXCEPT !.run = r, !.task = IF @ = 0 THEN r ELSE @,
                                     !.pc = IF agent[a].op = "stream" THEN "joined" ELSE "join"]
    <3>1. agent'[b] = g
      BY <1>3, <2>1
    <3>2. g \in AgentType
      BY <1>1, <1>4 DEF AgentType
    <3>3. g.run = r /\ g.op = agent[a].op /\ g.seen = "none" /\ g.pc = (IF agent[a].op = "stream" THEN "joined" ELSE "join")
      BY <1>1, <1>2 DEF AgentType
    <3> HIDE DEF g
    <3>4. \A q \in Made' : q <= r
      BY <1>4, <1>7 DEF Made, TaskRuns
    <3>5. r \notin Over' /\ r \in Made'
      BY <1>4, <1>5, <1>7 DEF Over
    <3>6. AsksAlone(agent[b])' /\ OpAt(agent[b])'
      BY <1>2, <1>4, <3>1, <3>3, <3>5 DEF AsksAlone, OpAt
    <3>7. RunFollowed(agent[b])'
      BY <3>1, <3>3, <3>4, <3>5 DEF RunFollowed
    <3> QED BY <3>1, <3>2, <3>6, <3>7 DEF Followed
  <2>2. CASE b # a
    <3>1. agent[b] \in AgentType /\ AsksAlone(agent[b]) /\ OpAt(agent[b]) /\ RunFollowed(agent[b])
      BY OfAgent
    <3> DEFINE g == [agent[b] EXCEPT !.later = @ \/ agent[b].run # 0]
    <3>2. agent'[b] = g
      BY <1>3, <2>2
    <3>3. g \in AgentType
      BY <3>1 DEF AgentType
    <3>4. /\ g.pc = agent[b].pc /\ g.op = agent[b].op /\ g.task = agent[b].task /\ g.run = agent[b].run
          /\ g.seen = agent[b].seen /\ g.read = agent[b].read /\ g.answer = agent[b].answer
      BY <3>1 DEF AgentType
    <3>5. (g.run # 0 => g.later = TRUE) /\ (g.run = 0 => g.later = agent[b].later)
      BY <3>1 DEF AgentType
    <3> HIDE DEF g
    <3>6. AsksAlone(agent[b])' /\ OpAt(agent[b])'
      BY <1>7, <3>1, <3>2, <3>4, <3>5 DEF AsksAlone, OpAt
    <3>7. \A q \in Over : trun'[q].end = trun[q].end
      BY <1>5, <1>6 DEF Over
    <3>8. RunFollowed(agent[b])'
      BY <1>7, <3>1, <3>2, <3>4, <3>5, <3>7 DEF RunFollowed
    <3> QED BY <3>2, <3>3, <3>6, <3>8 DEF Followed
  <2> QED BY <2>1, <2>2
<1>11. TaskTypes'
  <2>1. trun' \in [TaskRuns -> TaskRunType]
    <3>1. [st |-> "pending", end |-> "none"] \in TaskRunType
      BY DEF TaskRunType, Outcome
    <3> QED BY <1>1, <1>3, <1>6, <3>1 DEF TaskTypes
  <2>2. agent' \in [Agents -> AgentType]
    BY <1>3, <1>10
  <2> QED BY <1>7, <2>1, <2>2 DEF TaskTypes
<1> QED BY <1>8, <1>9, <1>10, <1>11 DEF TaskInv

\* A run comes to its end: who has joined it hears of it, and the thread takes its status
\* when no other run waits or runs.
LEMMA EndKeepsTask ==
  ASSUME TaskInv, NEW r \in TaskRuns, NEW st \in {"success", "error", "interrupted"}, NEW end \in {"ok", "pause", "error"},
         trun[r].st \in {"running", "cancelling"},
         trun' = [trun EXCEPT ![r] = [st |-> st, end |-> end]], ctx' = ContextAfter(r, end), agent' = Heard(r, end)
  PROVE  TaskInv'
<1>1. TaskTypes /\ NumberedAsMade /\ StartedInOrder
  BY DEF TaskInv
<1>2. \A q \in TaskRuns : trun'[q] = IF q = r THEN [st |-> st, end |-> end] ELSE trun[q]
  BY <1>1 DEF TaskTypes
<1>3. Made' = Made /\ Over' = Over \cup {r} /\ Active' = Active \ {r} /\ r \notin Over /\ r \in Made
  <2>1. \A q \in TaskRuns : q # r => trun'[q] = trun[q]
    BY <1>2
  <2>2. trun'[r].st = st
    BY <1>2
  <2> QED BY <2>1, <2>2 DEF Made, Over, Active
<1>4. \A q \in TaskRuns : q < r => q \notin Active
  BY <1>1 DEF StartedInOrder
<1>5. NumberedAsMade'
  BY <1>1, <1>3 DEF NumberedAsMade
<1>6. StartedInOrder'
  <2> SUFFICES ASSUME NEW q \in TaskRuns
               PROVE  /\ trun'[q].end # "none" <=> q \in Over'
                      /\ \A p \in TaskRuns : p < q /\ p \in Active' =>
                           trun'[q].st \notin {"running", "cancelling"} /\ trun'[q].end \in {"none", "ok"}
    BY DEF StartedInOrder
  <2>1. trun'[q].end # "none" <=> q \in Over'
    <3>1. CASE q = r
      BY <1>2, <1>3, <3>1
    <3>2. CASE q # r
      BY <1>1, <1>2, <1>3, <3>2 DEF StartedInOrder
    <3> QED BY <3>1, <3>2
  <2>2. ASSUME NEW p \in TaskRuns, p < q, p \in Active'
        PROVE  trun'[q].st \notin {"running", "cancelling"} /\ trun'[q].end \in {"none", "ok"}
    <3>1. q # r /\ p \in Active
      BY <1>3, <1>4, <2>2
    <3> QED BY <1>1, <1>2, <2>2, <3>1 DEF StartedInOrder
  <2> QED BY <2>1, <2>2
<1>7. ctx' \in {"idle", "busy", "interrupted", "error"} /\ (Active \ {r} = {} => ThreadFallback(ctx') = end)
  BY DEF ContextAfter, ThreadFallback
<1>8. ASSUME NEW b \in Agents PROVE Followed(agent[b])' /\ agent'[b] \in AgentType
  <2>1. agent[b] \in AgentType /\ AsksAlone(agent[b]) /\ OpAt(agent[b]) /\ RunFollowed(agent[b])
    BY OfAgent
  <2>2. \A q \in Over : trun'[q].end = trun[q].end
    BY <1>2, <1>3 DEF Over
  <2>3. trun'[r].end = end
    BY <1>2
  <2>4. CASE agent[b].run = r /\ agent[b].pc = "joined"
    <3> DEFINE g == [agent[b] EXCEPT !.seen = end]
    <3>1. agent'[b] = g
      BY <2>4 DEF Heard
    <3>2. g \in AgentType
      BY <2>1 DEF AgentType, Outcome
    <3>3. g.pc = "joined" /\ g.op = agent[b].op /\ g.run = r /\ g.seen = end /\ g.later = agent[b].later
      BY <2>1, <2>4 DEF AgentType
    <3> HIDE DEF g
    <3>4. AsksAlone(agent[b])' /\ OpAt(agent[b])'
      BY <1>3, <2>1, <2>4, <3>1, <3>3 DEF AsksAlone, OpAt
    <3>5. r \in Over' /\ end # "none"
      BY <1>3
    <3>6. RunFollowed(agent[b])'
      BY <1>3, <2>1, <2>3, <2>4, <3>1, <3>3, <3>5 DEF RunFollowed
    <3> QED BY <3>1, <3>2, <3>4, <3>6 DEF Followed
  <2>5. CASE ~ (agent[b].run = r /\ agent[b].pc = "joined") /\ agent[b].run \in Over
    <3> DEFINE g == [agent[b] EXCEPT !.later = TRUE]
    <3>1. agent'[b] = g
      BY <2>5 DEF Heard
    <3>2. g \in AgentType
      BY <2>1 DEF AgentType
    <3>3. /\ g.pc = agent[b].pc /\ g.op = agent[b].op /\ g.task = agent[b].task /\ g.run = agent[b].run
          /\ g.seen = agent[b].seen /\ g.read = agent[b].read /\ g.answer = agent[b].answer /\ g.later = TRUE
      BY <2>1 DEF AgentType
    <3> HIDE DEF g
    <3>4. agent[b].run # 0
      BY <2>5 DEF Over, TaskRuns
    <3>5. AsksAlone(agent[b])' /\ OpAt(agent[b])'
      BY <1>3, <2>1, <3>1, <3>3, <3>4 DEF AsksAlone, OpAt
    <3>6. RunFollowed(agent[b])'
      BY <1>3, <2>1, <2>2, <2>5, <3>1, <3>3 DEF RunFollowed
    <3> QED BY <3>1, <3>2, <3>5, <3>6 DEF Followed
  <2>6. CASE ~ (agent[b].run = r /\ agent[b].pc = "joined") /\ agent[b].run \notin Over
    <3>1. agent'[b] = agent[b]
      BY <2>6 DEF Heard
    <3>2. AsksAlone(agent[b])' /\ OpAt(agent[b])'
      BY <1>3, <2>1, <3>1 DEF AsksAlone, OpAt
    <3>3. ASSUME agent[b].op \in {"send", "stream"}, agent[b].run = r, ~ agent[b].later
          PROVE  ThreadFallback(ctx') = end
      <4>1. \A q \in Made : q <= r
        BY <2>1, <3>3 DEF RunFollowed, OpAt, AgentType, TaskRuns
      <4>2. \A q \in Active : q = r
        BY <1>4, <4>1, TasksAssumption DEF Active, Made, TaskRuns
      <4> QED BY <1>7, <4>2
    <3>4. ASSUME agent[b].op \in {"send", "stream"}, agent[b].run = r
          PROVE  agent[b].op = "send" /\ agent[b].pc \notin {"answered", "joined"} /\ agent[b].seen = "none"
      <4>1. agent[b].pc \notin {"answered", "joined"} /\ agent[b].run # 0
        BY <1>3, <2>1, <2>6, <3>4 DEF RunFollowed, TaskRuns
      <4>2. agent[b].pc = "join"
        BY <2>1, <3>4, <4>1 DEF AgentType, AsksAlone, OpAt
      <4> QED BY <2>1, <4>1, <4>2 DEF OpAt
    <3>5. RunFollowed(agent[b])'
      <4>1. CASE agent[b].run = r
        BY <1>3, <2>1, <2>3, <3>1, <3>3, <3>4, <4>1 DEF RunFollowed
      <4>2. CASE agent[b].run # r
        BY <1>3, <2>1, <2>6, <3>1, <4>2 DEF RunFollowed
      <4> QED BY <4>1, <4>2
    <3> QED BY <2>1, <3>1, <3>2, <3>5 DEF Followed
  <2> QED BY <2>4, <2>5, <2>6
<1>9. TaskTypes'
  <2>1. trun' \in [TaskRuns -> TaskRunType]
    <3>1. [st |-> st, end |-> end] \in TaskRunType
      BY DEF TaskRunType, Outcome
    <3> QED BY <1>1, <1>2, <3>1 DEF TaskTypes
  <2>2. agent' \in [Agents -> AgentType]
    BY <1>8 DEF Heard
  <2> QED BY <1>7, <2>1, <2>2 DEF TaskTypes
<1> QED BY <1>5, <1>6, <1>8, <1>9 DEF TaskInv

\* A cancellation of a run that waits ends it, one of a run that runs is heard later.
LEMMA CancelKeepsTask ==
  ASSUME TaskInv, NEW a \in Agents, CancelTask(a)
  PROVE  TaskInv'
<1>1. agent[a] \in AgentType /\ AsksAlone(agent[a]) /\ OpAt(agent[a]) /\ TaskTypes /\ NumberedAsMade /\ StartedInOrder
  BY OfAgent
<1>2. agent[a].pc = "decide" /\ agent[a].run = 0 /\ agent[a].later = FALSE /\ agent[a].seen = "none"
      /\ agent[a].op \in {"get", "list", "cancel"} /\ agent[a].task # 0
  BY <1>1 DEF CancelTask, AsksAlone, OpAt
<1> DEFINE r == agent[a].task
<1>3. r \in TaskRuns /\ r \in 0..NTasks /\ r # 0
  BY <1>1, <1>2, TasksAssumption DEF AgentType, TaskRuns
<1>4. CASE trun[r].st \notin {"pending", "running"}
  <2> DEFINE g == [agent[a] EXCEPT !.pc = "answered", !.answer = "INTERNAL_ERROR"]
  <2>1. agent' = [agent EXCEPT ![a] = g] /\ UNCHANGED <<trun, ctx>>
    BY <1>4 DEF CancelTask, Answer, Become
  <2>2. g \in AgentType
    BY <1>1 DEF AgentType, State
  <2>3. g.pc = "answered" /\ g.run = 0 /\ g.later = FALSE /\ g.seen = "none"
    BY <1>1, <1>2 DEF AgentType
  <2> HIDE DEF g
  <2>4. Followed(g)
    BY <2>2, <2>3, AsksOn DEF OpAt
  <2> QED BY <2>1, <2>2, <2>4, OneAgentActs
<1> DEFINE g == [agent[a] EXCEPT !.pc = "canceling", !.run = r]
<1>5. CASE trun[r].st \in {"pending", "running"}
  <2>1. agent' = [agent EXCEPT ![a] = g]
    BY <1>1, <1>5 DEF CancelTask, TaskTypes
  <2>2. g \in AgentType
    BY <1>1, <1>3 DEF AgentType
  <2>3. g.pc = "canceling" /\ g.op = agent[a].op /\ g.run = r /\ g.task = r
    BY <1>1 DEF AgentType
  <2> HIDE DEF g, r
  <2>4. \E s \in {"interrupted", "cancelling"}, e \in {"ok", "none"} :
           /\ trun' = [trun EXCEPT ![r] = [st |-> s, end |-> e]]
           /\ IF trun[r].st = "pending" THEN s = "interrupted" /\ e = "ok" /\ ctx' = "idle"
              ELSE s = "cancelling" /\ e = "none" /\ ctx' = ctx
    <3>1. CASE trun[r].st = "pending"
      BY <3>1 DEF CancelTask, r
    <3>2. CASE trun[r].st = "running"
      <4>1. trun[r].end = "none" /\ trun[r] \in TaskRunType
        BY <1>1, <1>3, <3>2 DEF StartedInOrder, Over, TaskTypes
      <4>2. trun' = [trun EXCEPT ![r].st = "cancelling"] /\ ctx' = ctx
        BY <3>2 DEF CancelTask, r
      <4>3. [trun[r] EXCEPT !.st = "cancelling"] = [st |-> "cancelling", end |-> "none"]
        BY <4>1 DEF TaskRunType
      <4> QED BY <3>2, <4>2, <4>3
    <3> QED BY <1>5, <3>1, <3>2
  <2>5. PICK s \in {"interrupted", "cancelling"}, e \in {"ok", "none"} :
           /\ trun' = [trun EXCEPT ![r] = [st |-> s, end |-> e]]
           /\ IF trun[r].st = "pending" THEN s = "interrupted" /\ e = "ok" /\ ctx' = "idle"
              ELSE s = "cancelling" /\ e = "none" /\ ctx' = ctx
    BY <2>4
  <2>6. \A q \in TaskRuns : trun'[q] = IF q = r THEN [st |-> s, end |-> e] ELSE trun[q]
    BY <1>1, <2>5 DEF TaskTypes
  <2>7. /\ Made' = Made /\ Active' = Active \ {r} /\ r \notin Over /\ r \in Made
        /\ Over' = (IF s = "interrupted" THEN Over \cup {r} ELSE Over)
    <3>1. \A q \in TaskRuns : q # r => trun'[q] = trun[q]
      BY <2>6
    <3>2. trun'[r].st = s
      BY <1>3, <2>6
    <3> QED BY <1>3, <1>5, <3>1, <3>2 DEF Made, Over, Active
  <2>8. NumberedAsMade'
    BY <1>1, <2>7 DEF NumberedAsMade
  <2>9. \A q \in TaskRuns : q \in Over => trun'[q].end = trun[q].end
    BY <2>6, <2>7
  <2>10. StartedInOrder'
    <3> SUFFICES ASSUME NEW q \in TaskRuns
                 PROVE  /\ trun'[q].end # "none" <=> q \in Over'
                        /\ \A p \in TaskRuns : p < q /\ p \in Active' =>
                             trun'[q].st \notin {"running", "cancelling"} /\ trun'[q].end \in {"none", "ok"}
      BY DEF StartedInOrder
    <3>1. trun'[q].end # "none" <=> q \in Over'
      <4>1. CASE q = r
        BY <2>5, <2>6, <2>7, <4>1
      <4>2. CASE q # r
        BY <1>1, <2>6, <2>7, <4>2 DEF StartedInOrder
      <4> QED BY <4>1, <4>2
    <3>2. ASSUME NEW p \in TaskRuns, p < q, p \in Active'
          PROVE  trun'[q].st \notin {"running", "cancelling"} /\ trun'[q].end \in {"none", "ok"}
      <4>1. p \in Active
        BY <2>7, <3>2
      <4>2. trun[q].st \notin {"running", "cancelling"} /\ trun[q].end \in {"none", "ok"}
        BY <1>1, <3>2, <4>1 DEF StartedInOrder
      <4>3. CASE q = r
        BY <1>5, <2>5, <2>6, <4>2, <4>3
      <4>4. CASE q # r
        BY <2>6, <4>2, <4>4
      <4> QED BY <4>3, <4>4
    <3> QED BY <3>1, <3>2
  <2>11. ASSUME NEW b \in Agents PROVE Followed(agent[b])'
    <3>1. agent[b] \in AgentType /\ AsksAlone(agent[b]) /\ OpAt(agent[b]) /\ RunFollowed(agent[b])
      BY OfAgent
    <3>2. CASE b = a
      <4>1. agent'[b] = g
        BY <1>1, <2>1, <3>2 DEF TaskTypes
      <4> QED BY <1>2, <1>3, <2>3, <2>7, <4>1 DEF Followed, AsksAlone, OpAt, RunFollowed
    <3>3. CASE b # a
      <4>1. agent'[b] = agent[b]
        BY <1>1, <2>1, <3>3 DEF TaskTypes
      <4>2. AsksAlone(agent[b])' /\ OpAt(agent[b])'
        BY <2>7, <3>1, <4>1 DEF AsksAlone, OpAt
      <4>3. ASSUME agent[b].op \in {"send", "stream"}, agent[b].run # 0, agent[b].run \in Over, ~ agent[b].later,
                   ThreadFallback(ctx) = trun[agent[b].run].end
            PROVE  ThreadFallback(ctx') = trun[agent[b].run].end
        <5>1. CASE ctx' = ctx
          BY <4>3, <5>1
        <5>2. CASE ctx' = "idle" /\ trun[r].st = "pending"
          <6>1. r <= agent[b].run /\ r # agent[b].run /\ r \in Active /\ agent[b].run \in TaskRuns
            BY <1>3, <2>7, <3>1, <4>3, <5>2 DEF RunFollowed, Active, Over
          <6>2. r < agent[b].run
            BY <6>1, TasksAssumption DEF TaskRuns, Active
          <6>3. trun[agent[b].run].end \in {"none", "ok"} /\ trun[agent[b].run].end # "none"
            BY <1>1, <4>3, <6>1, <6>2 DEF StartedInOrder, Active
          <6> QED BY <5>2, <6>3 DEF ThreadFallback
        <5> QED BY <2>5, <5>1, <5>2
      <4>4. RunFollowed(agent[b])'
        <5>1. CASE agent[b].run = r
          <6>1. trun'[r].end = e
            BY <1>3, <2>6
          <6>2. ThreadFallback("idle") = "ok"
            BY DEF ThreadFallback
          <6> QED BY <2>5, <2>7, <3>1, <4>1, <5>1, <6>1, <6>2 DEF RunFollowed
        <5>2. CASE agent[b].run # r
          BY <2>7, <2>9, <3>1, <4>1, <4>3, <5>2 DEF RunFollowed, Over
        <5> QED BY <5>1, <5>2
      <4> QED BY <4>1, <4>2, <4>4 DEF Followed
    <3> QED BY <3>2, <3>3
  <2>12. TaskTypes'
    <3>1. [st |-> s, end |-> e] \in TaskRunType
      BY DEF TaskRunType, Outcome
    <3>2. trun' \in [TaskRuns -> TaskRunType]
      BY <1>1, <2>5, <3>1 DEF TaskTypes
    <3>3. ctx' \in {"none", "idle", "busy", "interrupted", "error"}
      BY <1>1, <2>5 DEF TaskTypes
    <3> QED BY <1>1, <2>1, <2>2, <3>2, <3>3 DEF TaskTypes
  <2> QED BY <2>8, <2>10, <2>11, <2>12 DEF TaskInv
<1> QED BY <1>4, <1>5

\* At first no run was made and nobody asks.
LEMMA TaskStart == TaskInit => TaskInv
<1> SUFFICES ASSUME TaskInit PROVE TaskInv
  OBVIOUS
<1>1. 0 \in 0..NTasks /\ 0 \in 0..3
  BY TasksAssumption
<1>2. NoAgent \in AgentType /\ Followed(NoAgent)
  <2>1. NoAgent \in AgentType
    BY <1>1 DEF NoAgent, AgentType, Outcome
  <2> QED BY <2>1, AsksOn DEF NoAgent, OpAt
<1>3. [st |-> "none", end |-> "none"] \in TaskRunType
  BY DEF TaskRunType, Outcome
<1>4. TaskTypes
  BY <1>2, <1>3 DEF TaskInit, TaskTypes
<1>5. Made = {} /\ Active = {} /\ Over = {}
  BY DEF TaskInit, Made, Active, Over
<1>6. NumberedAsMade
  <2>1. \A r \in TaskRuns : ~ (r <= 0)
    BY DEF TaskRuns
  <2> QED BY <1>1, <1>5, <2>1 DEF NumberedAsMade
<1>7. StartedInOrder
  BY <1>5 DEF TaskInit, StartedInOrder
<1>8. \A a \in Agents : Followed(agent[a])
  BY <1>2 DEF TaskInit
<1> QED BY <1>4, <1>6, <1>7, <1>8 DEF TaskInv

\* Every step of the context keeps the invariant.
LEMMA TaskStep ==
  ASSUME TaskInv, [TaskNext]_taskVars
  PROVE  TaskInv'
<1>1. CASE UNCHANGED taskVars
  BY <1>1 DEF taskVars, TaskInv, TaskTypes, NumberedAsMade, StartedInOrder, Made, Active, Over, Followed, AsksAlone,
              OpAt, RunFollowed
<1>2. ASSUME NEW r \in TaskRuns, StopTaskRun(r) PROVE TaskInv'
  BY <1>2, EndKeepsTask DEF StopTaskRun
<1>3. ASSUME NEW r \in TaskRuns, NEW end \in {"ok", "pause", "error"}, FinishTaskRun(r, end) PROVE TaskInv'
  BY <1>3, EndKeepsTask DEF FinishTaskRun
<1>4. CASE WorkerStep
  BY <1>2, <1>3, <1>4, StartKeepsTask DEF WorkerStep
<1>5. ASSUME NEW a \in Agents, HandlerStep(a) PROVE TaskInv'
  BY <1>5, HandlerKeeps, CreateKeepsTask, FinishKeepsTask, CancelKeepsTask DEF HandlerStep
<1>6. CASE TaskNext
  BY <1>4, <1>5, <1>6, RequestsSent DEF TaskNext
<1> QED BY <1>1, <1>6

\* The answer of the A2A endpoint is the outcome of the run it is about.
THEOREM A2AAlwaysTellsOutcome == Spec => []A2ATellsOutcome
<1>1. Init => TaskInv /\ MessageInv
  BY TaskStart, MessageStart DEF Init
<1>2. TaskInv /\ MessageInv /\ [Next]_clientVars => (TaskInv /\ MessageInv)'
  BY TaskStep, MessageStep, StepsOfComponents
<1>3. TaskInv => AnswerIsOutcome
  BY DEF TaskInv, Followed, RunFollowed, AnswerIsOutcome
<1>4. MessageInv => FinalTellsOutcome
  BY DEF MessageInv, AnswerTells, OutcomeTold, FinalTellsOutcome
<1>5. TaskInv /\ MessageInv => A2ATellsOutcome
  BY <1>3, <1>4 DEF A2ATellsOutcome
<1> QED BY <1>1, <1>2, <1>5, PTL DEF Spec

(***************************************************************************)
(* The sessions of an event stream                                         *)
(***************************************************************************)
Status == {"running", "started"} \cup Terminal
EventId == (0..NStreamed) \X (0..Depth) \X ({"data", "input"} \cup Status) \X Nat
SentEvent == [seq : Nat, kind : {"data", "input"} \cup Status, id : EventId]
Note == {m \in [run : StreamedRuns, kind : kinds \cup {"done"}, ns : 0..Depth] : m.kind = "updates" => m.ns < Depth}
Session ==
  [run : 0..NStreamed, seq : Nat, buf : Seq(SentEvent), subs : [Subs -> {"none", "replaying", "active"}],
   ns : [0..Depth -> {"none"} \cup Status], wire : SUBSET (0..Depth), asked : BOOLEAN, latch : BOOLEAN]

WorldTypes ==
  /\ kinds \subseteq {"values", "started", "updates", "interrupt", "error", "retry", "delete", "fail"}
  /\ runs \in [StreamedRuns -> {"none", "pending", "running", "success", "error", "gone"}]
  /\ due \subseteq StreamedRuns /\ told \subseteq StreamedRuns
  /\ conn \in {"open", "closed", "left"}
  /\ tape \in Seq(Note)
  /\ con \in [pc : {"wait", "fetch", "handle", "push", "over"}, msg : Note \cup {NoMessage},
              todo : SUBSET ((0..Depth) \X Terminal)]

SessionTypes ==
  /\ sess \in Session /\ Len(sess.buf) <= MaxBuffer
  /\ pend \subseteq Subs /\ want \subseteq Subs
  /\ com \in [pc : {"idle", "replay", "respond"}, sub : Subs \cup {"none"}, since : Nat, drain : SUBSET SentEvent,
              old : BOOLEAN]
  /\ owed \in [Subs -> SUBSET EventId]
  /\ last \in Nat

\* The message under way is one of the bound run when it is handled.
Handled ==
  /\ con.pc \in {"fetch", "handle"} => con.msg \in Note
  /\ con.pc = "fetch" => con.msg.run # sess.run
  /\ con.pc = "handle" => con.msg.run = sess.run
  /\ con.pc = "push" => con.todo # {} /\ Bound

\* Nobody numbers an event beyond the counter.
Numbered ==
  /\ last <= sess.seq
  /\ \A i \in 1..Len(sess.buf) : sess.buf[i].seq <= sess.seq
  /\ com.pc = "replay" => com.since <= sess.seq /\ \A e \in com.drain : e.seq <= sess.seq

\* What the replay under way will still take from the buffer.
StillToTake == IF com.old THEN {} ELSE Ids(Drain(com.sub, Horizon))

\* The subscriptions a client has are those of the session, live but for the one that is
\* replayed; that one's debts are in the replay's hands or in the buffer ahead of it.
Subscribed ==
  /\ Bound => pend = {} /\ want = {s \in Subs : sess.subs[s] # "none"}
  /\ ~ Bound => want = pend /\ com.pc # "replay" /\ sess.buf = <<>> /\ \A s \in Subs : sess.subs[s] = "none"
  /\ com.pc = "replay" => com.sub \in Subs /\ owed[com.sub] \subseteq Ids(com.drain) \cup StillToTake
  /\ \A s \in Subs : /\ sess.subs[s] = "replaying" <=> (com.pc = "replay" /\ com.sub = s /\ ~ com.old)
                     /\ owed[s] # {} => com.pc = "replay" /\ com.sub = s

\* A run that ended for good publishes nothing any more, its end is the last that the
\* stream has of it.
Silent(r) ==
  /\ runs[r] \in {"success", "error", "gone"} /\ r \notin due
  /\ \A i \in 1..Len(tape) : tape[i].run # r

EndsAreLast ==
  /\ \A r \in due : r \notin retried => runs[r] \in {"success", "error", "gone"}
  /\ \A i \in 1..Len(tape) : tape[i].kind = "done" /\ tape[i].run \notin retried =>
       /\ runs[tape[i].run] \in {"success", "error", "gone"} /\ tape[i].run \notin due
       /\ \A j \in 1..Len(tape) : i < j => tape[j].run # tape[i].run
  /\ con.pc \in {"fetch", "handle"} /\ con.msg.kind = "done" /\ con.msg.run \notin retried => Silent(con.msg.run)

\* When the root has completed, or is about to, its run is silent and every open subgraph is
\* closed before it.
RootIsLast ==
  sess.run \notin retried =>
    /\ sess.ns[0] = "completed" =>
         sess.run \in StreamedRuns /\ Silent(sess.run) /\ con.pc # "handle" /\ \A n \in Namespaces : sess.ns[n] # "started"
    /\ con.pc = "push" /\ <<0, "completed">> \in con.todo =>
         Silent(sess.run) /\ \A n \in Namespaces : sess.ns[n] = "started" => <<n, "completed">> \in con.todo

EventInv == WorldTypes /\ SessionTypes /\ Handled /\ Numbered /\ Subscribed /\ EndsAreLast /\ RootIsLast

Smaller == {pair \in Nat \X Nat : pair[1] < pair[2]}

\* A set of natural numbers that is not empty has a least element.
LEMMA LeastSeq ==
  ASSUME NEW S \in SUBSET Nat, S # {}
  PROVE  \E n \in S : \A m \in S : n <= m
<1>1. IsWellFoundedOn(Smaller, Nat)
  BY NatLessThanWellFounded DEF OpToRel, Smaller
<1>2. PICK n \in S : \A m \in S : <<m, n>> \notin Smaller
  BY <1>1, WFMin
<1>3. \A m \in S : ~ (m < n)
  BY <1>2 DEF Smaller
<1> QED BY <1>3

\* What is announced next is the deepest namespace of the list.
LEMMA DeepestIs ==
  ASSUME con.todo \in SUBSET ((0..Depth) \X Terminal), con.todo # {}
  PROVE  Deepest \in con.todo /\ \A d \in con.todo : d[1] <= Deepest[1]
<1> DEFINE S == {Depth - d[1] : d \in con.todo}
<1>1. S \in SUBSET Nat /\ S # {} /\ \A d \in con.todo : d[1] \in Nat /\ Depth - d[1] \in S
  BY EventAssumption
<1>2. PICK n \in S : \A m \in S : n <= m
  <2> HIDE DEF S
  <2> QED BY <1>1, LeastSeq
<1>3. PICK c \in con.todo : n = Depth - c[1]
  BY <1>2
<1>4. \A d \in con.todo : d[1] <= c[1]
  <2> SUFFICES ASSUME NEW d \in con.todo PROVE d[1] <= c[1]
    OBVIOUS
  <2>1. n <= Depth - d[1] /\ d[1] \in Nat /\ c[1] \in Nat
    BY <1>1, <1>2, <1>3
  <2> QED BY <1>3, <2>1, EventAssumption
<1> QED BY <1>4 DEF Deepest

\* The replay sends the oldest event it has.
LEMMA NextIs ==
  ASSUME com.drain \in SUBSET SentEvent, com.drain # {}
  PROVE  NextToReplay \in com.drain
<1> DEFINE S == {e.seq : e \in com.drain}
<1>1. S \in SUBSET Nat /\ S # {} /\ \A e \in com.drain : e.seq \in S
  BY DEF SentEvent
<1>2. PICK n \in S : \A m \in S : n <= m
  <2> HIDE DEF S
  <2> QED BY <1>1, LeastSeq
<1>3. PICK c \in com.drain : n = c.seq
  BY <1>2
<1>4. \A d \in com.drain : c.seq <= d.seq
  BY <1>1, <1>2, <1>3
<1> QED BY <1>4 DEF NextToReplay

\* A set of natural numbers with a bound has a greatest element.
LEMMA MaxIs ==
  ASSUME NEW N \in Nat, NEW T \in SUBSET (0..N), T # {}
  PROVE  LET h == CHOOSE n \in T : \A k \in T : k <= n IN h \in T /\ \A k \in T : k <= h
<1> DEFINE S == {N - k : k \in T}
<1>1. S \in SUBSET Nat /\ S # {} /\ \A k \in T : N - k \in S
  <2>1. \A k \in T : N - k \in Nat
    OBVIOUS
  <2>2. PICK k \in T : TRUE
    OBVIOUS
  <2> QED BY <2>1, <2>2
<1>2. PICK n \in S : \A m \in S : n <= m
  <2> HIDE DEF S
  <2> QED BY <1>1, LeastSeq
<1>3. PICK c \in T : n = N - c
  BY <1>2
<1>4. \A k \in T : k <= c
  <2> SUFFICES ASSUME NEW k \in T PROVE k <= c
    OBVIOUS
  <2>1. n <= N - k /\ k \in 0..N /\ c \in 0..N
    BY <1>1, <1>2, <1>3
  <2> QED BY <1>3, <2>1
<1> QED BY <1>4

\* The horizon of a replay is one of the numbers it knows, and no less than the others.
LEMMA HorizonIs ==
  ASSUME NEW N \in Nat, com.since \in 0..N, \A e \in com.drain : e.seq \in 0..N
  PROVE  /\ Horizon \in {com.since} \cup {e.seq : e \in com.drain}
         /\ \A k \in {com.since} \cup {e.seq : e \in com.drain} : k <= Horizon
<1> DEFINE T == {com.since} \cup {e.seq : e \in com.drain}
<1>1. T \in SUBSET (0..N) /\ T # {}
  OBVIOUS
<1>2. Horizon = CHOOSE n \in T : \A k \in T : k <= n
  BY DEF Horizon
<1> HIDE DEF T
<1>3. Horizon \in T /\ \A k \in T : k <= Horizon
  BY <1>1, <1>2, MaxIs
<1> QED BY <1>3 DEF T

\* What the ring is after it took an event.
RingHas(b, buf, e) ==
  /\ Ring(b) \in Seq(SentEvent) /\ Len(Ring(b)) <= MaxBuffer
  /\ \A j \in 1..Len(Ring(b)) : Ring(b)[j] = e \/ \E i \in 1..Len(buf) : Ring(b)[j] = buf[i]
  /\ Len(b) = Len(buf) + 1 /\ b[Len(b)] = e /\ \A i \in 1..Len(buf) : b[i] = buf[i]
  /\ \A i \in 1..Len(b) : (Len(b) > MaxBuffer /\ i = 1) \/ \E j \in 1..Len(Ring(b)) : Ring(b)[j] = b[i]

\* The ring keeps everything but the oldest of too many.
LEMMA RingKeeps ==
  ASSUME NEW buf \in Seq(SentEvent), Len(buf) <= MaxBuffer, NEW e \in SentEvent, NEW b, b = Append(buf, e)
  PROVE  RingHas(b, buf, e)
<1>1. /\ b \in Seq(SentEvent) /\ Len(b) = Len(buf) + 1 /\ Len(buf) \in Nat /\ b[Len(buf) + 1] = e
      /\ \A i \in 1..Len(buf) : b[i] = buf[i]
  OBVIOUS
<1>2. CASE ~ (Len(b) > MaxBuffer)
  <2>1. Ring(b) = b
    BY <1>2 DEF Ring
  <2>2. Len(b) <= MaxBuffer
    BY <1>1, <1>2, EventAssumption
  <2>3. \A j \in 1..Len(b) : b[j] = e \/ \E i \in 1..Len(buf) : b[j] = buf[i]
    BY <1>1
  <2> QED BY <1>1, <2>1, <2>2, <2>3 DEF RingHas
<1>3. CASE Len(b) > MaxBuffer
  <2>1. Ring(b) = SubSeq(b, 2, Len(b))
    BY <1>3 DEF Ring
  <2>2. /\ Ring(b) \in Seq(SentEvent) /\ Len(Ring(b)) = Len(buf)
        /\ \A j \in 1..Len(buf) : Ring(b)[j] = b[j + 1]
    BY <1>1, <2>1
  <2>3. \A j \in 1..Len(buf) : Ring(b)[j] = e \/ \E i \in 1..Len(buf) : Ring(b)[j] = buf[i]
    <3> SUFFICES ASSUME NEW j \in 1..Len(buf), Ring(b)[j] # e PROVE \E i \in 1..Len(buf) : Ring(b)[j] = buf[i]
      OBVIOUS
    <3>1. j + 1 \in 1..Len(buf)
      BY <1>1, <2>2
    <3> QED BY <1>1, <2>2, <3>1
  <2>4. \A i \in 1..Len(b) : i = 1 \/ \E j \in 1..Len(buf) : Ring(b)[j] = b[i]
    <3> SUFFICES ASSUME NEW i \in 1..Len(b), i # 1 PROVE \E j \in 1..Len(buf) : Ring(b)[j] = b[i]
      OBVIOUS
    <3>1. i - 1 \in 1..Len(buf) /\ (i - 1) + 1 = i
      BY <1>1
    <3>2. Ring(b)[i - 1] = b[i]
      BY <2>2, <3>1
    <3> QED BY <3>1, <3>2
  <2> QED BY <1>1, <1>3, <2>2, <2>3, <2>4 DEF RingHas
<1> QED BY <1>2, <1>3

\* At first there is no session.
LEMMA EventStart == EventInit => EventInv
<1> SUFFICES ASSUME EventInit PROVE EventInv
  OBVIOUS
<1>1. PICK x \in Scenarios : /\ transport = x.transport /\ kinds = x.kinds
                             /\ runs = [r \in StreamedRuns |-> IF r <= x.others THEN "pending" ELSE "none"]
  BY DEF EventInit
<1>2. 0 \in 0..NStreamed /\ 0 \in 0..Depth /\ 0 <= MaxBuffer
  BY EventAssumption
<1>3. sess = NoSession /\ con = Waiting /\ tape = <<>> /\ due = {} /\ told = {} /\ conn = "open" /\ last = 0
      /\ want = pend /\ pend \subseteq Subs /\ owed = [s \in Subs |-> {}]
  BY EventAssumption DEF EventInit
<1>4. PICK n \in Nat : com = [Idle EXCEPT !.since = n]
  <2>1. Idle = [Idle EXCEPT !.since = 0]
    BY DEF Idle
  <2>2. 0 \in Nat /\ \A n \in 0..1 : n \in Nat
    OBVIOUS
  <2>3. \E n \in Nat : com = [Idle EXCEPT !.since = n]
    <3>1. CASE transport = "sse"
      BY <2>2, <3>1 DEF EventInit
    <3>2. CASE transport # "sse"
      BY <2>1, <2>2, <3>2 DEF EventInit
    <3> QED BY <3>1, <3>2
  <2> QED BY <2>3
<1>5. WorldTypes
  <2>1. kinds \subseteq {"values", "started", "updates", "interrupt", "error", "retry", "delete", "fail"}
    BY <1>1, EventAssumption
  <2>2. <<>> \in Seq(Note)
    OBVIOUS
  <2> QED BY <1>1, <1>3, <2>1, <2>2 DEF WorldTypes, Waiting
<1>6. sess \in Session /\ Len(sess.buf) = 0
  <2>1. <<>> \in Seq(SentEvent) /\ Len(<<>>) = 0
    OBVIOUS
  <2> QED BY <1>2, <1>3, <2>1 DEF NoSession, Session, NoRun
<1>7. SessionTypes
  <2>1. com \in [pc : {"idle", "replay", "respond"}, sub : Subs \cup {"none"}, since : Nat, drain : SUBSET SentEvent,
                 old : BOOLEAN]
    BY <1>4 DEF Idle
  <2>2. owed \in [Subs -> SUBSET EventId]
    BY <1>3
  <2>3. Len(sess.buf) <= MaxBuffer /\ last \in Nat /\ want \subseteq Subs
    BY <1>2, <1>3, <1>6
  <2> QED BY <1>3, <1>6, <2>1, <2>2, <2>3 DEF SessionTypes
<1>8. sess.run = 0 /\ sess.buf = <<>> /\ sess.seq = 0 /\ sess.ns[0] = "none" /\ con.pc = "wait" /\ com.pc = "idle"
      /\ \A s \in Subs : sess.subs[s] = "none"
  BY <1>2, <1>3, <1>4 DEF NoSession, NoRun, Waiting, Idle
<1>9. Handled /\ Numbered /\ RootIsLast /\ EndsAreLast
  BY <1>3, <1>6, <1>8 DEF Handled, Numbered, RootIsLast, EndsAreLast
<1>10. Subscribed
  BY <1>3, <1>8 DEF Subscribed, Bound, NoRun
<1> QED BY <1>5, <1>7, <1>9, <1>10 DEF EventInv

\* Steps of the runs leave the connection as it is.
LEMMA RunsApart ==
  ASSUME EventInv, UNCHANGED <<kinds, con, sess, pend, com, last, want, owed>>
  PROVE  SessionTypes' /\ Handled' /\ Numbered' /\ Subscribed'
<1>1. Note' = Note
  BY DEF Note
<1>2. SessionTypes' /\ Numbered'
  BY DEF EventInv, SessionTypes, Numbered
<1>3. Handled'
  BY <1>1 DEF EventInv, Handled, Bound
<1>4. StillToTake' = StillToTake
  BY DEF StillToTake, Drain, Horizon, Ids
<1>5. Subscribed'
  BY <1>4 DEF EventInv, Subscribed, Bound, Ids
<1> QED BY <1>2, <1>3, <1>5

\* Runs may change as long as one that is over stays so and its end stays announced.
LEMMA RunsMove ==
  ASSUME EventInv, UNCHANGED <<kinds, con, tape>>, sess'.run = sess.run, sess'.ns = sess.ns,
         retried \subseteq retried',
         \A q \in StreamedRuns : runs[q] \in {"success", "error", "gone"} /\ q \notin due =>
           runs'[q] \in {"success", "error", "gone"} /\ q \notin due',
         \A q \in due' : q \notin retried' => runs'[q] \in {"success", "error", "gone"}
  PROVE  EndsAreLast' /\ RootIsLast'
<1>1. EndsAreLast /\ RootIsLast /\ WorldTypes /\ Handled /\ sess.run \in 0..NStreamed
  BY DEF EventInv, SessionTypes, Session
<1>2. \A i \in 1..Len(tape) : tape[i] \in Note /\ tape[i].run \in StreamedRuns
  BY <1>1 DEF WorldTypes, Note
<1>3. \A q \in StreamedRuns : Silent(q) => Silent(q)'
  BY DEF Silent
<1>4. EndsAreLast'
  <2>1. con.pc \in {"fetch", "handle"} => con.msg.run \in StreamedRuns
    BY <1>1 DEF Handled, Note
  <2>2. con.pc \in {"fetch", "handle"} /\ con.msg.kind = "done" /\ con.msg.run \notin retried' => Silent(con.msg.run)'
    BY <1>1, <1>3, <2>1 DEF EndsAreLast
  <2>3. \A i \in 1..Len(tape) : tape[i].kind = "done" /\ tape[i].run \notin retried' =>
       /\ runs'[tape[i].run] \in {"success", "error", "gone"} /\ tape[i].run \notin due'
       /\ \A j \in 1..Len(tape) : i < j => tape[j].run # tape[i].run
    BY <1>1, <1>2 DEF EndsAreLast
  <2> QED BY <2>2, <2>3 DEF EndsAreLast, Silent
<1>5. RootIsLast'
  <2>1. con.pc = "push" => sess.run \in StreamedRuns
    BY <1>1, EventAssumption DEF Handled, Bound, NoRun, StreamedRuns
  <2> QED BY <1>1, <1>3, <2>1 DEF RootIsLast, Silent
<1> QED BY <1>4, <1>5

\* A message comes of a run that is not over, or its end does.
LEMMA TapeGrows ==
  ASSUME EventInv, UNCHANGED <<kinds, con, sess, runs, retried>>, NEW m \in Note, tape' = Append(tape, m),
         due' \subseteq due, m.run \in due \/ runs[m.run] = "running",
         m.kind = "done" => m.run \in due /\ m.run \notin due'
  PROVE  EndsAreLast' /\ RootIsLast' /\ tape' \in Seq(Note)
<1>1. EndsAreLast /\ RootIsLast /\ WorldTypes /\ tape \in Seq(Note)
  BY DEF EventInv, WorldTypes
<1>2. /\ tape' \in Seq(Note) /\ Len(tape') = Len(tape) + 1 /\ Len(tape) \in Nat /\ tape'[Len(tape) + 1] = m
      /\ \A i \in 1..Len(tape) : tape'[i] = tape[i]
  BY <1>1
<1>3. ASSUME NEW q, runs[q] \in {"success", "error", "gone"}, q \notin due PROVE m.run # q /\ q \notin due'
  BY <1>3
<1>4. ASSUME NEW q, Silent(q) PROVE Silent(q)'
  <2>1. runs[q] \in {"success", "error", "gone"} /\ q \notin due /\ \A i \in 1..Len(tape) : tape[i].run # q
    BY <1>4 DEF Silent
  <2>2. m.run # q /\ q \notin due'
    BY <1>3, <2>1
  <2>3. \A i \in 1..Len(tape') : tape'[i].run # q
    BY <1>2, <2>1, <2>2
  <2> QED BY <2>1, <2>2, <2>3 DEF Silent
<1>5. \A i \in 1..Len(tape') : tape'[i].kind = "done" /\ tape'[i].run \notin retried =>
       /\ runs[tape'[i].run] \in {"success", "error", "gone"} /\ tape'[i].run \notin due'
       /\ \A j \in 1..Len(tape') : i < j => tape'[j].run # tape'[i].run
  <2> SUFFICES ASSUME NEW i \in 1..Len(tape'), tape'[i].kind = "done", tape'[i].run \notin retried
               PROVE  /\ runs[tape'[i].run] \in {"success", "error", "gone"} /\ tape'[i].run \notin due'
                      /\ \A j \in 1..Len(tape') : i < j => tape'[j].run # tape'[i].run
    OBVIOUS
  <2>1. CASE i = Len(tape) + 1
    <3>1. runs[m.run] \in {"success", "error", "gone"} /\ m.run \notin due'
      BY <1>1, <1>2, <2>1 DEF EndsAreLast
    <3>2. \A j \in 1..Len(tape') : ~ (i < j)
      BY <1>2, <2>1
    <3> QED BY <1>2, <2>1, <3>1, <3>2
  <2>2. CASE i # Len(tape) + 1
    <3>1. i \in 1..Len(tape) /\ tape'[i] = tape[i]
      BY <1>2, <2>2
    <3>2. /\ runs[tape[i].run] \in {"success", "error", "gone"} /\ tape[i].run \notin due
          /\ \A j \in 1..Len(tape) : i < j => tape[j].run # tape[i].run
      BY <1>1, <3>1 DEF EndsAreLast
    <3>3. m.run # tape[i].run /\ tape[i].run \notin due'
      BY <1>3, <3>2
    <3>4. ASSUME NEW j \in 1..Len(tape'), i < j PROVE tape'[j].run # tape[i].run
      BY <1>2, <3>2, <3>3, <3>4
    <3> QED BY <3>1, <3>2, <3>3, <3>4
  <2> QED BY <2>1, <2>2
<1>6. EndsAreLast'
  <2>1. \A r \in due' : r \notin retried => runs[r] \in {"success", "error", "gone"}
    BY <1>1 DEF EndsAreLast
  <2>2. con.pc \in {"fetch", "handle"} /\ con.msg.kind = "done" /\ con.msg.run \notin retried => Silent(con.msg.run)'
    BY <1>1, <1>4 DEF EndsAreLast
  <2> QED BY <1>5, <2>1, <2>2 DEF EndsAreLast, Silent
<1>7. RootIsLast'
  BY <1>1, <1>4 DEF RootIsLast, Silent
<1> QED BY <1>2, <1>6, <1>7

\* Every step of the runs keeps the invariant.
LEMMA RunStepKeeps ==
  ASSUME EventInv, RunStep
  PROVE  EventInv'
<1>1. WorldTypes /\ EndsAreLast
  BY DEF EventInv
<1>2. PICK r \in StreamedRuns :
        \/ StartStreamedRun(r) \/ EndStreamedRun(r) \/ AnnounceDone(r) \/ DeleteStreamedRun(r)
        \/ \E kind \in kinds \ {"retry", "delete", "fail"}, n \in 0..Depth : PublishSource(r, kind, n)
  BY DEF RunStep
<1>3. UNCHANGED runRest
  BY <1>2 DEF StartStreamedRun, EndStreamedRun, AnnounceDone, DeleteStreamedRun, PublishSource
<1>4. Note' = Note
  BY <1>3 DEF Note, runRest
<1>5. SessionTypes' /\ Handled' /\ Numbered' /\ Subscribed'
  BY <1>3, RunsApart DEF runRest
<1>6. ASSUME tape' = tape, runs' \in [StreamedRuns -> {"none", "pending", "running", "success", "error", "gone"}],
             due' \subseteq StreamedRuns
      PROVE  WorldTypes'
  BY <1>1, <1>3, <1>4, <1>6 DEF WorldTypes, runRest
<1>7. CASE StartStreamedRun(r)
  <2>1. runs' = [runs EXCEPT ![r] = "running"] /\ runs[r] = "pending" /\ UNCHANGED <<retried, tape, due>>
    BY <1>7 DEF StartStreamedRun
  <2>2. WorldTypes'
    BY <1>1, <1>6, <2>1 DEF WorldTypes
  <2>3. \A q \in StreamedRuns : runs'[q] = IF q = r THEN "running" ELSE runs[q]
    BY <1>1, <2>1 DEF WorldTypes
  <2>4. \A q \in StreamedRuns : runs[q] \in {"success", "error", "gone"} /\ q \notin due =>
           runs'[q] \in {"success", "error", "gone"} /\ q \notin due'
    BY <2>1, <2>3
  <2>5. \A q \in due' : q \notin retried' => runs'[q] \in {"success", "error", "gone"}
    BY <1>1, <2>1, <2>3 DEF EndsAreLast, WorldTypes
  <2> QED BY <1>3, <1>5, <2>1, <2>2, <2>4, <2>5, RunsMove DEF EventInv, runRest
<1>8. CASE DeleteStreamedRun(r)
  <2>1. runs' = [runs EXCEPT ![r] = "gone"] /\ UNCHANGED <<retried, tape, due>>
    BY <1>8 DEF DeleteStreamedRun
  <2>2. WorldTypes'
    BY <1>1, <1>6, <2>1 DEF WorldTypes
  <2>3. \A q \in StreamedRuns : runs'[q] = IF q = r THEN "gone" ELSE runs[q]
    BY <1>1, <2>1 DEF WorldTypes
  <2>4. \A q \in StreamedRuns : runs[q] \in {"success", "error", "gone"} /\ q \notin due =>
           runs'[q] \in {"success", "error", "gone"} /\ q \notin due'
    BY <2>1, <2>3
  <2>5. \A q \in due' : q \notin retried' => runs'[q] \in {"success", "error", "gone"}
    BY <1>1, <2>1, <2>3 DEF EndsAreLast, WorldTypes
  <2> QED BY <1>3, <1>5, <2>1, <2>2, <2>4, <2>5, RunsMove DEF EventInv, runRest
<1>9. CASE EndStreamedRun(r)
  <2>1. runs[r] = "running" /\ due' = due \cup {r} /\ tape' = tape
    BY <1>9 DEF EndStreamedRun
  <2>2. PICK status \in {"success", "error", "pending"} :
          runs' = [runs EXCEPT ![r] = status] /\ retried' = (IF status = "pending" THEN retried \cup {r} ELSE retried)
    BY <1>9 DEF EndStreamedRun
  <2>3. WorldTypes'
    BY <1>1, <1>6, <2>1, <2>2 DEF WorldTypes
  <2>4. \A q \in StreamedRuns : runs'[q] = IF q = r THEN status ELSE runs[q]
    BY <1>1, <2>2 DEF WorldTypes
  <2>5. \A q \in StreamedRuns : runs[q] \in {"success", "error", "gone"} /\ q \notin due =>
           runs'[q] \in {"success", "error", "gone"} /\ q \notin due'
    BY <2>1, <2>4
  <2>6. \A q \in due' : q \notin retried' => runs'[q] \in {"success", "error", "gone"}
    BY <1>1, <2>1, <2>2, <2>4 DEF EndsAreLast, WorldTypes
  <2>7. retried \subseteq retried'
    BY <2>2
  <2> QED BY <1>3, <1>5, <2>1, <2>3, <2>5, <2>6, <2>7, RunsMove DEF EventInv, runRest
<1>10. CASE AnnounceDone(r)
  <2> DEFINE m == [run |-> r, kind |-> "done", ns |-> 0]
  <2>1. m \in Note /\ m.run = r /\ m.kind = "done"
    BY EventAssumption DEF Note
  <2>2. r \in due /\ due' = due \ {r} /\ tape' = Append(tape, m) /\ UNCHANGED <<runs, retried>>
    BY <1>10 DEF AnnounceDone
  <2> HIDE DEF m
  <2>3. EndsAreLast' /\ RootIsLast' /\ tape' \in Seq(Note)
    BY <1>3, <2>1, <2>2, TapeGrows DEF runRest
  <2>4. WorldTypes'
    BY <1>1, <1>3, <1>4, <2>2, <2>3 DEF WorldTypes, runRest
  <2> QED BY <1>5, <2>3, <2>4 DEF EventInv
<1>11. ASSUME NEW kind \in kinds \ {"retry", "delete", "fail"}, NEW n \in 0..Depth, PublishSource(r, kind, n)
       PROVE  EventInv'
  <2> DEFINE m == [run |-> r, kind |-> kind, ns |-> n]
  <2>1. m \in Note /\ m.run = r /\ m.kind # "done"
    BY <1>1, <1>11 DEF Note, PublishSource, WorldTypes
  <2>2. runs[r] = "running" /\ tape' = Append(tape, m) /\ UNCHANGED <<runs, retried, due>>
    BY <1>11 DEF PublishSource
  <2> HIDE DEF m
  <2>3. EndsAreLast' /\ RootIsLast' /\ tape' \in Seq(Note)
    BY <1>3, <2>1, <2>2, TapeGrows DEF runRest
  <2>4. WorldTypes'
    BY <1>1, <1>3, <1>4, <2>2, <2>3 DEF WorldTypes, runRest
  <2> QED BY <1>5, <2>3, <2>4 DEF EventInv
<1> QED BY <1>2, <1>7, <1>8, <1>9, <1>10, <1>11

\* An event of the bound session: it is sent, or the replay under way will send it, unless the
\* ring drops it first.
LEMMA PushKeeps ==
  ASSUME EventInv, Bound, NEW x \in Session, x.run = sess.run, x.seq = sess.seq, x.buf = sess.buf, x.subs = sess.subs,
         NEW kind \in {"data", "input"} \cup Status, NEW id \in EventId, Push(x, kind, id),
         UNCHANGED <<pend, com, want>>
  PROVE  /\ SessionTypes' /\ Numbered' /\ Subscribed' /\ last' >= last
         /\ sess' \in Session /\ sess'.run = x.run /\ sess'.ns = x.ns
<1> DEFINE e == [seq |-> x.seq + 1, kind |-> kind, id |-> id]
           b == Append(x.buf, e)
           lost == IF Len(b) > MaxBuffer THEN {b[1].id} \ Draining ELSE {}
           hit == \E s \in Subs : x.subs[s] = "active" /\ Matches(s, e)
<1>1. SessionTypes /\ Numbered /\ Subscribed /\ sess \in Session /\ Len(sess.buf) <= MaxBuffer
  BY DEF EventInv, SessionTypes
<1>2. sess.seq \in Nat /\ sess.buf \in Seq(SentEvent) /\ sess.subs \in [Subs -> {"none", "replaying", "active"}]
  BY <1>1 DEF Session
<1>3. e \in SentEvent /\ e.seq = sess.seq + 1 /\ e.id = id
  BY <1>2 DEF SentEvent
<1>4. /\ sess' = [x EXCEPT !.seq = @ + 1, !.buf = Ring(b)]
      /\ last' = IF hit THEN e.seq ELSE last
      /\ owed' = [s \in Subs |->
                   (owed[s] \cup (IF s \in want /\ Matches(s, e) /\ ~ hit THEN {id} ELSE {}))
                   \ (IF x.subs[s] = "replaying" THEN lost ELSE {})]
  BY DEF Push
<1>5. b = Append(sess.buf, e)
  OBVIOUS
<1> HIDE DEF e, b
<1>6. /\ Ring(b) \in Seq(SentEvent) /\ Len(Ring(b)) <= MaxBuffer
      /\ \A j \in 1..Len(Ring(b)) : Ring(b)[j] = e \/ \E i \in 1..Len(sess.buf) : Ring(b)[j] = sess.buf[i]
      /\ Len(b) = Len(sess.buf) + 1 /\ b[Len(b)] = e /\ \A i \in 1..Len(sess.buf) : b[i] = sess.buf[i]
      /\ \A i \in 1..Len(b) : (Len(b) > MaxBuffer /\ i = 1) \/ \E j \in 1..Len(Ring(b)) : Ring(b)[j] = b[i]
  <2>1. RingHas(b, sess.buf, e)
    BY <1>1, <1>2, <1>3, <1>5, RingKeeps
  <2> QED BY <2>1 DEF RingHas
<1>7. sess' \in Session /\ sess'.run = x.run /\ sess'.ns = x.ns /\ sess'.subs = sess.subs /\ sess'.buf = Ring(b)
      /\ sess'.seq = sess.seq + 1
  <2>1. x.seq + 1 \in Nat
    BY <1>2
  <2>2. /\ sess'.run = x.run /\ sess'.ns = x.ns /\ sess'.subs = x.subs /\ sess'.buf = Ring(b)
        /\ sess'.seq = x.seq + 1
    BY <1>4 DEF Session
  <2>3. sess' \in Session
    BY <1>4, <1>6, <2>1 DEF Session
  <2> QED BY <2>2, <2>3
<1>8. last' \in Nat /\ last' >= last /\ last' <= sess'.seq
  BY <1>1, <1>2, <1>3, <1>4, <1>7 DEF SessionTypes, Numbered
<1>9. owed' \in [Subs -> SUBSET EventId]
  BY <1>1, <1>4 DEF SessionTypes
<1>10. SessionTypes'
  BY <1>1, <1>6, <1>7, <1>8, <1>9 DEF SessionTypes
<1>11. Numbered'
  <2>1. \A j \in 1..Len(sess'.buf) : sess'.buf[j].seq <= sess'.seq
    <3> SUFFICES ASSUME NEW j \in 1..Len(Ring(b)) PROVE Ring(b)[j].seq <= sess.seq + 1
      BY <1>7
    <3>1. CASE Ring(b)[j] = e
      BY <1>2, <1>3, <3>1
    <3>2. ASSUME NEW i \in 1..Len(sess.buf), Ring(b)[j] = sess.buf[i] PROVE Ring(b)[j].seq <= sess.seq + 1
      <4>1. sess.buf[i] \in SentEvent /\ sess.buf[i].seq <= sess.seq
        BY <1>1, <1>2 DEF Numbered
      <4> QED BY <1>2, <3>2, <4>1 DEF SentEvent
    <3> QED BY <1>6, <3>1, <3>2
  <2>2. ASSUME com.pc = "replay" PROVE com.since <= sess'.seq /\ \A d \in com.drain : d.seq <= sess'.seq
    <3>1. com.since \in Nat /\ com.since <= sess.seq
      BY <1>1, <2>2 DEF SessionTypes, Numbered
    <3>2. \A d \in com.drain : d.seq \in Nat /\ d.seq <= sess.seq
      BY <1>1, <2>2 DEF SessionTypes, Numbered, SentEvent
    <3> QED BY <1>2, <1>7, <3>1, <3>2
  <2> QED BY <1>8, <2>1, <2>2 DEF Numbered
<1>12. ASSUME NEW s \in Subs, s \in want, ~ hit, Matches(s, e) PROVE sess.subs[s] = "replaying"
  BY <1>1, <1>2, <1>12 DEF Subscribed
<1>13. ASSUME com.pc = "replay" PROVE owed'[com.sub] \subseteq Ids(com.drain) \cup StillToTake'
  <2>1. com.sub \in Subs /\ owed[com.sub] \subseteq Ids(com.drain) \cup StillToTake
    BY <1>1, <1>13 DEF Subscribed
  <2>2. sess.subs[com.sub] = "replaying" <=> ~ com.old
    BY <1>1, <1>13, <2>1 DEF Subscribed
  <2>3. CASE com.old
    <3>1. owed'[com.sub] \subseteq owed[com.sub] /\ StillToTake = {}
      BY <1>4, <1>12, <2>1, <2>2, <2>3 DEF StillToTake
    <3> QED BY <2>1, <3>1
  <2>4. CASE ~ com.old
    <3>1. Horizon \in Nat /\ Horizon <= sess.seq /\ Horizon' = Horizon
      <4>1. com.since \in 0..sess.seq /\ \A d \in com.drain : d.seq \in 0..sess.seq
        BY <1>1, <1>2, <1>13 DEF SessionTypes, Numbered, SentEvent
      <4>2. Horizon \in {com.since} \cup {d.seq : d \in com.drain}
        BY <1>2, <4>1, HorizonIs
      <4>3. Horizon \in 0..sess.seq
        BY <4>1, <4>2
      <4> QED BY <1>2, <4>3 DEF Horizon
    <3>2. StillToTake' = Ids(Drain(com.sub, Horizon)')
      BY <2>4, <3>1 DEF StillToTake, Ids
    <3>3. ASSUME NEW i \in 1..Len(b), Horizon < b[i].seq, Matches(com.sub, b[i]), b[i].id \notin lost
          PROVE  b[i].id \in Ids(com.drain) \cup StillToTake'
      <4>1. CASE Len(b) > MaxBuffer /\ i = 1
        <5>1. b[i].id \in Draining
          BY <3>3, <4>1
        <5> QED BY <5>1 DEF Draining
      <4>2. ASSUME NEW j \in 1..Len(Ring(b)), Ring(b)[j] = b[i] PROVE b[i].id \in StillToTake'
        <5>1. j \in DOMAIN sess'.buf /\ sess'.buf[j] = b[i]
          BY <1>6, <1>7, <4>2
        <5>2. b[i] \in Drain(com.sub, Horizon)'
          BY <3>1, <3>3, <5>1 DEF Drain
        <5> QED BY <3>2, <5>2 DEF Ids
      <4> QED BY <1>6, <4>1, <4>2
    <3>4. ASSUME NEW y \in owed'[com.sub] PROVE y \in Ids(com.drain) \cup StillToTake'
      <4>1. y \notin lost /\ (y \in owed[com.sub] \/ (y = id /\ Matches(com.sub, e)))
        BY <1>4, <2>1, <2>2, <2>4, <3>4
      <4>2. CASE y \in Ids(com.drain)
        BY <4>2
      <4>3. CASE y \in StillToTake
        <5>1. PICK d \in Drain(com.sub, Horizon) : d.id = y
          BY <2>4, <4>3 DEF StillToTake, Ids
        <5>2. PICK i \in 1..Len(sess.buf) : sess.buf[i] = d
          BY <1>2, <5>1 DEF Drain
        <5>3. i \in 1..Len(b) /\ b[i] = d
          BY <1>2, <1>6, <5>2
        <5>4. Horizon < d.seq /\ Matches(com.sub, d)
          BY <5>1 DEF Drain
        <5> QED BY <3>3, <4>1, <5>1, <5>3, <5>4
      <4>4. CASE y = id /\ Matches(com.sub, e)
        <5>1. Len(b) \in 1..Len(b) /\ b[Len(b)] = e
          BY <1>2, <1>6
        <5>2. Horizon < e.seq
          BY <1>2, <1>3, <3>1
        <5> QED BY <1>3, <3>3, <4>1, <4>4, <5>1, <5>2
      <4> QED BY <2>1, <4>1, <4>2, <4>3, <4>4
    <3> QED BY <3>4
  <2> QED BY <2>3, <2>4
<1>14. ASSUME NEW s \in Subs, owed'[s] # {} PROVE com.pc = "replay" /\ com.sub = s
  <2>1. owed[s] # {} \/ (s \in want /\ Matches(s, e) /\ ~ hit)
    BY <1>4, <1>14
  <2> QED BY <1>1, <1>12, <2>1 DEF Subscribed
<1>15. Subscribed'
  <2>1. Bound' /\ pend' = {} /\ want' = {s \in Subs : sess'.subs[s] # "none"}
    BY <1>1, <1>7 DEF Bound, Subscribed
  <2>2. \A s \in Subs : sess'.subs[s] = "replaying" <=> (com.pc = "replay" /\ com.sub = s /\ ~ com.old)
    BY <1>1, <1>7 DEF Subscribed
  <2>3. com.pc = "replay" => com.sub \in Subs
    BY <1>1 DEF Subscribed
  <2> QED BY <1>13, <1>14, <2>1, <2>2, <2>3 DEF Subscribed, Ids
<1> QED BY <1>7, <1>8, <1>10, <1>11, <1>15

\* A lifecycle event: the namespace has the status then, whether it was told or not.
LEMMA EmitKeeps ==
  ASSUME EventInv, Bound, NEW x \in Session, x.run = sess.run, x.seq = sess.seq, x.buf = sess.buf, x.subs = sess.subs,
         NEW n \in 0..Depth, NEW status \in Status, EmitLifecycle(x, n, status),
         UNCHANGED <<pend, com, want>>
  PROVE  /\ SessionTypes' /\ Numbered' /\ Subscribed' /\ last' >= last
         /\ sess'.run = sess.run /\ sess'.ns = [x.ns EXCEPT ![n] = status] /\ told' \subseteq StreamedRuns
<1>1. SessionTypes /\ Numbered /\ Subscribed /\ told \subseteq StreamedRuns /\ x.run \in 0..NStreamed /\ x.run # 0
  BY DEF EventInv, SessionTypes, WorldTypes, Session, Bound, NoRun
<1>2. x.run \in StreamedRuns
  BY <1>1, EventAssumption DEF StreamedRuns
<1>3. CASE x.ns[n] = status /\ status # "failed"
  <2>1. sess' = x /\ UNCHANGED <<last, owed, told>>
    BY <1>3 DEF EmitLifecycle
  <2>2. sess'.ns = [x.ns EXCEPT ![n] = status]
    BY <1>3, <2>1 DEF Session
  <2>3. SessionTypes' /\ last' >= last
    BY <1>1, <2>1 DEF SessionTypes
  <2>4. Numbered'
    BY <1>1, <2>1 DEF Numbered
  <2>5. StillToTake' = StillToTake
    BY <2>1 DEF StillToTake, Drain, Horizon, Ids
  <2>6. Subscribed'
    BY <1>1, <2>1, <2>5 DEF Subscribed, Bound, Ids
  <2> QED BY <1>1, <2>1, <2>2, <2>3, <2>4, <2>6
<1>4. CASE ~ (x.ns[n] = status /\ status # "failed")
  <2> DEFINE y == [x EXCEPT !.ns[n] = status]
             id == <<x.run, n, status, 0>>
  <2>1. y \in Session /\ y.ns = [x.ns EXCEPT ![n] = status]
    BY DEF Session
  <2>2. y.run = sess.run /\ y.seq = sess.seq /\ y.buf = sess.buf /\ y.subs = sess.subs
    BY DEF Session
  <2>3. id \in EventId /\ status \in {"data", "input"} \cup Status
    BY <1>1 DEF EventId
  <2>4. Push(y, status, id) /\ told' \subseteq told \cup {x.run}
    BY <1>4 DEF EmitLifecycle
  <2> HIDE DEF y, id
  <2> QED BY <1>1, <1>2, <2>1, <2>2, <2>3, <2>4, PushKeeps
<1> QED BY <1>3, <1>4

\* The session changes in what it knows of namespaces only.
LEMMA SessionKeeps ==
  ASSUME EventInv, sess' \in Session, sess'.run = sess.run, sess'.seq = sess.seq, sess'.buf = sess.buf,
         sess'.subs = sess.subs, UNCHANGED <<pend, com, want, owed, last>>
  PROVE  SessionTypes' /\ Numbered' /\ Subscribed' /\ last' >= last
<1>1. SessionTypes /\ Numbered /\ Subscribed
  BY DEF EventInv
<1>2. SessionTypes' /\ last' >= last
  BY <1>1 DEF SessionTypes
<1>3. Numbered'
  BY <1>1 DEF Numbered
<1>4. StillToTake' = StillToTake
  BY DEF StillToTake, Drain, Horizon, Ids
<1>5. Subscribed'
  BY <1>1, <1>4 DEF Subscribed, Bound, Ids
<1> QED BY <1>2, <1>3, <1>5

\* The consumer has done with its message.
LEMMA MessageDone ==
  ASSUME EventInv, UNCHANGED consumerRest, tape' = tape, told' \subseteq StreamedRuns, sess'.run = sess.run,
         con' \in [pc : {"wait", "push", "over"}, msg : Note \cup {NoMessage}, todo : SUBSET ((0..Depth) \X Terminal)],
         con'.pc = "push" => con'.todo # {} /\ Bound
  PROVE  WorldTypes' /\ Handled' /\ EndsAreLast'
<1>1. WorldTypes /\ EndsAreLast
  BY DEF EventInv
<1>2. Note' = Note
  BY DEF Note, consumerRest
<1>3. WorldTypes'
  BY <1>1, <1>2 DEF WorldTypes, consumerRest
<1>4. Handled'
  BY DEF Handled, Bound
<1>5. EndsAreLast'
  BY <1>1 DEF EndsAreLast, consumerRest
<1> QED BY <1>3, <1>4, <1>5

\* A message that is handled does not complete the root.
LEMMA RootStaysOpen ==
  ASSUME EventInv, con.pc = "handle", con'.pc # "handle", sess'.run = sess.run, retried' = retried,
         sess'.ns[0] # "completed" \/ sess'.ns[0] = sess.ns[0],
         con'.pc = "push" => <<0, "completed">> \notin con'.todo
  PROVE  RootIsLast'
<1>1. RootIsLast
  BY DEF EventInv
<1>2. sess.run \notin retried => sess.ns[0] # "completed"
  BY <1>1 DEF RootIsLast
<1> QED BY <1>2 DEF RootIsLast

\* The message that is handled is one of the bound run.
LEMMA HandledMessage ==
  ASSUME EventInv, con.pc = "handle"
  PROVE  /\ con.msg.run = sess.run /\ con.msg.run \in 0..NStreamed /\ con.msg.ns \in 0..Depth /\ Bound
         /\ con.msg.kind = "updates" => con.msg.ns + 1 \in 0..Depth
         /\ sess \in Session /\ sess.seq \in Nat /\ told \subseteq StreamedRuns
         /\ \A n \in 0..Depth : Register(sess, n) \in Session /\ Register(sess, n).ns[0] = sess.ns[0]
                                /\ Register(sess, n).run = sess.run /\ Register(sess, n).seq = sess.seq
                                /\ Register(sess, n).buf = sess.buf /\ Register(sess, n).subs = sess.subs
<1>1. con.msg \in Note /\ con.msg.run = sess.run /\ sess \in Session /\ told \subseteq StreamedRuns
  BY DEF EventInv, Handled, SessionTypes, WorldTypes
<1>2. con.msg.run \in StreamedRuns /\ con.msg.ns \in 0..Depth /\ (con.msg.kind = "updates" => con.msg.ns < Depth)
  BY <1>1 DEF Note
<1>3. con.msg.run \in 0..NStreamed /\ con.msg.run # 0
  BY <1>2, EventAssumption DEF StreamedRuns
<1>4. con.msg.kind = "updates" => con.msg.ns + 1 \in 0..Depth
  BY <1>2, EventAssumption
<1>5. Bound
  BY <1>1, <1>3 DEF Bound, NoRun
<1>6. ASSUME NEW n \in 0..Depth
      PROVE  Register(sess, n) \in Session /\ Register(sess, n).ns[0] = sess.ns[0]
                                /\ Register(sess, n).run = sess.run /\ Register(sess, n).seq = sess.seq
                                /\ Register(sess, n).buf = sess.buf /\ Register(sess, n).subs = sess.subs
  <2> DEFINE f == [k \in 0..Depth |-> IF k \in 1..n THEN "started" ELSE sess.ns[k]]
  <2>1. f \in [0..Depth -> {"none"} \cup Status]
    BY <1>1 DEF Session, Status
  <2>2. f[0] = sess.ns[0]
    BY EventAssumption
  <2>3. Register(sess, n) = [sess EXCEPT !.ns = f]
    BY DEF Register
  <2> HIDE DEF f
  <2> QED BY <1>1, <2>1, <2>2, <2>3 DEF Session
<1>7. sess.seq \in Nat
  BY <1>1 DEF Session
<1> QED BY <1>1, <1>2, <1>3, <1>4, <1>5, <1>6, <1>7

\* The consumer takes the next message of the thread's stream.
LEMMA TakeMessageKeeps ==
  ASSUME EventInv, TakeMessage
  PROVE  EventInv'
<1>1. WorldTypes /\ EndsAreLast /\ RootIsLast /\ sess \in Session /\ tape \in Seq(Note) /\ tape # <<>>
  BY DEF EventInv, WorldTypes, SessionTypes, TakeMessage
<1>2. UNCHANGED <<consumerRest, sess, pend, com, last, owed, told>>
  BY DEF TakeMessage
<1>3. PICK m \in Note : /\ m = tape[1]
                        /\ con' = [con EXCEPT !.msg = m, !.pc = IF m.run = sess.run THEN "handle" ELSE "fetch"]
  <2>1. con' = [con EXCEPT !.msg = Head(tape), !.pc = IF Head(tape).run = sess.run THEN "handle" ELSE "fetch"]
    BY DEF TakeMessage
  <2>2. Head(tape) = tape[1] /\ Head(tape) \in Note
    BY <1>1
  <2> QED BY <2>1, <2>2
<1>4. /\ tape' \in Seq(Note) /\ Len(tape) \in Nat \ {0} /\ Len(tape') = Len(tape) - 1
      /\ \A i \in 1..Len(tape') : i + 1 \in 1..Len(tape) /\ tape'[i] = tape[i + 1]
  <2>1. tape' = Tail(tape)
    BY DEF TakeMessage
  <2> QED BY <1>1, <2>1
<1>5. con'.msg = m /\ con'.pc = (IF m.run = sess.run THEN "handle" ELSE "fetch") /\ con'.todo = con.todo
  BY <1>1, <1>3 DEF WorldTypes
<1>6. SessionTypes' /\ Numbered' /\ Subscribed'
  BY <1>1, <1>2, SessionKeeps DEF consumerRest
<1>7. Note' = Note
  BY <1>2 DEF Note, consumerRest
<1>8. WorldTypes'
  <2>1. con' \in [pc : {"wait", "fetch", "handle", "push", "over"}, msg : Note \cup {NoMessage},
                  todo : SUBSET ((0..Depth) \X Terminal)]
    BY <1>1, <1>3 DEF WorldTypes
  <2> QED BY <1>1, <1>2, <1>4, <1>7, <2>1 DEF WorldTypes, consumerRest
<1>9. Handled'
  BY <1>2, <1>5, <1>7 DEF Handled
<1>10. ASSUME NEW q, Silent(q) PROVE Silent(q)' /\ m.run # q
  <2>1. \A i \in 1..Len(tape) : tape[i].run # q
    BY <1>10 DEF Silent
  <2>2. \A i \in 1..Len(tape') : tape'[i].run # q
    BY <1>4, <2>1
  <2> QED BY <1>2, <1>3, <1>4, <1>10, <2>1, <2>2 DEF Silent, consumerRest
<1>11. EndsAreLast'
  <2>1. \A r \in due' : r \notin retried' => runs'[r] \in {"success", "error", "gone"}
    BY <1>1, <1>2 DEF EndsAreLast, consumerRest
  <2>2. ASSUME NEW i \in 1..Len(tape'), tape'[i].kind = "done", tape'[i].run \notin retried
        PROVE  /\ runs[tape'[i].run] \in {"success", "error", "gone"} /\ tape'[i].run \notin due
               /\ \A j \in 1..Len(tape') : i < j => tape'[j].run # tape'[i].run
    <3>1. /\ runs[tape'[i].run] \in {"success", "error", "gone"} /\ tape'[i].run \notin due
          /\ \A j \in 1..Len(tape) : i + 1 < j => tape[j].run # tape'[i].run
      BY <1>1, <1>4, <2>2 DEF EndsAreLast
    <3>2. ASSUME NEW j \in 1..Len(tape'), i < j PROVE tape'[j].run # tape'[i].run
      BY <1>4, <3>1, <3>2
    <3> QED BY <3>1, <3>2
  <2>3. ASSUME m.kind = "done", m.run \notin retried PROVE Silent(m.run)'
    <3>1. /\ runs[m.run] \in {"success", "error", "gone"} /\ m.run \notin due
          /\ \A j \in 1..Len(tape) : 1 < j => tape[j].run # m.run
      BY <1>1, <1>3, <1>4, <2>3 DEF EndsAreLast
    <3>2. \A i \in 1..Len(tape') : tape'[i].run # m.run
      BY <1>4, <3>1
    <3> QED BY <1>2, <3>1, <3>2 DEF Silent, consumerRest
  <2>4. retried' = retried /\ due' = due /\ runs' = runs
    BY <1>2 DEF consumerRest
  <2> QED BY <1>5, <2>1, <2>2, <2>3, <2>4 DEF EndsAreLast, Silent
<1>12. RootIsLast'
  BY <1>1, <1>2, <1>5, <1>10 DEF RootIsLast, Silent, consumerRest
<1> QED BY <1>6, <1>8, <1>9, <1>11, <1>12 DEF EventInv

\* The consumer fails.
LEMMA FailConsumerKeeps ==
  ASSUME EventInv, FailConsumer
  PROVE  EventInv'
<1>1. WorldTypes /\ RootIsLast /\ sess \in Session
  BY DEF EventInv, SessionTypes
<1>2. UNCHANGED <<consumerRest, tape, sess, pend, com, last, owed, told>> /\ con' = [Waiting EXCEPT !.pc = "over"]
  BY DEF FailConsumer
<1>3. SessionTypes' /\ Numbered' /\ Subscribed'
  BY <1>1, <1>2, SessionKeeps DEF consumerRest
<1>4. con'.pc = "over"
        /\ con' \in [pc : {"wait", "push", "over"}, msg : Note \cup {NoMessage}, todo : SUBSET ((0..Depth) \X Terminal)]
  BY <1>2 DEF Waiting
<1>5. WorldTypes' /\ Handled' /\ EndsAreLast'
  BY <1>1, <1>2, <1>4, MessageDone DEF WorldTypes
<1>6. RootIsLast'
  BY <1>1, <1>2, <1>4 DEF RootIsLast, Silent, consumerRest
<1> QED BY <1>3, <1>5, <1>6 DEF EventInv

\* A message that makes at most one event.
LEMMA HandleOneKeeps ==
  ASSUME EventInv, HandleOne
  PROVE  EventInv' /\ last' >= last
<1> DEFINE m == con.msg
<1>1. UNCHANGED <<consumerRest, tape, pend, com>> /\ con' = Waiting /\ con.pc = "handle" /\ retried' = retried
      /\ want' = want
  BY DEF HandleOne, consumerRest
<1>2. /\ m.run \in 0..NStreamed /\ m.ns \in 0..Depth /\ Bound /\ m.run = sess.run
      /\ sess \in Session /\ sess.seq \in Nat /\ told \subseteq StreamedRuns
  BY <1>1, HandledMessage
<1>3. con'.pc = "wait"
        /\ con' \in [pc : {"wait", "push", "over"}, msg : Note \cup {NoMessage}, todo : SUBSET ((0..Depth) \X Terminal)]
  BY <1>1 DEF Waiting
<1> SUFFICES /\ SessionTypes' /\ Numbered' /\ Subscribed' /\ last' >= last /\ told' \subseteq StreamedRuns
             /\ sess'.run = sess.run /\ (sess'.ns[0] # "completed" \/ sess'.ns[0] = sess.ns[0])
  <2>1. WorldTypes' /\ Handled' /\ EndsAreLast'
    BY <1>1, <1>3, MessageDone
  <2>2. RootIsLast'
    BY <1>1, <1>3, RootStaysOpen
  <2> QED BY <2>1, <2>2 DEF EventInv
<1>4. CASE /\ m.kind = "values"
           /\ Push(Register(sess, m.ns), "data", <<m.run, m.ns, "data", sess.seq>>)
           /\ UNCHANGED told
  <2> DEFINE x == Register(sess, m.ns)
             id == <<m.run, m.ns, "data", sess.seq>>
  <2>1. x \in Session /\ x.ns[0] = sess.ns[0] /\ x.run = sess.run /\ x.seq = sess.seq /\ x.buf = sess.buf
        /\ x.subs = sess.subs
    BY <1>1, <1>2, HandledMessage
  <2>2. id \in EventId /\ "data" \in {"data", "input"} \cup Status
    BY <1>2 DEF EventId
  <2>3. Push(x, "data", id)
    BY <1>4
  <2> HIDE DEF x, id
  <2> QED BY <1>1, <1>2, <1>4, <2>1, <2>2, <2>3, PushKeeps
<1>5. CASE /\ m.kind = "started" /\ m.ns \notin sess.wire
           /\ Push([sess EXCEPT !.wire = @ \cup {m.ns}, !.ns[m.ns] = "started"],
                   "started", <<m.run, m.ns, "started", 0>>)
           /\ UNCHANGED told
  <2> DEFINE x == [sess EXCEPT !.wire = @ \cup {m.ns}, !.ns[m.ns] = "started"]
             id == <<m.run, m.ns, "started", 0>>
  <2>1. x \in Session /\ x.ns = [sess.ns EXCEPT ![m.ns] = "started"]
    BY <1>2 DEF Session, Status
  <2>2. x.run = sess.run /\ x.seq = sess.seq /\ x.buf = sess.buf /\ x.subs = sess.subs
    BY <1>2 DEF Session
  <2>3. x.ns[0] = sess.ns[0] \/ x.ns[0] = "started"
    <3>1. 0 \in 0..Depth
      BY EventAssumption
    <3> QED BY <1>2, <2>1, <3>1 DEF Session
  <2>4. id \in EventId /\ "started" \in {"data", "input"} \cup Status
    BY <1>2 DEF EventId, Status
  <2>5. Push(x, "started", id)
    BY <1>5
  <2> HIDE DEF x, id
  <2> QED BY <1>1, <1>2, <1>5, <2>1, <2>2, <2>3, <2>4, <2>5, PushKeeps
<1>6. CASE m.kind = "error" /\ EmitLifecycle([sess EXCEPT !.latch = TRUE], 0, "failed")
  <2> DEFINE x == [sess EXCEPT !.latch = TRUE]
  <2>1. x \in Session
    BY <1>2 DEF Session
  <2>2. x.run = sess.run /\ x.seq = sess.seq /\ x.buf = sess.buf /\ x.subs = sess.subs /\ x.ns = sess.ns
    BY <1>2 DEF Session
  <2>3. "failed" \in Status /\ 0 \in 0..Depth
    BY EventAssumption DEF Status, Terminal
  <2>4. EmitLifecycle(x, 0, "failed")
    BY <1>6
  <2> HIDE DEF x
  <2>5. /\ SessionTypes' /\ Numbered' /\ Subscribed' /\ last' >= last /\ told' \subseteq StreamedRuns
        /\ sess'.run = sess.run /\ sess'.ns = [x.ns EXCEPT ![0] = "failed"]
    BY <1>1, <1>2, <2>1, <2>2, <2>3, <2>4, EmitKeeps
  <2>6. sess'.ns[0] = "failed"
    BY <1>2, <2>2, <2>3, <2>5 DEF Session
  <2> QED BY <2>5, <2>6
<1>7. CASE UNCHANGED <<sess, last, owed, told>>
  BY <1>1, <1>2, <1>7, SessionKeeps
<1> QED BY <1>4, <1>5, <1>6, <1>7 DEF HandleOne

\* updates: the event, then the end of the child; interrupt: the request, then the root's status.
LEMMA HandleTwoKeeps ==
  ASSUME EventInv, HandleTwo
  PROVE  EventInv' /\ last' >= last
<1> DEFINE m == con.msg
<1>1. UNCHANGED <<consumerRest, tape, pend, com, told>> /\ con.pc = "handle" /\ retried' = retried /\ want' = want
  BY DEF HandleTwo, consumerRest
<1>2. /\ m.run \in 0..NStreamed /\ m.ns \in 0..Depth /\ Bound /\ m.run = sess.run
      /\ sess \in Session /\ sess.seq \in Nat /\ told \subseteq StreamedRuns
      /\ (m.kind = "updates" => m.ns + 1 \in 0..Depth)
  BY <1>1, HandledMessage
<1> SUFFICES /\ SessionTypes' /\ Numbered' /\ Subscribed' /\ last' >= last
             /\ sess'.run = sess.run /\ sess'.ns[0] = sess.ns[0]
             /\ con' \in [pc : {"wait", "push", "over"}, msg : Note \cup {NoMessage},
                          todo : SUBSET ((0..Depth) \X Terminal)]
             /\ con'.pc = "push" => con'.todo # {} /\ <<0, "completed">> \notin con'.todo
  <2>1. WorldTypes' /\ Handled' /\ EndsAreLast'
    BY <1>1, <1>2, MessageDone
  <2>2. RootIsLast'
    <3>1. con'.pc # "handle"
      OBVIOUS
    <3> QED BY <1>1, <3>1, RootStaysOpen
  <2> QED BY <2>1, <2>2 DEF EventInv
<1>3. CASE /\ m.kind = "updates"
           /\ Push(Register(sess, m.ns), "data", <<m.run, m.ns, "data", sess.seq>>)
           /\ con' = IF sess.ns[m.ns + 1] = "started"
                     THEN [Waiting EXCEPT !.pc = "push", !.todo = {<<m.ns + 1, "completed">>}]
                     ELSE Waiting
  <2> DEFINE x == Register(sess, m.ns)
             id == <<m.run, m.ns, "data", sess.seq>>
  <2>1. x \in Session /\ x.ns[0] = sess.ns[0] /\ x.run = sess.run /\ x.seq = sess.seq /\ x.buf = sess.buf
        /\ x.subs = sess.subs
    BY <1>1, <1>2, HandledMessage
  <2>2. id \in EventId /\ "data" \in {"data", "input"} \cup Status
    BY <1>2 DEF EventId
  <2>3. Push(x, "data", id)
    BY <1>3
  <2>4. /\ con' \in [pc : {"wait", "push", "over"}, msg : Note \cup {NoMessage},
                     todo : SUBSET ((0..Depth) \X Terminal)]
        /\ con'.pc = "push" => con'.todo # {} /\ <<0, "completed">> \notin con'.todo
    <3> DEFINE c == <<m.ns + 1, "completed">>
    <3>1. c \in (0..Depth) \X Terminal /\ c # <<0, "completed">>
      BY <1>2, <1>3 DEF Terminal
    <3>2. con' = [Waiting EXCEPT !.pc = "push", !.todo = {c}] \/ con' = Waiting
      BY <1>3
    <3> HIDE DEF c
    <3>3. CASE con' = Waiting
      BY <3>3 DEF Waiting
    <3>4. CASE con' = [Waiting EXCEPT !.pc = "push", !.todo = {c}]
      <4>1. con' = [pc |-> "push", msg |-> NoMessage, todo |-> {c}]
        BY <3>4 DEF Waiting
      <4> QED BY <3>1, <4>1
    <3> QED BY <3>2, <3>3, <3>4
  <2> HIDE DEF x, id
  <2>5. /\ SessionTypes' /\ Numbered' /\ Subscribed' /\ last' >= last
        /\ sess'.run = x.run /\ sess'.ns = x.ns
    BY <1>1, <1>2, <2>1, <2>2, <2>3, PushKeeps
  <2> QED BY <2>1, <2>4, <2>5
<1>4. CASE /\ m.kind = "interrupt" /\ ~ sess.asked
           /\ Push([sess EXCEPT !.asked = TRUE, !.latch = TRUE], "input", <<m.run, m.ns, "input", 0>>)
           /\ con' = [Waiting EXCEPT !.pc = "push", !.todo = {<<0, "interrupted">>}]
  <2> DEFINE x == [sess EXCEPT !.asked = TRUE, !.latch = TRUE]
             id == <<m.run, m.ns, "input", 0>>
  <2>1. x \in Session
    BY <1>2 DEF Session
  <2>2. x.run = sess.run /\ x.seq = sess.seq /\ x.buf = sess.buf /\ x.subs = sess.subs /\ x.ns = sess.ns
    BY <1>2 DEF Session
  <2>3. id \in EventId /\ "input" \in {"data", "input"} \cup Status
    BY <1>2 DEF EventId
  <2>4. Push(x, "input", id)
    BY <1>4
  <2>5. /\ con' \in [pc : {"wait", "push", "over"}, msg : Note \cup {NoMessage},
                     todo : SUBSET ((0..Depth) \X Terminal)]
        /\ con'.pc = "push" => con'.todo # {} /\ <<0, "completed">> \notin con'.todo
    <3>1. <<0, "interrupted">> \in (0..Depth) \X Terminal
      BY EventAssumption DEF Terminal
    <3> QED BY <1>4, <3>1 DEF Waiting
  <2> HIDE DEF x, id
  <2>6. /\ SessionTypes' /\ Numbered' /\ Subscribed' /\ last' >= last
        /\ sess'.run = x.run /\ sess'.ns = x.ns
    BY <1>1, <1>2, <2>1, <2>2, <2>3, <2>4, PushKeeps
  <2> QED BY <2>2, <2>5, <2>6
<1> QED BY <1>3, <1>4 DEF HandleTwo

\* run_done: the end of the run is announced when its record has one.
LEMMA CompleteRunKeeps ==
  ASSUME EventInv, CompleteRun
  PROVE  EventInv'
<1> DEFINE r == con.msg.run
           todo == Cascade(EffectiveStatus(runs[r]))
<1>1. UNCHANGED <<consumerRest, tape, pend, com, got, last, out, owed, told>> /\ con.pc = "handle"
      /\ con.msg.kind = "done" /\ want' = want
  BY DEF CompleteRun, consumerRest
<1>2. r = sess.run /\ Bound /\ sess \in Session /\ told \subseteq StreamedRuns
  BY <1>1, HandledMessage
<1>3. r \in StreamedRuns /\ runs[r] \in {"none", "pending", "running", "success", "error", "gone"}
  BY <1>1 DEF EventInv, Handled, WorldTypes, Note
<1>4. sess' = sess \/ sess' = [sess EXCEPT !.latch = TRUE]
  BY DEF CompleteRun
<1>5. /\ sess' \in Session /\ sess'.run = sess.run /\ sess'.seq = sess.seq /\ sess'.buf = sess.buf
      /\ sess'.subs = sess.subs /\ sess'.ns = sess.ns
  BY <1>2, <1>4 DEF Session
<1>6. SessionTypes' /\ Numbered' /\ Subscribed'
  BY <1>1, <1>5, SessionKeeps
<1>7. con' = Waiting \/ (con' = [Waiting EXCEPT !.pc = "push", !.todo = todo] /\ EffectiveStatus(runs[r]) # "running")
  BY DEF CompleteRun
<1>8. ASSUME EffectiveStatus(runs[r]) # "running"
      PROVE  todo \in SUBSET ((0..Depth) \X Terminal) /\ todo # {}
  <2>1. EffectiveStatus(runs[r]) \in Terminal
    BY <1>3, <1>8 DEF EffectiveStatus, Terminal
  <2>2. 0 \in 0..Depth /\ Namespaces \subseteq 0..Depth /\ "completed" \in Terminal
    BY EventAssumption DEF Namespaces, Terminal
  <2>3. <<0, EffectiveStatus(runs[r])>> \in (0..Depth) \X Terminal
    BY <2>1, <2>2
  <2> QED BY <2>2, <2>3 DEF Cascade
<1>9. \A n \in Namespaces : sess.ns[n] = "started" => <<n, "completed">> \in todo
  BY DEF Cascade
<1> HIDE DEF todo
<1>10. /\ con' \in [pc : {"wait", "push", "over"}, msg : Note \cup {NoMessage}, todo : SUBSET ((0..Depth) \X Terminal)]
       /\ con'.pc # "handle" /\ (con'.pc = "push" => con'.todo # {} /\ con'.todo = todo)
  <2>1. CASE con' = Waiting
    BY <2>1 DEF Waiting
  <2>2. CASE con' = [Waiting EXCEPT !.pc = "push", !.todo = todo] /\ EffectiveStatus(runs[r]) # "running"
    BY <1>8, <2>2 DEF Waiting
  <2> QED BY <1>7, <2>1, <2>2
<1>11. WorldTypes' /\ Handled' /\ EndsAreLast'
  BY <1>1, <1>2, <1>5, <1>10, MessageDone
<1>12. RootIsLast'
  <2>1. sess.run \notin retried => sess.ns[0] # "completed" /\ Silent(sess.run)
    BY <1>1, <1>2 DEF EventInv, RootIsLast, EndsAreLast
  <2>2. Silent(sess.run)' = Silent(sess.run) /\ retried' = retried
    BY <1>1, <1>5 DEF Silent, consumerRest
  <2> QED BY <1>5, <1>9, <1>10, <2>1, <2>2 DEF RootIsLast
<1> QED BY <1>6, <1>11, <1>12 DEF EventInv

\* The announcements of the list, the root's after those of the namespaces below it.
LEMMA PushNextKeeps ==
  ASSUME EventInv, PushNext
  PROVE  EventInv' /\ last' >= last
<1> DEFINE c == Deepest
<1>1. UNCHANGED <<consumerRest, tape, pend, com>> /\ con.pc = "push" /\ want' = want
      /\ con' = IF con.todo = {c} THEN Waiting ELSE [con EXCEPT !.todo = @ \ {c}]
  BY DEF PushNext, consumerRest
<1>2. /\ con \in [pc : {"wait", "fetch", "handle", "push", "over"}, msg : Note \cup {NoMessage},
                  todo : SUBSET ((0..Depth) \X Terminal)]
      /\ con.todo # {} /\ Bound /\ sess \in Session /\ RootIsLast
  BY <1>1 DEF EventInv, WorldTypes, Handled, SessionTypes
<1>3. c \in con.todo /\ \A d \in con.todo : d[1] <= c[1]
  BY <1>2, DeepestIs
<1>4. c[1] \in 0..Depth /\ c[2] \in Terminal /\ c = <<c[1], c[2]>> /\ c[2] \in Status /\ c[2] # "started"
  BY <1>2, <1>3 DEF Status, Terminal
<1>5. EmitLifecycle(sess, c[1], c[2])
  BY DEF PushNext
<1> HIDE DEF c
<1>6. /\ SessionTypes' /\ Numbered' /\ Subscribed' /\ last' >= last
      /\ sess'.run = sess.run /\ sess'.ns = [sess.ns EXCEPT ![c[1]] = c[2]] /\ told' \subseteq StreamedRuns
  BY <1>1, <1>2, <1>4, <1>5, EmitKeeps
<1>7. /\ con' \in [pc : {"wait", "push", "over"}, msg : Note \cup {NoMessage}, todo : SUBSET ((0..Depth) \X Terminal)]
      /\ con'.pc = "push" => con'.todo = con.todo \ {c} /\ con'.todo # {}
  <2>1. CASE con.todo = {c}
    BY <1>1, <2>1 DEF Waiting
  <2>2. CASE con.todo # {c}
    BY <1>1, <1>2, <1>3, <2>2
  <2> QED BY <2>1, <2>2
<1>8. WorldTypes' /\ Handled' /\ EndsAreLast'
  BY <1>1, <1>2, <1>6, <1>7, MessageDone
<1>9. RootIsLast'
  <2>1. Silent(sess.run)' = Silent(sess.run) /\ retried' = retried
    BY <1>1, <1>6 DEF Silent, consumerRest
  <2>2. 0 \in 0..Depth /\ \A n \in Namespaces : n \in 0..Depth /\ n > 0
    BY EventAssumption DEF Namespaces
  <2>3. \A n \in 0..Depth : sess'.ns[n] = IF n = c[1] THEN c[2] ELSE sess.ns[n]
    BY <1>2, <1>4, <1>6 DEF Session
  <2>4. ASSUME sess.run \notin retried, c = <<0, "completed">>
        PROVE  Silent(sess.run) /\ \A n \in Namespaces : sess'.ns[n] # "started"
    <3>1. Silent(sess.run) /\ \A n \in Namespaces : sess.ns[n] = "started" => <<n, "completed">> \in con.todo
      BY <1>1, <1>2, <1>3, <2>4 DEF RootIsLast
    <3>2. ASSUME NEW n \in Namespaces PROVE sess'.ns[n] # "started"
      <4>1. <<n, "completed">> \notin con.todo
        <5>1. ASSUME <<n, "completed">> \in con.todo PROVE n <= c[1]
          BY <1>3, <5>1
        <5> QED BY <2>2, <2>4, <5>1
      <4> QED BY <1>4, <2>2, <2>3, <3>1, <4>1
    <3> QED BY <3>1, <3>2
  <2>5. ASSUME sess.run \notin retried, sess'.ns[0] = "completed"
        PROVE  sess.run \in StreamedRuns /\ Silent(sess.run) /\ \A n \in Namespaces : sess'.ns[n] # "started"
    <3>1. sess.run \in StreamedRuns
      BY <1>2, EventAssumption DEF Session, Bound, NoRun, StreamedRuns
    <3>2. CASE c = <<0, "completed">>
      BY <2>4, <2>5, <3>1, <3>2
    <3>3. CASE c # <<0, "completed">>
      <4>1. sess.ns[0] = "completed"
        BY <1>4, <2>2, <2>3, <2>5, <3>3
      <4>2. Silent(sess.run) /\ \A n \in Namespaces : sess.ns[n] # "started"
        BY <1>2, <2>5, <4>1 DEF RootIsLast
      <4> QED BY <1>4, <2>2, <2>3, <3>1, <4>2
    <3> QED BY <3>2, <3>3
  <2>6. ASSUME sess.run \notin retried, con'.pc = "push", <<0, "completed">> \in con'.todo
        PROVE  Silent(sess.run) /\ \A n \in Namespaces : sess'.ns[n] = "started" => <<n, "completed">> \in con'.todo
    <3>1. con'.todo = con.todo \ {c}
      BY <1>7, <2>6
    <3>2. Silent(sess.run) /\ \A n \in Namespaces : sess.ns[n] = "started" => <<n, "completed">> \in con.todo
      BY <1>1, <1>2, <2>6, <3>1 DEF RootIsLast
    <3>3. ASSUME NEW n \in Namespaces, sess'.ns[n] = "started" PROVE <<n, "completed">> \in con'.todo
      <4>1. n # c[1] /\ sess.ns[n] = "started"
        BY <1>4, <2>2, <2>3, <3>3
      <4> QED BY <3>1, <3>2, <4>1
    <3> QED BY <3>2, <3>3
  <2>7. con'.pc # "handle"
    BY <1>7
  <2> QED BY <1>6, <2>1, <2>5, <2>6, <2>7 DEF RootIsLast
<1> QED BY <1>6, <1>8, <1>9 DEF EventInv

\* Every subscription the client has is live in the session that is bound next.
LEMMA NewSessionIs ==
  ASSUME EventInv, NEW r \in StreamedRuns
  PROVE  LET x == NewSession(r) IN
         /\ x \in Session /\ x.run = r /\ x.seq = sess.seq /\ x.buf = <<>> /\ x.ns[0] = "none"
         /\ \A s \in Subs : x.subs[s] = (IF s \in want THEN "active" ELSE "none")
<1> DEFINE subs == [s \in Subs |-> IF s \in pend \/ sess.subs[s] # "none" THEN "active" ELSE "none"]
<1>1. sess \in Session /\ Subscribed
  BY DEF EventInv, SessionTypes
<1>2. r \in 0..NStreamed /\ sess.seq \in Nat /\ <<>> \in Seq(SentEvent) /\ 0 \in 0..Depth
  BY <1>1, EventAssumption DEF StreamedRuns, Session
<1>3. NewSession(r) = [NoSession EXCEPT !.run = r, !.seq = sess.seq, !.subs = subs]
  BY DEF NewSession
<1>4. subs \in [Subs -> {"none", "replaying", "active"}]
  OBVIOUS
<1>5. \A s \in Subs : subs[s] = (IF s \in want THEN "active" ELSE "none")
  BY <1>1 DEF Subscribed
<1> HIDE DEF subs
<1>6. NoSession \in Session /\ NoSession.buf = <<>> /\ NoSession.ns[0] = "none"
  <2>1. 0 \in 0..NStreamed
    BY EventAssumption
  <2> QED BY <1>2, <2>1 DEF NoSession, Session, NoRun
<1> QED BY <1>2, <1>3, <1>4, <1>5, <1>6 DEF Session

\* A session is bound to the run of the message; a replay under way keeps what it has to send.
LEMMA BoundKeeps ==
  ASSUME EventInv, con.pc = "fetch", con' = [con EXCEPT !.pc = "handle"], pend' = {}, com' = ReplayOfOld,
         EmitLifecycle(NewSession(con.msg.run), 0, "running"), UNCHANGED <<consumerRest, tape>>
  PROVE  EventInv' /\ last' >= last
<1> DEFINE r == con.msg.run
           x == NewSession(r)
           y == [x EXCEPT !.ns[0] = "running"]
           id == <<r, 0, "running", 0>>
           e == [seq |-> y.seq + 1, kind |-> "running", id |-> id]
           b == Append(y.buf, e)
           hit == \E s \in Subs : y.subs[s] = "active" /\ Matches(s, e)
<1>1. WorldTypes /\ SessionTypes /\ Handled /\ Numbered /\ Subscribed /\ EndsAreLast /\ sess \in Session
      /\ sess.seq \in Nat /\ sess.buf \in Seq(SentEvent) /\ last \in Nat /\ con.msg \in Note
  BY DEF EventInv, SessionTypes, Handled, Session
<1>2. r \in StreamedRuns /\ r \in 0..NStreamed /\ r # 0 /\ 0 \in 0..Depth /\ 0 <= MaxBuffer
  BY <1>1, EventAssumption DEF Note, StreamedRuns
<1>3. /\ x \in Session /\ x.run = r /\ x.seq = sess.seq /\ x.buf = <<>> /\ x.ns[0] = "none"
      /\ \A s \in Subs : x.subs[s] = (IF s \in want THEN "active" ELSE "none")
  BY <1>2, NewSessionIs
<1>4. Push(y, "running", id) /\ told' = told
  <2>1. 0 = 0 /\ "running" \notin Terminal /\ x.ns[0] # "running"
    BY <1>3 DEF Terminal
  <2>2. EmitLifecycle(x, 0, "running")
    OBVIOUS
  <2> HIDE DEF x
  <2> QED BY <1>3, <2>1, <2>2 DEF EmitLifecycle
<1> HIDE DEF x, r
<1>5. /\ y \in Session /\ y.run = r /\ y.seq = sess.seq /\ y.buf = <<>> /\ y.ns[0] = "running"
      /\ \A s \in Subs : y.subs[s] = (IF s \in want THEN "active" ELSE "none")
  BY <1>2, <1>3 DEF Session, Status
<1> HIDE DEF y
<1>6. e \in SentEvent /\ e.seq = sess.seq + 1 /\ e.id = id /\ id \in EventId /\ b = Append(<<>>, e)
  <2>1. id \in EventId
    BY <1>2 DEF EventId, Status
  <2> HIDE DEF id
  <2> QED BY <1>1, <1>5, <2>1 DEF SentEvent, Status
<1>7. /\ sess' = [y EXCEPT !.seq = @ + 1, !.buf = Ring(b)]
      /\ last' = IF hit THEN e.seq ELSE last
      /\ \A s \in Subs : owed'[s] = owed[s] \cup (IF s \in want /\ Matches(s, e) /\ ~ hit THEN {id} ELSE {})
      /\ DOMAIN owed' = Subs /\ owed' = [s \in Subs |-> owed'[s]]
  <2>1. \A s \in Subs : y.subs[s] # "replaying"
    BY <1>5
  <2> QED BY <1>4, <2>1 DEF Push
<1>8. \A s \in Subs : s \in want /\ Matches(s, e) => hit
  BY <1>5
<1> HIDE DEF e, b, hit, id
<1>9. owed' = owed
  <2>1. \A s \in Subs : owed'[s] = owed[s]
    BY <1>7, <1>8
  <2>2. owed \in [Subs -> SUBSET EventId]
    BY <1>1 DEF SessionTypes
  <2> QED BY <1>7, <2>1, <2>2
<1>10. Ring(b) \in Seq(SentEvent) /\ Len(Ring(b)) <= MaxBuffer /\ \A j \in 1..Len(Ring(b)) : Ring(b)[j] = e
  <2>1. <<>> \in Seq(SentEvent) /\ Len(<<>>) = 0
    OBVIOUS
  <2>2. RingHas(b, <<>>, e)
    BY <1>2, <1>6, <2>1, RingKeeps
  <2> QED BY <2>1, <2>2 DEF RingHas
<1>11. /\ sess' \in Session /\ sess'.run = r /\ sess'.seq = sess.seq + 1 /\ sess'.buf = Ring(b)
       /\ sess'.ns[0] = "running" /\ \A s \in Subs : sess'.subs[s] = (IF s \in want THEN "active" ELSE "none")
  <2>1. sess.seq + 1 \in Nat
    BY <1>1
  <2>2. sess' = [y EXCEPT !.seq = sess.seq + 1, !.buf = Ring(b)]
    BY <1>5, <1>7
  <2> QED BY <1>5, <1>10, <2>1, <2>2 DEF Session
<1>12. last' \in Nat /\ last' >= last /\ last' <= sess'.seq
  BY <1>1, <1>6, <1>7, <1>11 DEF Numbered
<1>13. /\ Drain(com.sub, Horizon) \subseteq SentEvent
       /\ \A d \in Drain(com.sub, Horizon) : d.seq <= sess.seq
  BY <1>1 DEF Drain, Numbered
<1>14. /\ com' \in [pc : {"idle", "replay", "respond"}, sub : Subs \cup {"none"}, since : Nat, drain : SUBSET SentEvent,
                    old : BOOLEAN]
       /\ com'.pc = com.pc /\ com'.sub = com.sub /\ com'.since = com.since
       /\ com.pc = "replay" => com'.old = TRUE
       /\ com.pc = "replay" => com'.drain = IF com.old THEN com.drain ELSE com.drain \cup Drain(com.sub, Horizon)
  <2>1. com \in [pc : {"idle", "replay", "respond"}, sub : Subs \cup {"none"}, since : Nat, drain : SUBSET SentEvent,
                 old : BOOLEAN]
    BY <1>1 DEF SessionTypes
  <2>2. CASE com.pc # "replay" \/ com.old
    BY <2>1, <2>2 DEF ReplayOfOld
  <2>3. CASE ~ (com.pc # "replay" \/ com.old)
    <3> DEFINE D == com.drain \cup Drain(com.sub, Horizon)
    <3>1. com' = [com EXCEPT !.old = TRUE, !.drain = D] /\ D \subseteq SentEvent
      BY <1>13, <2>1, <2>3 DEF ReplayOfOld
    <3> HIDE DEF D
    <3>2. com'.drain = D /\ com'.old = TRUE /\ com'.pc = com.pc /\ com'.sub = com.sub /\ com'.since = com.since
      BY <2>1, <3>1
    <3>3. com' \in [pc : {"idle", "replay", "respond"}, sub : Subs \cup {"none"}, since : Nat, drain : SUBSET SentEvent,
                    old : BOOLEAN]
      BY <2>1, <3>1
    <3> QED BY <2>3, <3>2, <3>3 DEF D
  <2> QED BY <2>2, <2>3
<1>15. want' = want /\ runs' = runs /\ retried' = retried /\ due' = due /\ kinds' = kinds /\ conn' = conn
  BY DEF consumerRest
<1>16. Note' = Note
  BY <1>15 DEF Note
<1>17. con' \in [pc : {"wait", "fetch", "handle", "push", "over"}, msg : Note \cup {NoMessage},
                 todo : SUBSET ((0..Depth) \X Terminal)]
       /\ con'.pc = "handle" /\ con'.msg = con.msg
  BY <1>1 DEF WorldTypes
<1>18. WorldTypes'
  BY <1>1, <1>4, <1>15, <1>16, <1>17 DEF WorldTypes
<1>19. SessionTypes'
  BY <1>1, <1>9, <1>10, <1>11, <1>12, <1>14, <1>15 DEF SessionTypes
<1>20. Handled'
  BY <1>1, <1>11, <1>16, <1>17 DEF Handled, r
<1>21. Numbered'
  <2>1. \A i \in 1..Len(sess'.buf) : sess'.buf[i].seq <= sess'.seq
    BY <1>1, <1>6, <1>10, <1>11
  <2>2. ASSUME com'.pc = "replay" PROVE com'.since <= sess'.seq /\ \A d \in com'.drain : d.seq <= sess'.seq
    <3>1. com.since \in Nat /\ com.since <= sess.seq /\ \A d \in com.drain : d \in SentEvent /\ d.seq <= sess.seq
      BY <1>1, <1>14, <2>2 DEF SessionTypes, Numbered
    <3>2. \A d \in com'.drain : d \in SentEvent /\ d.seq <= sess.seq
      BY <1>13, <1>14, <2>2, <3>1
    <3>3. \A d \in SentEvent : d.seq \in Nat
      BY DEF SentEvent
    <3> QED BY <1>1, <1>11, <1>14, <3>1, <3>2, <3>3
  <2> QED BY <1>12, <2>1, <2>2 DEF Numbered
<1>22. Subscribed'
  <2>1. Bound' /\ want' = {s \in Subs : sess'.subs[s] # "none"}
    BY <1>1, <1>2, <1>11, <1>15 DEF Bound, NoRun, SessionTypes
  <2>2. ASSUME com'.pc = "replay" PROVE com'.sub \in Subs /\ owed'[com'.sub] \subseteq Ids(com'.drain)
    <3>1. com.sub \in Subs /\ owed[com.sub] \subseteq Ids(com.drain) \cup StillToTake
      BY <1>1, <1>14, <2>2 DEF Subscribed
    <3>2. Ids(com.drain) \cup StillToTake \subseteq Ids(com'.drain)
      BY <1>14, <2>2 DEF StillToTake, Ids
    <3> QED BY <1>9, <1>14, <3>1, <3>2
  <2>3. \A s \in Subs : /\ sess'.subs[s] # "replaying" /\ ~ (com'.pc = "replay" /\ com'.sub = s /\ ~ com'.old)
                        /\ owed'[s] # {} => com'.pc = "replay" /\ com'.sub = s
    BY <1>1, <1>9, <1>11, <1>14 DEF Subscribed
  <2> QED BY <2>1, <2>2, <2>3 DEF Subscribed, Ids
<1>23. EndsAreLast'
  BY <1>1, <1>15, <1>17 DEF EndsAreLast, Silent
<1>24. RootIsLast'
  BY <1>11, <1>17 DEF RootIsLast
<1> QED BY <1>12, <1>18, <1>19, <1>20, <1>21, <1>22, <1>23, <1>24 DEF EventInv

\* A message of another run: its session is bound, or it is gone.
LEMMA BindRunKeeps ==
  ASSUME EventInv, BindRun
  PROVE  EventInv' /\ last' >= last
<1>1. UNCHANGED <<consumerRest, tape>> /\ con.pc = "fetch"
  BY DEF BindRun
<1>2. CASE runs[con.msg.run] = "gone"
  <2>1. con' = Waiting /\ UNCHANGED <<sess, pend, com, last, owed, told>>
    BY <1>2 DEF BindRun
  <2>2. WorldTypes /\ RootIsLast /\ sess \in Session /\ want' = want
    BY <1>1 DEF EventInv, SessionTypes, consumerRest
  <2>3. SessionTypes' /\ Numbered' /\ Subscribed' /\ last' >= last
    BY <2>1, <2>2, SessionKeeps
  <2>4. con'.pc = "wait"
        /\ con' \in [pc : {"wait", "push", "over"}, msg : Note \cup {NoMessage}, todo : SUBSET ((0..Depth) \X Terminal)]
    BY <2>1 DEF Waiting
  <2>5. WorldTypes' /\ Handled' /\ EndsAreLast'
    BY <1>1, <2>1, <2>2, <2>4, MessageDone DEF WorldTypes
  <2>6. RootIsLast'
    BY <1>1, <2>1, <2>2, <2>4 DEF RootIsLast, Silent, consumerRest
  <2> QED BY <2>3, <2>5, <2>6 DEF EventInv
<1>3. CASE runs[con.msg.run] # "gone"
  BY <1>1, <1>3, BoundKeeps DEF BindRun
<1> QED BY <1>2, <1>3

\* A command leaves the stream and the consumer alone; it may make a run.
LEMMA CommandApart ==
  ASSUME EventInv, UNCHANGED <<kinds, retried, due, tape, con, conn, told>>, sess'.run = sess.run, sess'.ns = sess.ns,
         runs' = runs \/ \E r \in StreamedRuns : runs[r] = "none" /\ runs' = [runs EXCEPT ![r] = "pending"]
  PROVE  WorldTypes' /\ Handled' /\ EndsAreLast' /\ RootIsLast'
<1>1. WorldTypes /\ Handled /\ EndsAreLast
  BY DEF EventInv
<1>2. Note' = Note
  BY DEF Note
<1>3. runs' \in [StreamedRuns -> {"none", "pending", "running", "success", "error", "gone"}]
      /\ \A q \in StreamedRuns : runs'[q] = runs[q] \/ runs[q] = "none"
  BY <1>1 DEF WorldTypes
<1>4. WorldTypes'
  BY <1>1, <1>2, <1>3 DEF WorldTypes
<1>5. Handled'
  BY <1>1, <1>2 DEF Handled, Bound
<1>6. \A q \in StreamedRuns : runs[q] \in {"success", "error", "gone"} /\ q \notin due =>
         runs'[q] \in {"success", "error", "gone"} /\ q \notin due'
  BY <1>3
<1>7. \A q \in due' : q \notin retried' => runs'[q] \in {"success", "error", "gone"}
  BY <1>1, <1>3 DEF EndsAreLast, WorldTypes
<1>8. EndsAreLast' /\ RootIsLast'
  BY <1>6, <1>7, RunsMove
<1> QED BY <1>4, <1>5, <1>8

\* No replay is under way, and none begins.
LEMMA NoReplay ==
  ASSUME EventInv, com.pc # "replay", com'.pc # "replay", sess' \in Session, sess'.run = sess.run, sess'.seq = sess.seq,
         sess'.buf = sess.buf, sess'.subs = sess.subs, UNCHANGED <<pend, want, owed, last>>,
         com' \in [pc : {"idle", "replay", "respond"}, sub : Subs \cup {"none"}, since : Nat, drain : SUBSET SentEvent,
                   old : BOOLEAN]
  PROVE  SessionTypes' /\ Numbered' /\ Subscribed'
<1>1. SessionTypes /\ Numbered /\ Subscribed
  BY DEF EventInv
<1>2. SessionTypes'
  BY <1>1 DEF SessionTypes
<1>3. Numbered'
  BY <1>1 DEF Numbered
<1>4. Subscribed'
  BY <1>1 DEF Subscribed, Bound
<1> QED BY <1>2, <1>3, <1>4

\* Commands that make a run, or nothing, and the response body.
LEMMA PlainCommandsKeep ==
  ASSUME EventInv,
         \/ \E r \in StreamedRuns : StartRunCommand(r) \/ Respond(r)
         \/ \E n \in 0..1 : RefuseReconnect(n)
         \/ ClearInterrupt \/ DrainBody
  PROVE  EventInv' /\ last' >= last
<1>1. SessionTypes /\ sess \in Session /\ last \in Nat
      /\ com \in [pc : {"idle", "replay", "respond"}, sub : Subs \cup {"none"}, since : Nat, drain : SUBSET SentEvent,
                  old : BOOLEAN]
  BY DEF EventInv, SessionTypes
<1>2. CASE \/ \E r \in StreamedRuns : StartRunCommand(r)
           \/ \E n \in 0..1 : RefuseReconnect(n)
           \/ DrainBody
  <2>1. /\ UNCHANGED <<kinds, retried, due, tape, con, conn, told, sess, pend, com, want, owed, last>>
        /\ runs' = runs \/ \E r \in StreamedRuns : runs[r] = "none" /\ runs' = [runs EXCEPT ![r] = "pending"]
    BY <1>2 DEF StartRunCommand, RefuseReconnect, DrainBody, commandRest
  <2> QED BY <1>1, <2>1, CommandApart, SessionKeeps DEF EventInv
<1>3. ASSUME NEW r \in StreamedRuns, Respond(r) PROVE EventInv' /\ last' >= last
  <2>1. /\ UNCHANGED <<kinds, retried, due, tape, con, conn, told, sess, pend, want, owed, last>>
        /\ runs[r] = "none" /\ runs' = [runs EXCEPT ![r] = "pending"]
        /\ com.pc = "idle" /\ com' = [com EXCEPT !.pc = "respond"]
    BY <1>3 DEF Respond, commandRest, Command
  <2>2. com'.pc = "respond"
        /\ com' \in [pc : {"idle", "replay", "respond"}, sub : Subs \cup {"none"}, since : Nat, drain : SUBSET SentEvent,
                     old : BOOLEAN]
    BY <1>1, <2>1
  <2>3. SessionTypes' /\ Numbered' /\ Subscribed'
    BY <1>1, <2>1, <2>2, NoReplay
  <2>4. WorldTypes' /\ Handled' /\ EndsAreLast' /\ RootIsLast'
    BY <2>1, CommandApart
  <2> QED BY <1>1, <2>1, <2>3, <2>4 DEF EventInv
<1>4. CASE ClearInterrupt
  <2>1. /\ UNCHANGED <<kinds, retried, due, tape, con, conn, told, runs, pend, want, owed, last>>
        /\ com.pc = "respond" /\ com' = Idle /\ sess' = [sess EXCEPT !.asked = FALSE]
    BY <1>4 DEF ClearInterrupt, commandRest
  <2>2. com'.pc = "idle"
        /\ com' \in [pc : {"idle", "replay", "respond"}, sub : Subs \cup {"none"}, since : Nat, drain : SUBSET SentEvent,
                     old : BOOLEAN]
    BY <2>1 DEF Idle
  <2>3. sess' \in Session /\ sess'.run = sess.run /\ sess'.seq = sess.seq /\ sess'.buf = sess.buf /\ sess'.subs = sess.subs
        /\ sess'.ns = sess.ns
    BY <1>1, <2>1 DEF Session
  <2> QED BY <1>1, <2>1, <2>2, <2>3, CommandApart, NoReplay DEF EventInv
<1> QED BY <1>2, <1>3, <1>4

\* A client subscribes before there is a session, or gives a subscription up.
LEMMA SubscriptionsKeep ==
  ASSUME EventInv, NEW s \in Subs, BufferSubscribe(s) \/ Unsubscribe(s)
  PROVE  EventInv' /\ last' >= last
<1>1. SessionTypes /\ Numbered /\ Subscribed /\ sess \in Session /\ last \in Nat
  BY DEF EventInv, SessionTypes
<1>2. /\ UNCHANGED <<kinds, retried, due, tape, con, conn, told, runs, com, last>> /\ com.pc = "idle"
      /\ pend' \subseteq pend \cup {s} /\ want' \subseteq want \cup {s}
  BY DEF BufferSubscribe, Unsubscribe, commandRest, Command
<1>3. \A q \in Subs : owed[q] = {} /\ sess.subs[q] # "replaying"
  BY <1>1, <1>2 DEF Subscribed
<1>4. /\ sess' \in Session /\ sess'.run = sess.run /\ sess'.seq = sess.seq /\ sess'.buf = sess.buf /\ sess'.ns = sess.ns
      /\ \A q \in Subs : sess'.subs[q] # "replaying"
      /\ Bound => pend' = {} /\ want' = {q \in Subs : sess'.subs[q] # "none"}
      /\ ~ Bound => want' = pend' /\ \A q \in Subs : sess'.subs[q] = "none"
  <2>1. CASE ~ Bound
    <3>1. sess' = sess /\ want' = pend'
      BY <1>1, <2>1 DEF BufferSubscribe, Unsubscribe, Subscribed
    <3> QED BY <1>1, <1>3, <2>1, <3>1 DEF Subscribed
  <2>2. CASE Bound
    <3>1. sess' = [sess EXCEPT !.subs[s] = "none"] /\ pend' = pend /\ want' = want \ {s}
      BY <2>2 DEF BufferSubscribe, Unsubscribe
    <3>2. /\ sess' \in Session /\ sess'.run = sess.run /\ sess'.seq = sess.seq /\ sess'.buf = sess.buf
          /\ sess'.ns = sess.ns /\ \A q \in Subs : sess'.subs[q] = IF q = s THEN "none" ELSE sess.subs[q]
      BY <1>1, <3>1 DEF Session
    <3> QED BY <1>1, <1>3, <2>2, <3>1, <3>2 DEF Subscribed
  <2> QED BY <2>1, <2>2
<1>5. owed' \in [Subs -> SUBSET EventId] /\ \A q \in Subs : owed'[q] = {}
  <2>1. owed' = owed \/ owed' = [owed EXCEPT ![s] = {}]
    BY DEF BufferSubscribe, Unsubscribe
  <2>2. owed \in [Subs -> SUBSET EventId]
    BY <1>1 DEF SessionTypes
  <2> QED BY <1>3, <2>1, <2>2
<1>6. SessionTypes'
  BY <1>1, <1>2, <1>4, <1>5 DEF SessionTypes
<1>7. Numbered'
  BY <1>1, <1>2, <1>4 DEF Numbered
<1>8. Subscribed'
  BY <1>1, <1>2, <1>4, <1>5 DEF Subscribed, Bound
<1>9. WorldTypes' /\ Handled' /\ EndsAreLast' /\ RootIsLast'
  BY <1>2, <1>4, CommandApart
<1> QED BY <1>1, <1>2, <1>6, <1>7, <1>8, <1>9 DEF EventInv

\* A subscription is installed: live, or inactive until the buffer is sent.
LEMMA InstallKeeps ==
  ASSUME EventInv, NEW s \in Subs, NEW n \in 0..1, Command, Bound, sess.subs[s] = "none", Install(s, n),
         UNCHANGED <<commandRest, runs, pend, last>>
  PROVE  EventInv' /\ last' >= last
<1> DEFINE drain == Drain(s, n)
<1>1. SessionTypes /\ Numbered /\ Subscribed /\ sess \in Session /\ last \in Nat /\ sess.seq \in Nat
      /\ sess.buf \in Seq(SentEvent) /\ com.pc = "idle" /\ n \in Nat
      /\ com \in [pc : {"idle", "replay", "respond"}, sub : Subs \cup {"none"}, since : Nat, drain : SUBSET SentEvent,
                  old : BOOLEAN]
  BY DEF EventInv, SessionTypes, Session, Command
<1>2. \A q \in Subs : owed[q] = {} /\ sess.subs[q] # "replaying"
  BY <1>1 DEF Subscribed
<1>3. drain \subseteq SentEvent /\ (\A e \in drain : n < e.seq /\ e.seq <= sess.seq) /\ Ids(drain) \subseteq EventId
  <2>1. drain \subseteq SentEvent /\ (\A e \in drain : n < e.seq /\ e.seq <= sess.seq)
    BY <1>1 DEF Drain, Numbered
  <2> HIDE DEF drain
  <2> QED BY <2>1 DEF Ids, SentEvent
<1>4. /\ owed' = [owed EXCEPT ![s] = Ids(drain)] /\ want' = want \cup {s}
      /\ \/ drain = {} /\ sess' = [sess EXCEPT !.subs[s] = "active"] /\ com' = com
         \/ /\ drain # {} /\ sess' = [sess EXCEPT !.subs[s] = "replaying"]
            /\ com' = [pc |-> "replay", sub |-> s, since |-> n, drain |-> drain, old |-> FALSE]
  BY DEF Install
<1> HIDE DEF drain
<1>5. PICK st \in {"active", "replaying"} : sess' = [sess EXCEPT !.subs[s] = st] /\ (st = "active" <=> drain = {})
  BY <1>4
<1>6. /\ sess' \in Session /\ sess'.run = sess.run /\ sess'.seq = sess.seq /\ sess'.buf = sess.buf /\ sess'.ns = sess.ns
      /\ \A q \in Subs : sess'.subs[q] = IF q = s THEN st ELSE sess.subs[q]
  BY <1>1, <1>5 DEF Session
<1>7. owed' \in [Subs -> SUBSET EventId] /\ \A q \in Subs : owed'[q] = IF q = s THEN Ids(drain) ELSE {}
  BY <1>1, <1>2, <1>3, <1>4 DEF SessionTypes
<1>8. /\ com' \in [pc : {"idle", "replay", "respond"}, sub : Subs \cup {"none"}, since : Nat, drain : SUBSET SentEvent,
                   old : BOOLEAN]
      /\ com'.pc = "replay" <=> st = "replaying"
      /\ com'.pc = "replay" => com'.sub = s /\ com'.since = n /\ com'.drain = drain /\ com'.old = FALSE
  <2>1. CASE drain = {}
    BY <1>1, <1>4, <1>5, <2>1
  <2>2. CASE drain # {}
    <3>1. com' = [pc |-> "replay", sub |-> s, since |-> n, drain |-> drain, old |-> FALSE] /\ st = "replaying"
      BY <1>4, <1>5, <2>2
    <3> QED BY <1>1, <1>3, <3>1
  <2> QED BY <2>1, <2>2
<1>9. want' \subseteq Subs /\ last' = last /\ pend' = pend
  BY <1>1, <1>4 DEF SessionTypes
<1>10. SessionTypes'
  BY <1>1, <1>6, <1>7, <1>8, <1>9 DEF SessionTypes
<1>11. Numbered'
  <2>1. com'.pc = "replay" => com'.since <= sess.seq /\ \A e \in com'.drain : e.seq <= sess.seq
    <3> SUFFICES ASSUME com'.pc = "replay" PROVE com'.since <= sess.seq /\ \A e \in com'.drain : e.seq <= sess.seq
      OBVIOUS
    <3>1. PICK e \in drain : TRUE
      BY <1>5, <1>8
    <3>2. e.seq \in Nat /\ n < e.seq /\ e.seq <= sess.seq
      BY <1>3, <3>1 DEF SentEvent
    <3> QED BY <1>1, <1>3, <1>8, <3>2
  <2> QED BY <1>1, <1>6, <1>9, <2>1 DEF Numbered
<1>12. Subscribed'
  <2>1. Bound' /\ pend' = {} /\ want' = {q \in Subs : sess'.subs[q] # "none"}
    BY <1>1, <1>4, <1>5, <1>6, <1>9 DEF Bound, Subscribed
  <2>2. com'.pc = "replay" => com'.sub \in Subs /\ owed'[com'.sub] \subseteq Ids(com'.drain)
    BY <1>7, <1>8
  <2>3. \A q \in Subs : sess'.subs[q] = "replaying" <=> (com'.pc = "replay" /\ com'.sub = q /\ ~ com'.old)
    BY <1>2, <1>5, <1>6, <1>8
  <2>4. \A q \in Subs : owed'[q] # {} => com'.pc = "replay" /\ com'.sub = q
    BY <1>5, <1>7, <1>8 DEF Ids
  <2> QED BY <2>1, <2>2, <2>3, <2>4 DEF Subscribed, Ids
<1>13. WorldTypes' /\ Handled' /\ EndsAreLast' /\ RootIsLast'
  BY <1>6, CommandApart DEF commandRest
<1> QED BY <1>1, <1>9, <1>10, <1>11, <1>12, <1>13 DEF EventInv

\* The replay sends the oldest event it has.
LEMMA ReplaySendKeeps ==
  ASSUME EventInv, ReplaySend
  PROVE  EventInv' /\ last' >= last
<1> DEFINE e == NextToReplay
<1>1. SessionTypes /\ Numbered /\ Subscribed /\ sess \in Session /\ last \in Nat /\ sess.seq \in Nat
      /\ com \in [pc : {"idle", "replay", "respond"}, sub : Subs \cup {"none"}, since : Nat, drain : SUBSET SentEvent,
                  old : BOOLEAN]
  BY DEF EventInv, SessionTypes, Session
<1>2. /\ UNCHANGED <<kinds, retried, due, tape, con, conn, told, runs, sess, pend, want, last>>
      /\ com.pc = "replay" /\ com.drain # {}
      /\ owed' = [s \in Subs |-> owed[s] \ {e.id}]
      /\ com' = [com EXCEPT !.since = e.seq, !.drain = @ \ {e}]
  BY DEF ReplaySend, commandRest
<1>3. e \in com.drain /\ e \in SentEvent /\ e.seq \in Nat /\ e.seq <= sess.seq
  BY <1>1, <1>2, NextIs DEF Numbered, SentEvent
<1> HIDE DEF e
<1>4. /\ com' \in [pc : {"idle", "replay", "respond"}, sub : Subs \cup {"none"}, since : Nat, drain : SUBSET SentEvent,
                   old : BOOLEAN]
      /\ com'.pc = "replay" /\ com'.sub = com.sub /\ com'.since = e.seq /\ com'.drain = com.drain \ {e}
      /\ com'.old = com.old
  <2>1. com.drain \ {e} \in SUBSET SentEvent
    BY <1>1
  <2> QED BY <1>1, <1>2, <1>3, <2>1
<1>5. owed' \in [Subs -> SUBSET EventId] /\ \A s \in Subs : owed'[s] = owed[s] \ {e.id}
  BY <1>1, <1>2 DEF SessionTypes
<1>6. SessionTypes'
  BY <1>1, <1>2, <1>4, <1>5 DEF SessionTypes
<1>7. Numbered'
  BY <1>1, <1>2, <1>3, <1>4 DEF Numbered
<1>8. StillToTake \subseteq StillToTake'
  <2> DEFINE T == {com.since} \cup {d.seq : d \in com.drain}
             U == {e.seq} \cup {d.seq : d \in com.drain \ {e}}
  <2>1. com.since \in 0..sess.seq /\ \A d \in com.drain : d.seq \in 0..sess.seq
    BY <1>1, <1>2 DEF Numbered, SentEvent
  <2>2. Horizon \in T /\ \A k \in T : k <= Horizon
    BY <1>1, <2>1, HorizonIs
  <2>3. U \subseteq T /\ U # {} /\ U \in SUBSET (0..sess.seq) /\ T \in SUBSET (0..sess.seq)
    BY <1>3, <2>1
  <2>4. Horizon' = CHOOSE n \in U : \A k \in U : k <= n
    BY <1>4 DEF Horizon
  <2> HIDE DEF T, U
  <2>5. Horizon' \in U
    BY <1>1, <2>3, <2>4, MaxIs
  <2>6. Horizon' <= Horizon /\ Horizon \in Nat /\ Horizon' \in Nat
    <3>1. Horizon \in 0..sess.seq /\ Horizon' \in 0..sess.seq /\ Horizon' <= Horizon
      BY <2>2, <2>3, <2>5
    <3> QED BY <1>1, <3>1
  <2>7. Drain(com.sub, Horizon) \subseteq Drain(com.sub, Horizon)'
    <3> SUFFICES ASSUME NEW d \in Drain(com.sub, Horizon) PROVE d \in Drain(com.sub, Horizon)'
      OBVIOUS
    <3>1. d \in {sess.buf[i] : i \in DOMAIN sess.buf} /\ Horizon < d.seq /\ Matches(com.sub, d)
      BY DEF Drain
    <3>2. d.seq \in Nat
      <4>1. d \in SentEvent
        BY <1>1, <3>1 DEF Session
      <4> QED BY <4>1 DEF SentEvent
    <3>3. Horizon' < d.seq
      BY <2>6, <3>1, <3>2
    <3> QED BY <1>2, <1>4, <3>1, <3>3 DEF Drain
  <2> QED BY <1>4, <2>7 DEF StillToTake, Ids
<1>9. Subscribed'
  <2>1. com.sub \in Subs /\ owed[com.sub] \subseteq Ids(com.drain) \cup StillToTake
    BY <1>1, <1>2 DEF Subscribed
  <2>2. Ids(com.drain) \ {e.id} \subseteq Ids(com.drain \ {e})
    BY DEF Ids
  <2>3. owed'[com'.sub] \subseteq Ids(com'.drain) \cup StillToTake'
    BY <1>4, <1>5, <1>8, <2>1, <2>2
  <2> QED BY <1>1, <1>2, <1>4, <1>5, <2>1, <2>3 DEF Subscribed, Bound, Ids
<1>10. WorldTypes' /\ Handled' /\ EndsAreLast' /\ RootIsLast'
  BY <1>2, CommandApart
<1> QED BY <1>1, <1>2, <1>6, <1>7, <1>9, <1>10 DEF EventInv

\* The replay goes on with what came meanwhile, or its subscription is live.
LEMMA ReplayEndKeeps ==
  ASSUME EventInv, ReplayEnd
  PROVE  EventInv' /\ last' >= last
<1> DEFINE drain == Drain(com.sub, com.since)
<1>1. SessionTypes /\ Numbered /\ Subscribed /\ sess \in Session /\ last \in Nat /\ sess.seq \in Nat
      /\ sess.buf \in Seq(SentEvent)
      /\ com \in [pc : {"idle", "replay", "respond"}, sub : Subs \cup {"none"}, since : Nat, drain : SUBSET SentEvent,
                  old : BOOLEAN]
  BY DEF EventInv, SessionTypes, Session
<1>2. /\ UNCHANGED <<kinds, retried, due, tape, con, conn, told, runs, pend, want, last, owed>>
      /\ com.pc = "replay" /\ com.drain = {}
      /\ IF ~ com.old /\ drain # {}
         THEN com' = [com EXCEPT !.drain = drain] /\ sess' = sess
         ELSE /\ com' = Idle
              /\ sess' = IF com.old THEN sess ELSE [sess EXCEPT !.subs[com.sub] = "active"]
  BY DEF ReplayEnd, commandRest
<1>3. Horizon = com.since
  <2>1. {e.seq : e \in com.drain} = {}
    BY <1>2
  <2>2. com.since <= com.since
    BY <1>1
  <2> QED BY <2>1, <2>2 DEF Horizon
<1>4. com.sub \in Subs /\ owed[com.sub] \subseteq (IF com.old THEN {} ELSE Ids(drain))
  <2>1. Ids(com.drain) = {}
    BY <1>2 DEF Ids
  <2> QED BY <1>1, <1>2, <1>3, <2>1 DEF Subscribed, StillToTake
<1>5. drain \subseteq SentEvent /\ \A e \in drain : e.seq <= sess.seq
  BY <1>1 DEF Drain, Numbered
<1>6. /\ Ids({}) = {}
      /\ \A s \in Subs : /\ sess.subs[s] = "replaying" <=> (com.sub = s /\ ~ com.old)
                         /\ owed[s] # {} => com.sub = s
  BY <1>1, <1>2 DEF Subscribed, Ids
<1> HIDE DEF drain
<1>7. CASE ~ com.old /\ drain # {}
  <2>1. com' = [com EXCEPT !.drain = drain] /\ sess' = sess
    BY <1>2, <1>7
  <2>2. /\ com' \in [pc : {"idle", "replay", "respond"}, sub : Subs \cup {"none"}, since : Nat,
                     drain : SUBSET SentEvent, old : BOOLEAN]
        /\ com'.pc = "replay" /\ com'.sub = com.sub /\ com'.since = com.since /\ com'.drain = drain /\ com'.old = com.old
    BY <1>1, <1>2, <1>5, <2>1
  <2>3. SessionTypes'
    BY <1>1, <1>2, <2>1, <2>2 DEF SessionTypes
  <2>4. Numbered'
    BY <1>1, <1>2, <1>5, <2>1, <2>2 DEF Numbered
  <2>5. Subscribed'
    <3>1. com'.pc = "replay" => com'.sub \in Subs /\ owed'[com'.sub] \subseteq Ids(com'.drain)
      BY <1>2, <1>4, <1>7, <2>2
    <3>2. \A s \in Subs : /\ sess'.subs[s] = "replaying" <=> (com'.pc = "replay" /\ com'.sub = s /\ ~ com'.old)
                          /\ owed'[s] # {} => com'.pc = "replay" /\ com'.sub = s
      BY <1>2, <1>6, <2>1, <2>2
    <3>3. Bound /\ Bound' /\ pend' = {} /\ want' = {s \in Subs : sess'.subs[s] # "none"}
      BY <1>1, <1>2, <2>1 DEF Subscribed, Bound
    <3> QED BY <3>1, <3>2, <3>3 DEF Subscribed, Ids
  <2>6. WorldTypes' /\ Handled' /\ EndsAreLast' /\ RootIsLast'
    BY <1>2, <2>1, CommandApart
  <2> QED BY <1>1, <1>2, <2>3, <2>4, <2>5, <2>6 DEF EventInv
<1>8. CASE ~ (~ com.old /\ drain # {})
  <2>1. com' = Idle /\ sess' = IF com.old THEN sess ELSE [sess EXCEPT !.subs[com.sub] = "active"]
    BY <1>2, <1>8
  <2>2. com'.pc = "idle"
        /\ com' \in [pc : {"idle", "replay", "respond"}, sub : Subs \cup {"none"}, since : Nat, drain : SUBSET SentEvent,
                     old : BOOLEAN]
    BY <2>1 DEF Idle
  <2>3. /\ sess' \in Session /\ sess'.run = sess.run /\ sess'.seq = sess.seq /\ sess'.buf = sess.buf /\ sess'.ns = sess.ns
        /\ \A s \in Subs : sess'.subs[s] = IF s = com.sub /\ ~ com.old THEN "active" ELSE sess.subs[s]
    BY <1>1, <2>1 DEF Session
  <2>4. \A s \in Subs : owed[s] = {}
    BY <1>4, <1>6, <1>8
  <2>5. SessionTypes'
    BY <1>1, <1>2, <2>2, <2>3 DEF SessionTypes
  <2>6. Numbered'
    BY <1>1, <1>2, <2>2, <2>3 DEF Numbered
  <2>7. Subscribed'
    <3>1. Bound /\ Bound' /\ pend' = {} /\ want' = {s \in Subs : sess'.subs[s] # "none"}
      <4>1. Bound /\ pend = {} /\ want = {s \in Subs : sess.subs[s] # "none"}
        BY <1>1, <1>2 DEF Subscribed
      <4>2. \A s \in Subs : sess'.subs[s] # "none" <=> sess.subs[s] # "none"
        BY <1>6, <2>3
      <4> QED BY <1>2, <2>3, <4>1, <4>2 DEF Bound
    <3>2. \A s \in Subs : sess'.subs[s] # "replaying" /\ owed'[s] = {}
      BY <1>2, <1>6, <2>3, <2>4
    <3> QED BY <2>2, <3>1, <3>2 DEF Subscribed
  <2>8. WorldTypes' /\ Handled' /\ EndsAreLast' /\ RootIsLast'
    BY <1>2, <2>3, CommandApart
  <2> QED BY <1>1, <1>2, <2>5, <2>6, <2>7, <2>8 DEF EventInv
<1> QED BY <1>7, <1>8

\* What the connection had goes with it.
LEMMA ConnectionEnds ==
  ASSUME EventInv, EndConnection \/ ClientLeaves
  PROVE  EventInv' /\ conn' # "open"
<1>1. /\ UNCHANGED <<kinds, runs, retried, due, told>> /\ conn' \in {"closed", "left"}
      /\ con' = [Waiting EXCEPT !.pc = "over"] /\ sess' = NoSession /\ pend' = {} /\ com' = Idle /\ tape' = <<>>
      /\ last' = 0 /\ want' = {} /\ owed' = [s \in Subs |-> {}]
  BY DEF EndConnection, ClientLeaves, CloseManager
<1>2. WorldTypes /\ EndsAreLast
  BY DEF EventInv
<1>3. <<>> \in Seq(Note) /\ <<>> \in Seq(SentEvent) /\ Len(<<>>) = 0 /\ 0 \in 0..NStreamed /\ 0 \in 0..Depth
      /\ 0 <= MaxBuffer
  BY EventAssumption
<1>4. Note' = Note
  BY <1>1 DEF Note
<1>5. /\ con' \in [pc : {"wait", "fetch", "handle", "push", "over"}, msg : Note \cup {NoMessage},
                   todo : SUBSET ((0..Depth) \X Terminal)]
      /\ con'.pc = "over"
  BY <1>1 DEF Waiting
<1>6. WorldTypes'
  BY <1>1, <1>2, <1>3, <1>4, <1>5 DEF WorldTypes
<1>7. sess' \in Session /\ sess'.run = 0 /\ sess'.seq = 0 /\ sess'.buf = <<>> /\ sess'.ns[0] = "none"
      /\ \A s \in Subs : sess'.subs[s] = "none"
  BY <1>1, <1>3 DEF NoSession, Session, NoRun
<1>8. com'.pc = "idle"
      /\ com' \in [pc : {"idle", "replay", "respond"}, sub : Subs \cup {"none"}, since : Nat, drain : SUBSET SentEvent,
                   old : BOOLEAN]
  BY <1>1 DEF Idle
<1>9. SessionTypes'
  BY <1>1, <1>3, <1>7, <1>8 DEF SessionTypes
<1>10. Handled' /\ RootIsLast'
  BY <1>5, <1>7 DEF Handled, RootIsLast
<1>11. Numbered'
  BY <1>1, <1>3, <1>7, <1>8 DEF Numbered
<1>12. Subscribed'
  BY <1>1, <1>7, <1>8 DEF Subscribed, Bound, NoRun
<1>13. EndsAreLast'
  BY <1>1, <1>2, <1>3, <1>5 DEF EndsAreLast
<1> QED BY <1>1, <1>6, <1>9, <1>10, <1>11, <1>12, <1>13 DEF EventInv

\* Every step of a connection keeps the invariant, and no live event goes back.
LEMMA EventStep ==
  ASSUME EventInv, [EventNext]_eventVars
  PROVE  EventInv' /\ (conn' = "open" => last' >= last)
<1>1. last \in Nat
  BY DEF EventInv, SessionTypes
<1>2. CASE UNCHANGED eventVars
  <2>1. UNCHANGED runRest /\ UNCHANGED <<runs, retried, due, tape>>
    BY <1>2 DEF eventVars, runRest
  <2>2. SessionTypes' /\ Handled' /\ Numbered' /\ Subscribed'
    BY <2>1, RunsApart DEF runRest
  <2>3. Note' = Note
    BY <2>1 DEF Note, runRest
  <2>4. WorldTypes'
    BY <2>1, <2>3 DEF EventInv, WorldTypes, runRest
  <2>5. EndsAreLast' /\ RootIsLast'
    BY <2>1 DEF EventInv, EndsAreLast, RootIsLast, Silent, runRest
  <2> QED BY <1>1, <2>1, <2>2, <2>4, <2>5 DEF EventInv, runRest
<1>3. CASE ConsumerStep
  <2>1. CASE TakeMessage
    BY <1>1, <2>1, TakeMessageKeeps DEF TakeMessage
  <2>2. CASE CompleteRun
    BY <1>1, <2>2, CompleteRunKeeps DEF CompleteRun
  <2> QED BY <1>3, <2>1, <2>2, BindRunKeeps, HandleOneKeeps, HandleTwoKeeps, PushNextKeeps DEF ConsumerStep
<1>4. CASE FailConsumer
  BY <1>1, <1>4, FailConsumerKeeps DEF FailConsumer
<1>5. CASE RunStep
  <2>1. last' = last
    BY <1>5 DEF RunStep, StartStreamedRun, EndStreamedRun, AnnounceDone, DeleteStreamedRun, PublishSource, runRest
  <2> QED BY <1>1, <1>5, <2>1, RunStepKeeps
<1>6. CASE CommandStep
  <2>1. ASSUME NEW s \in Subs, NEW n \in 0..1, Reconnect(s, n) \/ Subscribe(s) PROVE EventInv' /\ last' >= last
    <3>1. PICK k \in 0..1 : Install(s, k)
      BY <2>1 DEF Reconnect, Subscribe
    <3>2. Command /\ Bound /\ sess.subs[s] = "none" /\ UNCHANGED <<commandRest, runs, pend, last>>
      BY <2>1 DEF Reconnect, Subscribe
    <3> QED BY <3>1, <3>2, InstallKeeps
  <2> QED BY <1>6, <2>1, PlainCommandsKeep, SubscriptionsKeep DEF CommandStep
<1>7. CASE EndConnection \/ ClientLeaves
  BY <1>7, ConnectionEnds
<1> QED BY <1>2, <1>3, <1>4, <1>5, <1>6, <1>7, ReplaySendKeeps, ReplayEndKeeps, PlainCommandsKeep DEF EventNext

\* A subscriber is sent every event it matches, the root completes last, and a response of
\* the custom application that ended without an error is whole.
THEOREM NothingEverMissed == Spec => []NothingIsMissed
<1>1. Init => EventInv /\ AsgiInv
  BY EventStart, AsgiStart DEF Init
<1>2. EventInv /\ AsgiInv /\ [Next]_clientVars => EventInv' /\ AsgiInv'
  BY EventStep, AsgiStep, StepsOfComponents
<1>3. EventInv => NoEventMissed /\ RootCompletesLast
  <2> SUFFICES ASSUME EventInv PROVE NoEventMissed /\ RootCompletesLast
    OBVIOUS
  <2>1. NoEventMissed
    BY DEF EventInv, SessionTypes, Subscribed, NoEventMissed
  <2>2. RootCompletesLast
    BY DEF EventInv, RootIsLast, RootCompletesLast
  <2> QED BY <2>1, <2>2
<1>4. AsgiInv => EndedMeansWhole
  BY DEF AsgiInv, EndedMeansWhole
<1>5. EventInv /\ AsgiInv => NothingIsMissed
  BY <1>3, <1>4 DEF NothingIsMissed
<1> QED BY <1>1, <1>2, <1>5, PTL DEF Spec

\* The numbers of the live events a client receives never go back.
THEOREM LiveAlwaysInOrder == Spec => LiveInOrder
<1>1. Init => EventInv
  BY EventStart DEF Init
<1>2. EventInv /\ [Next]_clientVars => EventInv' /\ [conn' = "open" => last' >= last]_eventVars
  BY EventStep, StepsOfComponents
<1> QED BY <1>1, <1>2, PTL DEF Spec, LiveInOrder

\* What a client of a run sees has its type.
THEOREM ClientsTyped == Spec => []ClientsTypeOK
<1>1. Init => EventInv /\ TaskInv /\ MessageInv
  BY EventStart, TaskStart, MessageStart DEF Init
<1>2. EventInv /\ TaskInv /\ MessageInv /\ [Next]_clientVars => (EventInv /\ TaskInv /\ MessageInv)'
  BY EventStep, TaskStep, MessageStep, StepsOfComponents
<1>3. EventInv => EventTypeOK
  <2> SUFFICES ASSUME EventInv PROVE EventTypeOK
    OBVIOUS
  <2>1. WorldTypes /\ SessionTypes
    BY DEF EventInv
  <2>2. sess.subs \in [Subs -> {"none", "replaying", "active"}]
        /\ sess.ns \in [0..Depth -> {"none", "started", "running"} \cup Terminal]
    BY <2>1 DEF SessionTypes, Session, Status
  <2>3. con.pc \in {"wait", "fetch", "handle", "push", "over"} /\ com.pc \in {"idle", "replay", "respond"}
    BY <2>1 DEF WorldTypes, SessionTypes
  <2> QED BY <2>1, <2>2, <2>3 DEF EventTypeOK, WorldTypes, SessionTypes
<1>4. TaskInv => TaskTypeOK
  BY DEF TaskInv, TaskTypes, TaskTypeOK, TaskRunType, AgentType
<1>5. MessageInv => MessageTypeOK
  BY DEF MessageInv, MessageTypes
<1>6. EventInv /\ TaskInv /\ MessageInv => ClientsTypeOK
  BY <1>3, <1>4, <1>5 DEF ClientsTypeOK
<1> QED BY <1>1, <1>2, <1>6, PTL DEF Spec

(***************************************************************************)
(* The stream of a JavaScript graph                                        *)
(***************************************************************************)
\* A byte of the stream, and what ends a line.
Byte == {"r", "n", "v", "e", "d", "c"}

LineBreaks == {<<"n">>, <<"r">>, <<"r", "n">>}

\* The lines of a frame: the first one tells what it is.
Height(frame) == IF frame = "heartbeat" THEN 1 ELSE 3
Lead(frame) == CASE frame = "part" -> "v" [] frame = "error" -> "e" [] frame = "heartbeat" -> "c"

\* The bytes of a content.
Width(content) == IF content = "blank" THEN 0 ELSE 1

\* The lines of a stream of frames: those of its j-th frame are base[j - 1] + 1 to base[j], and
\* line m, whose content is line[m], ends with the byte at ends[m].
LineAt(br, bytes, ends, line, m) ==
  /\ ends[m] = ends[m - 1] + Width(line[m]) + Len(br)
  /\ line[m] # "blank" => bytes[ends[m - 1] + 1] = line[m]
  /\ \A x \in 1..Len(br) : bytes[ends[m] - Len(br) + x] = br[x]

FrameAt(frame, base, line, j) ==
  /\ base[j] = base[j - 1] + Height(frame)
  /\ line[base[j - 1] + 1] = Lead(frame)
  /\ frame # "heartbeat" => line[base[j - 1] + 2] = "d" /\ line[base[j - 1] + 3] = "blank"

\* The bytes are those of the lines; the frames are laid out in lines.
Ruled(br, bytes, ends, line, top) ==
  /\ br \in LineBreaks /\ bytes \in Seq(Byte) /\ top \in Nat
  /\ ends \in [0..top -> Nat] /\ ends[0] = 0 /\ ends[top] = Len(bytes)
  /\ line \in [1..top -> {"v", "e", "d", "c", "blank"}]
  /\ \A m \in 0..top : ends[m] <= Len(bytes)
  /\ \A m \in 1..top : LineAt(br, bytes, ends, line, m)

LaidOut(frames, br, bytes, base, ends, line) ==
  /\ frames \in Seq(Frames)
  /\ base \in [0..Len(frames) -> Nat] /\ base[0] = 0
  /\ \A j \in 1..Len(frames) : base[j] <= base[Len(frames)] /\ FrameAt(frames[j], base, line, j)
  /\ Ruled(br, bytes, ends, line, base[Len(frames)])

\* The elements of two sequences, one behind the other.
LEMMA Chained ==
  ASSUME NEW S, NEW s \in Seq(S), NEW t \in Seq(S)
  PROVE  /\ s \o t \in Seq(S) /\ Len(s \o t) = Len(s) + Len(t)
         /\ \A i \in 1..Len(s) : (s \o t)[i] = s[i]
         /\ \A i \in 1..Len(t) : (s \o t)[Len(s) + i] = t[i]
<1>1. s \o t \in Seq(S) /\ Len(s \o t) = Len(s) + Len(t)
  OBVIOUS
<1>2. \A i \in 1..Len(s) + Len(t) : (s \o t)[i] = IF i <= Len(s) THEN s[i] ELSE t[i - Len(s)]
  OBVIOUS
<1> QED BY <1>1, <1>2

\* The same of bytes.
LEMMA Joined ==
  ASSUME NEW s \in Seq(Byte), NEW t \in Seq(Byte)
  PROVE  /\ s \o t \in Seq(Byte) /\ Len(s \o t) = Len(s) + Len(t)
         /\ \A i \in 1..Len(s) : (s \o t)[i] = s[i]
         /\ \A i \in 1..Len(t) : (s \o t)[Len(s) + i] = t[i]
BY Chained

\* The bytes of a frame: its lines, each with its break.
LEMMA BytesOf ==
  ASSUME NEW frame \in Frames, NEW br \in LineBreaks
  PROVE  LET b == Bytes(frame, br) IN
         /\ b \in Seq(Byte)
         /\ Len(br) \in 1..2
         /\ b[1] = Lead(frame)
         /\ \A x \in 1..Len(br) : b[1 + x] = br[x]
         /\ frame = "heartbeat" => Len(b) = 1 + Len(br)
         /\ frame # "heartbeat" =>
              /\ Len(b) = 2 + 3 * Len(br)
              /\ b[2 + Len(br)] = "d"
              /\ \A x \in 1..Len(br) : b[2 + Len(br) + x] = br[x] /\ b[2 + 2 * Len(br) + x] = br[x]
<1>1. br \in Seq(Byte) /\ Len(br) \in 1..2
  <2>1. CASE br = <<"n">>
    BY <2>1 DEF Byte
  <2>2. CASE br = <<"r">>
    BY <2>2 DEF Byte
  <2>3. CASE br = <<"r", "n">>
    BY <2>3 DEF Byte
  <2> QED BY <2>1, <2>2, <2>3 DEF LineBreaks
<1>2. CASE frame = "heartbeat"
  <2> DEFINE p0 == <<"c">>
             b == p0 \o br
  <2>1. Bytes(frame, br) = b /\ Lead(frame) = "c"
    BY <1>2 DEF Bytes, Lead
  <2>2. p0 \in Seq(Byte) /\ Len(p0) = 1 /\ p0[1] = "c"
    BY DEF Byte
  <2> HIDE DEF p0
  <2>3. b \in Seq(Byte) /\ Len(b) = 1 + Len(br) /\ b[1] = "c" /\ \A x \in 1..Len(br) : b[1 + x] = br[x]
    <3>1. b \in Seq(Byte) /\ Len(b) = Len(p0) + Len(br)
      BY <1>1, <2>2, Joined
    <3>2. \A i \in 1..Len(p0) : b[i] = p0[i]
      BY <1>1, <2>2, Joined
    <3>3. \A x \in 1..Len(br) : b[Len(p0) + x] = br[x]
      BY <1>1, <2>2, Joined
    <3> QED BY <1>1, <2>2, <3>1, <3>2, <3>3
  <2> HIDE DEF b
  <2> QED BY <1>1, <1>2, <2>1, <2>3
<1>3. ASSUME NEW lead \in Byte, frame # "heartbeat", Lead(frame) = lead,
             Bytes(frame, br) = <<lead>> \o br \o <<"d">> \o br \o br
      PROVE  LET b == Bytes(frame, br) IN
             /\ b \in Seq(Byte) /\ Len(b) = 2 + 3 * Len(br)
             /\ b[1] = Lead(frame) /\ b[2 + Len(br)] = "d"
             /\ \A x \in 1..Len(br) : /\ b[1 + x] = br[x]
                                     /\ b[2 + Len(br) + x] = br[x]
                                     /\ b[2 + 2 * Len(br) + x] = br[x]
  <2> DEFINE p0 == <<lead>>
             pd == <<"d">>
             p1 == p0 \o br
             p2 == p1 \o pd
             p3 == p2 \o br
             p4 == p3 \o br
  <2>1. /\ p0 \in Seq(Byte) /\ Len(p0) = 1 /\ p0[1] = lead
        /\ pd \in Seq(Byte) /\ Len(pd) = 1 /\ pd[1] = "d"
    BY DEF Byte
  <2>2. Bytes(frame, br) = p4
    BY <1>3
  <2> HIDE DEF p0, pd
  <2>3. /\ p1 \in Seq(Byte) /\ Len(p1) = 1 + Len(br) /\ p1[1] = lead
        /\ \A x \in 1..Len(br) : p1[1 + x] = br[x]
    BY <1>1, <2>1, Joined
  <2> HIDE DEF p1
  <2>4. /\ p2 \in Seq(Byte) /\ Len(p2) = 2 + Len(br) /\ p2[1] = lead /\ p2[2 + Len(br)] = "d"
        /\ \A x \in 1..Len(br) : p2[1 + x] = br[x]
    <3>1. p2 \in Seq(Byte) /\ Len(p2) = 2 + Len(br)
      <4>1. p2 \in Seq(Byte) /\ Len(p2) = Len(p1) + Len(pd)
        BY <2>1, <2>3, Joined
      <4> QED BY <1>1, <2>1, <2>3, <4>1
    <3>2. \A i \in 1..1 + Len(br) : p2[i] = p1[i]
      <4>1. \A i \in 1..Len(p1) : p2[i] = p1[i]
        BY <2>1, <2>3, Joined
      <4> QED BY <2>3, <4>1
    <3>3. p2[2 + Len(br)] = pd[1]
      <4>1. p2[Len(p1) + 1] = pd[1]
        <5>1. \A i \in 1..Len(pd) : p2[Len(p1) + i] = pd[i]
          BY <2>1, <2>3, Joined
        <5>2. 1 \in 1..Len(pd)
          BY <2>1
        <5> QED BY <5>1, <5>2
      <4>2. Len(p1) + 1 = 2 + Len(br)
        BY <1>1, <2>3
      <4> QED BY <4>1, <4>2
    <3> QED BY <1>1, <2>1, <2>3, <3>1, <3>2, <3>3
  <2> HIDE DEF p2
  <2>5. /\ p3 \in Seq(Byte) /\ Len(p3) = 2 + 2 * Len(br) /\ p3[1] = lead /\ p3[2 + Len(br)] = "d"
        /\ \A x \in 1..Len(br) : p3[1 + x] = br[x] /\ p3[2 + Len(br) + x] = br[x]
    <3>1. p3 \in Seq(Byte) /\ Len(p3) = 2 + 2 * Len(br)
      BY <1>1, <2>4, Joined
    <3>2. \A i \in 1..2 + Len(br) : p3[i] = p2[i]
      BY <1>1, <2>4, Joined
    <3>3. \A x \in 1..Len(br) : p3[2 + Len(br) + x] = br[x]
      BY <1>1, <2>4, Joined
    <3> QED BY <1>1, <2>4, <3>1, <3>2, <3>3
  <2> HIDE DEF p3
  <2>6. /\ p4 \in Seq(Byte) /\ Len(p4) = 2 + 3 * Len(br)
        /\ \A i \in 1..2 + 2 * Len(br) : p4[i] = p3[i]
        /\ \A x \in 1..Len(br) : p4[2 + 2 * Len(br) + x] = br[x]
    BY <1>1, <2>5, Joined
  <2> HIDE DEF p4
  <2> QED BY <1>1, <1>3, <2>2, <2>5, <2>6
<1>4. CASE frame = "part"
  <2>1. Lead(frame) = "v" /\ Bytes(frame, br) = <<"v">> \o br \o <<"d">> \o br \o br
    BY <1>4 DEF Bytes, Lead
  <2> QED BY <1>1, <1>3, <1>4, <2>1 DEF Byte
<1>5. CASE frame = "error"
  <2>1. Lead(frame) = "e" /\ Bytes(frame, br) = <<"e">> \o br \o <<"d">> \o br \o br
    BY <1>5 DEF Bytes, Lead
  <2> QED BY <1>1, <1>3, <1>5, <2>1 DEF Byte
<1> QED BY <1>2, <1>4, <1>5 DEF Frames

\* One more frame is laid out behind the others.
LEMMA FrameAppended ==
  ASSUME NEW frames, NEW br, NEW bytes, NEW base, NEW ends, NEW line,
         LaidOut(frames, br, bytes, base, ends, line), NEW frame \in Frames
  PROVE  \E base2, ends2, line2 :
           LaidOut(Append(frames, frame), br, bytes \o Bytes(frame, br), base2, ends2, line2)
<1> DEFINE k == Len(frames)
           m0 == base[k]
           h == Height(frame)
           b == Len(br)
           n == Len(bytes)
           more == Bytes(frame, br)
           base2 == [j \in 0..k + 1 |-> IF j <= k THEN base[j] ELSE m0 + h]
           ends2 == [m \in 0..m0 + h |-> IF m <= m0 THEN ends[m]
                                          ELSE IF m = m0 + 1 THEN n + 1 + b
                                          ELSE IF m = m0 + 2 THEN n + 2 + 2 * b ELSE n + 2 + 3 * b]
           line2 == [m \in 1..m0 + h |-> IF m <= m0 THEN line[m]
                                          ELSE IF m = m0 + 1 THEN Lead(frame)
                                          ELSE IF m = m0 + 2 THEN "d" ELSE "blank"]
           frames2 == Append(frames, frame)
           bytes2 == bytes \o more
<1>1. k \in Nat /\ m0 \in Nat /\ n \in Nat /\ b \in 1..2
  <2>1. frames \in Seq(Frames) /\ br \in LineBreaks /\ bytes \in Seq(Byte)
    BY DEF LaidOut, Ruled
  <2>2. k \in Nat /\ n \in Nat /\ b \in 1..2
    BY <2>1, BytesOf
  <2> QED BY <2>2 DEF LaidOut, Ruled
<1>h. (h = 1 /\ frame = "heartbeat") \/ (h = 3 /\ frame # "heartbeat")
  BY DEF Height
<1>a. /\ frames \in Seq(Frames) /\ br \in LineBreaks /\ bytes \in Seq(Byte)
      /\ base \in [0..k -> Nat] /\ base[0] = 0 /\ base[k] = m0
      /\ ends \in [0..m0 -> Nat] /\ ends[0] = 0 /\ ends[m0] = n
      /\ line \in [1..m0 -> {"v", "e", "d", "c", "blank"}]
  BY DEF LaidOut, Ruled
<1>b. /\ \A m \in 0..m0 : ends[m] <= n
      /\ \A j \in 1..k : base[j] <= m0 /\ FrameAt(frames[j], base, line, j)
      /\ \A m \in 1..m0 : LineAt(br, bytes, ends, line, m)
  BY DEF LaidOut, Ruled
<1>2. /\ more \in Seq(Byte)
      /\ more[1] = Lead(frame)
      /\ \A x \in 1..b : more[1 + x] = br[x]
      /\ frame = "heartbeat" => Len(more) = 1 + b
      /\ frame # "heartbeat" =>
           /\ Len(more) = 2 + 3 * b
           /\ more[2 + b] = "d"
           /\ \A x \in 1..b : more[2 + b + x] = br[x] /\ more[2 + 2 * b + x] = br[x]
  BY <1>a, BytesOf
<1> HIDE DEF k, m0, h, b, n, more
<1>3. /\ bytes2 \in Seq(Byte) /\ Len(bytes2) = n + Len(more)
      /\ \A p \in 1..n : bytes2[p] = bytes[p]
      /\ \A p \in 1..Len(more) : bytes2[n + p] = more[p]
  BY <1>a, <1>2, Joined DEF n
<1>4. /\ frames2 \in Seq(Frames) /\ Len(frames2) = k + 1
      /\ \A j \in 1..k : frames2[j] = frames[j]
      /\ frames2[k + 1] = frame
  BY <1>1, <1>a DEF k
<1>5. /\ base2 \in [0..k + 1 -> Nat] /\ base2[0] = 0 /\ base2[k + 1] = m0 + h
      /\ \A j \in 0..k : base2[j] = base[j]
  BY <1>1, <1>h, <1>a
<1>6. /\ ends2 \in [0..m0 + h -> Nat] /\ ends2[0] = 0 /\ ends2[m0] = n
      /\ \A m \in 0..m0 : ends2[m] = ends[m]
      /\ ends2[m0 + 1] = n + 1 + b
      /\ h = 3 => ends2[m0 + 2] = n + 2 + 2 * b /\ ends2[m0 + 3] = n + 2 + 3 * b
  <2>1. ends2 \in [0..m0 + h -> Nat]
    BY <1>1, <1>h, <1>a
  <2>2. \A m \in 0..m0 : ends2[m] = ends[m]
    BY <1>1, <1>h
  <2> QED BY <1>1, <1>h, <1>a, <2>1, <2>2
<1>7. /\ line2 \in [1..m0 + h -> {"v", "e", "d", "c", "blank"}]
      /\ \A m \in 1..m0 : line2[m] = line[m]
      /\ line2[m0 + 1] = Lead(frame)
      /\ h = 3 => line2[m0 + 2] = "d" /\ line2[m0 + 3] = "blank"
  <2>1. Lead(frame) \in {"v", "e", "c"}
    BY DEF Lead, Frames
  <2>2. line2 \in [1..m0 + h -> {"v", "e", "d", "c", "blank"}]
    BY <1>1, <1>h, <1>a, <2>1
  <2>3. \A m \in 1..m0 : line2[m] = line[m]
    BY <1>1, <1>h
  <2> QED BY <1>1, <1>h, <2>2, <2>3
<1> HIDE DEF base2, ends2, line2, frames2, bytes2
<1>9. ends2[m0 + h] = Len(bytes2)
  <2>1. CASE h = 1
    BY <1>1, <1>h, <1>2, <1>3, <1>6, <2>1
  <2>2. CASE h = 3
    BY <1>1, <1>h, <1>2, <1>3, <1>6, <2>2
  <2> QED BY <1>h, <2>1, <2>2
<1>10. ASSUME NEW j \in 1..k + 1
       PROVE  base2[j] <= m0 + h /\ FrameAt(frames2[j], base2, line2, j)
  <2>1. CASE j <= k
    <3>1. j \in 1..k /\ j \in 0..k /\ j - 1 \in 0..k /\ base[j] <= m0 /\ FrameAt(frames[j], base, line, j)
      BY <1>1, <1>b, <2>1
    <3>2. base2[j] = base[j] /\ base2[j - 1] = base[j - 1] /\ frames2[j] = frames[j]
      BY <1>4, <1>5, <3>1
    <3> DEFINE f == frames[j]
               at == base[j - 1]
    <3>3. /\ base[j] = at + Height(f) /\ base[j] \in Nat /\ at \in Nat /\ line[at + 1] = Lead(f)
          /\ f # "heartbeat" => line[at + 2] = "d" /\ line[at + 3] = "blank"
      BY <1>a, <3>1 DEF FrameAt
    <3> HIDE DEF f, at
    <3>4. CASE f = "heartbeat"
      <4>1. Height(f) = 1
        BY <3>4 DEF Height
      <4>2. at + 1 \in 1..m0
        BY <1>1, <3>1, <3>3, <4>1
      <4>3. line2[at + 1] = line[at + 1]
        BY <1>7, <4>2
      <4> QED BY <1>1, <1>h, <3>1, <3>2, <3>3, <3>4, <4>3 DEF FrameAt, f, at
    <3>5. CASE f # "heartbeat"
      <4>1. Height(f) = 3
        BY <3>5 DEF Height
      <4>2. at + 1 \in 1..m0 /\ at + 2 \in 1..m0 /\ at + 3 \in 1..m0
        BY <1>1, <3>1, <3>3, <4>1
      <4>3. line2[at + 1] = line[at + 1] /\ line2[at + 2] = line[at + 2] /\ line2[at + 3] = line[at + 3]
        BY <1>7, <4>2
      <4>4. base2[j] = at + Height(f) /\ base2[j - 1] = at /\ frames2[j] = f
        BY <3>2, <3>3 DEF f, at
      <4> QED BY <1>1, <1>h, <3>1, <3>3, <4>3, <4>4 DEF FrameAt
    <3> QED BY <3>4, <3>5
  <2>2. CASE j = k + 1
    <3>1. base2[j] = m0 + h /\ base2[j - 1] = m0 /\ frames2[j] = frame
      BY <1>1, <1>a, <1>4, <1>5, <2>2
    <3> QED BY <1>1, <1>h, <1>7, <3>1 DEF FrameAt, h
  <2> QED BY <1>1, <2>1, <2>2
<1>11. ASSUME NEW m \in 1..m0 + h
       PROVE  LineAt(br, bytes2, ends2, line2, m)
  <2>1. CASE m <= m0
    <3>1. m \in 1..m0 /\ m \in 0..m0 /\ m - 1 \in 0..m0 /\ LineAt(br, bytes, ends, line, m)
      BY <1>1, <1>b, <2>1
    <3>2. ends2[m] = ends[m] /\ ends2[m - 1] = ends[m - 1] /\ line2[m] = line[m]
      BY <1>6, <1>7, <3>1
    <3>3. ends[m] \in Nat /\ ends[m - 1] \in Nat /\ ends[m] <= n
          /\ ends[m] = ends[m - 1] + Width(line[m]) + b
      BY <1>a, <1>b, <3>1 DEF LineAt, b
    <3>4. Width(line[m]) \in {0, 1} /\ (line[m] # "blank" => Width(line[m]) = 1)
      BY DEF Width
    <3>5. line[m] # "blank" => bytes2[ends[m - 1] + 1] = line[m]
      <4>1. line[m] # "blank" => ends[m - 1] + 1 \in 1..n
        BY <1>1, <3>3, <3>4
      <4> QED BY <1>3, <3>1, <4>1 DEF LineAt
    <3>6. ASSUME NEW x \in 1..b PROVE bytes2[ends[m] - b + x] = br[x]
      <4>1. ends[m] - b + x \in 1..n
        <5> DEFINE w == Width(line[m])
        <5> HIDE DEF w
        <5>1. ends[m] = ends[m - 1] + w + b /\ w \in {0, 1}
          BY <3>3, <3>4 DEF w
        <5> QED BY <1>1, <3>3, <5>1
      <4> QED BY <1>3, <3>1, <4>1 DEF LineAt, b
    <3> QED BY <3>1, <3>2, <3>3, <3>5, <3>6 DEF LineAt, b
  <2>2. CASE m = m0 + 1
    <3>1. ends2[m] = n + 1 + b /\ ends2[m - 1] = n /\ line2[m] = Lead(frame) /\ Width(line2[m]) = 1
      <4>1. Lead(frame) # "blank"
        BY DEF Lead, Frames
      <4> QED BY <1>1, <1>h, <1>6, <1>7, <2>2, <4>1 DEF Width
    <3>2. bytes2[n + 1] = Lead(frame)
      BY <1>1, <1>h, <1>2, <1>3
    <3>3. ASSUME NEW x \in 1..b PROVE bytes2[n + 1 + b - b + x] = br[x]
      <4>1. bytes2[n + (1 + x)] = more[1 + x]
        BY <1>1, <1>h, <1>2, <1>3
      <4>2. n + (1 + x) = n + 1 + b - b + x
        BY <1>1
      <4> QED BY <1>2, <4>1, <4>2
    <3> QED BY <1>1, <3>1, <3>2, <3>3 DEF LineAt, b
  <2>3. CASE m = m0 + 2
    <3>1. h = 3 /\ frame # "heartbeat"
      BY <1>1, <1>h, <2>3
    <3>2. ends2[m] = n + 2 + 2 * b /\ ends2[m - 1] = n + 1 + b /\ line2[m] = "d" /\ Width(line2[m]) = 1
      BY <1>1, <1>6, <1>7, <2>3, <3>1 DEF Width
    <3>3. bytes2[n + 1 + b + 1] = "d"
      <4>1. bytes2[n + (2 + b)] = more[2 + b]
        BY <1>1, <1>2, <1>3, <3>1
      <4>2. n + (2 + b) = n + 1 + b + 1
        BY <1>1
      <4> QED BY <1>2, <3>1, <4>1, <4>2
    <3>4. ASSUME NEW x \in 1..b PROVE bytes2[n + 2 + 2 * b - b + x] = br[x]
      <4>1. bytes2[n + (2 + b + x)] = more[2 + b + x]
        BY <1>1, <1>2, <1>3, <3>1
      <4>2. n + (2 + b + x) = n + 2 + 2 * b - b + x
        BY <1>1
      <4> QED BY <1>2, <3>1, <4>1, <4>2
    <3> QED BY <1>1, <3>2, <3>3, <3>4 DEF LineAt, b
  <2>4. CASE m = m0 + 3
    <3>1. h = 3 /\ frame # "heartbeat"
      BY <1>1, <1>h, <2>4
    <3>2. ends2[m] = n + 2 + 3 * b /\ ends2[m - 1] = n + 2 + 2 * b /\ line2[m] = "blank" /\ Width(line2[m]) = 0
      BY <1>1, <1>6, <1>7, <2>4, <3>1 DEF Width
    <3>3. ASSUME NEW x \in 1..b PROVE bytes2[n + 2 + 3 * b - b + x] = br[x]
      <4>1. bytes2[n + (2 + 2 * b + x)] = more[2 + 2 * b + x]
        BY <1>1, <1>2, <1>3, <3>1
      <4>2. n + (2 + 2 * b + x) = n + 2 + 3 * b - b + x
        BY <1>1
      <4> QED BY <1>2, <3>1, <4>1, <4>2
    <3> QED BY <1>1, <3>2, <3>3 DEF LineAt, b
  <2> QED BY <1>1, <1>h, <2>1, <2>2, <2>3, <2>4
<1>12. ASSUME NEW m \in 0..m0 + h PROVE ends2[m] <= Len(bytes2)
  <2>1. m <= m0 \/ m = m0 + 1 \/ (h = 3 /\ m = m0 + 2) \/ (h = 3 /\ m = m0 + 3)
    BY <1>1, <1>h
  <2>2. CASE m <= m0
    <3>1. ends2[m] = ends[m] /\ ends[m] \in Nat /\ ends[m] <= n
      BY <1>1, <1>a, <1>b, <1>6, <2>2
    <3> QED BY <1>1, <1>2, <1>3, <3>1
  <2>3. CASE m # 0 /\ ~ m <= m0
    BY <1>1, <1>h, <1>2, <1>3, <1>6, <2>1, <2>3
  <2> QED BY <1>1, <2>2, <2>3
<1>13. LaidOut(frames2, br, bytes2, base2, ends2, line2)
  BY <1>1, <1>a, <1>3, <1>4, <1>5, <1>6, <1>7, <1>9, <1>10, <1>11, <1>12 DEF LaidOut, Ruled
<1> QED BY <1>13 DEF frames2, bytes2, more

\* The bytes of a stream of frames are those of its frames, one behind the other.
LEMMA FlattenedByParts ==
  ASSUME NEW seqs, NEW n \in Nat \ {0}, seqs \in [1..n -> Seq(Byte)]
  PROVE  \E parts \in [1..n -> Seq(Byte)] :
           /\ FlattenSeq(seqs) = parts[n]
           /\ \A i \in 1..n : parts[i] = IF i = 1 THEN seqs[i] ELSE parts[i - 1] \o seqs[i]
<1> DEFINE Next1(g, i) == IF i = 1 THEN seqs[i] ELSE g[i - 1] \o seqs[i]
           Good(g, k) == \A i \in 1..k : g[i] = Next1(g, i)
           Missing == {k \in 1..n : ~ \E g \in [1..k -> Seq(Byte)] : Good(g, k)}
<1>1. ASSUME NEW k \in 1..n, k = 1 \/ \E g \in [1..k - 1 -> Seq(Byte)] : Good(g, k - 1)
      PROVE  \E g \in [1..k -> Seq(Byte)] : Good(g, k)
  <2>1. CASE k = 1
    <3>1. [i \in 1..k |-> seqs[i]] \in [1..k -> Seq(Byte)] /\ Good([i \in 1..k |-> seqs[i]], k)
      BY <2>1
    <3> QED BY <3>1
  <2>2. CASE k # 1
    <3>1. PICK g \in [1..k - 1 -> Seq(Byte)] : Good(g, k - 1)
      BY <1>1, <2>2
    <3> DEFINE g2 == [i \in 1..k |-> IF i = k THEN g[k - 1] \o seqs[k] ELSE g[i]]
    <3>2. g2 \in [1..k -> Seq(Byte)]
      <4>1. g[k - 1] \o seqs[k] \in Seq(Byte)
        BY <2>2, <3>1
      <4> QED BY <2>2, <3>1, <4>1
    <3>3. ASSUME NEW i \in 1..k PROVE g2[i] = Next1(g2, i)
      <4>1. g2[k] = g[k - 1] \o seqs[k] /\ \A x \in 1..k - 1 : g2[x] = g[x]
        BY <2>2
      <4> HIDE DEF g2
      <4>2. CASE i = k
        <5>1. g2[k - 1] = g[k - 1]
          BY <2>2, <4>1
        <5> QED BY <2>2, <4>1, <4>2, <5>1
      <4>3. CASE i # k
        <5>1. i \in 1..k - 1 /\ (i # 1 => i - 1 \in 1..k - 1)
          BY <4>3
        <5>2. g[i] = Next1(g, i)
          BY <3>1, <5>1
        <5> QED BY <4>1, <5>1, <5>2
      <4> QED BY <4>2, <4>3
    <3> HIDE DEF g2
    <3> QED BY <3>2, <3>3
  <2> QED BY <2>1, <2>2
<1> HIDE DEF Good
<1>8. ASSUME Missing # {} PROVE FALSE
  <2>1. Missing \subseteq Nat
    OBVIOUS
  <2>2. PICK k \in Missing : \A j \in Missing : k <= j
    BY <1>8, <2>1, LeastSeq
  <2>3. k \in 1..n /\ k # 1 => k - 1 \in 1..n /\ ~ k <= k - 1
    OBVIOUS
  <2>4. k = 1 \/ \E g \in [1..k - 1 -> Seq(Byte)] : Good(g, k - 1)
    BY <2>2, <2>3
  <2> QED BY <1>1, <2>2, <2>4
<1>2. PICK g \in [1..n -> Seq(Byte)] : Good(g, n)
  <2>1. n \in 1..n
    OBVIOUS
  <2> QED BY <1>8, <2>1
<1> USE DEF Good
<1>3. DOMAIN seqs = 1..n /\ seqs \in Seq(Seq(Byte)) /\ Len(seqs) = n
  OBVIOUS
<1> DEFINE F(f) == f = [i \in 1..Len(seqs) |-> IF i = 1 THEN seqs[i] ELSE f[i - 1] \o seqs[i]]
           parts == CHOOSE f : F(f)
<1>4. F(g)
  BY <1>2, <1>3
<1>5. F(parts)
  BY <1>4
<1>6. FlattenSeq(seqs) = parts[n]
  BY <1>3 DEF FlattenSeq
<1> HIDE DEF parts
<1>7. parts = g
  <2> DEFINE Differ == {i \in 1..n : parts[i] # g[i]}
  <2>1. \A i \in 1..n : parts[i] = IF i = 1 THEN seqs[i] ELSE parts[i - 1] \o seqs[i]
    BY <1>3, <1>5
  <2>2. ASSUME Differ # {} PROVE FALSE
    <3>0. Differ \subseteq Nat
      OBVIOUS
    <3>1. PICK i \in Differ : \A j \in Differ : i <= j
      BY <2>2, <3>0, LeastSeq
    <3>2. i # 1
      BY <1>2, <2>1, <3>1
    <3>3. parts[i - 1] = g[i - 1]
      BY <3>1, <3>2
    <3> QED BY <1>2, <2>1, <3>1, <3>2, <3>3
  <2>3. DOMAIN parts = 1..n /\ parts = [i \in 1..n |-> parts[i]]
    BY <1>3, <1>5
  <2> QED BY <2>2, <2>3
<1> QED BY <1>2, <1>6, <1>7

\* A stream without frames has no lines.
LEMMA EmptyLaidOut ==
  ASSUME NEW br \in LineBreaks
  PROVE  \E base, ends, line : LaidOut(<<>>, br, <<>>, base, ends, line)
<1> DEFINE base == [j \in 0..0 |-> 0]
           line == [m \in 1..0 |-> "blank"]
<1>1. /\ base \in [0..0 -> Nat] /\ base[0] = 0
      /\ line \in [1..0 -> {"v", "e", "d", "c", "blank"}]
      /\ \A m \in 0..0 : base[m] <= 0
  OBVIOUS
<1>2. <<>> \in Seq(Frames) /\ <<>> \in Seq(Byte) /\ Len(<<>>) = 0 /\ 1..0 = {}
  OBVIOUS
<1> HIDE DEF base, line
<1>3. LaidOut(<<>>, br, <<>>, base, base, line)
  BY <1>1, <1>2 DEF LaidOut, Ruled
<1> QED BY <1>3

\* Every stream of frames has lines, whatever ends them.
LEMMA StreamLaidOut ==
  ASSUME NEW frames \in Seq(Frames), NEW br \in LineBreaks
  PROVE  \E base, ends, line :
           LaidOut(frames, br, FlattenSeq([i \in DOMAIN frames |-> Bytes(frames[i], br)]), base, ends, line)
<1> DEFINE n == Len(frames)
           seqs == [i \in DOMAIN frames |-> Bytes(frames[i], br)]
<1>1. n \in Nat /\ DOMAIN frames = 1..n /\ DOMAIN seqs = 1..n
  OBVIOUS
<1>2. seqs \in [1..n -> Seq(Byte)]
  BY BytesOf
<1>3. CASE n = 0
  <2>1. frames = <<>>
    BY <1>3
  <2>2. seqs = <<>> /\ Len(seqs) = 0
    BY <1>1, <1>3
  <2>3. FlattenSeq(seqs) = <<>>
    BY <2>2 DEF FlattenSeq
  <2> QED BY <2>1, <2>3, EmptyLaidOut
<1>4. CASE n # 0
  <2>1. PICK parts \in [1..n -> Seq(Byte)] :
          /\ FlattenSeq(seqs) = parts[n]
          /\ \A i \in 1..n : parts[i] = IF i = 1 THEN seqs[i] ELSE parts[i - 1] \o seqs[i]
    <3>1. n \in Nat \ {0}
      BY <1>1, <1>4
    <3> HIDE DEF n, seqs
    <3> QED BY <1>2, <3>1, FlattenedByParts
  <2> DEFINE Good(k) == \E base, ends, line : LaidOut(SubSeq(frames, 1, k), br, parts[k], base, ends, line)
  <2>2. ASSUME NEW k \in 1..n, k = 1 \/ Good(k - 1) PROVE Good(k)
    <3>1. SubSeq(frames, 1, k) = Append(SubSeq(frames, 1, k - 1), frames[k])
      <4>1. /\ SubSeq(frames, 1, k) \in Seq(Frames) /\ Len(SubSeq(frames, 1, k)) = k
            /\ \A i \in 1..k : SubSeq(frames, 1, k)[i] = frames[i]
        BY SubSeqProperties
      <4>2. /\ SubSeq(frames, 1, k - 1) \in Seq(Frames) /\ Len(SubSeq(frames, 1, k - 1)) = k - 1
            /\ \A i \in 1..k - 1 : SubSeq(frames, 1, k - 1)[i] = frames[i]
        BY SubSeqProperties
      <4> DEFINE s == SubSeq(frames, 1, k)
                 t == SubSeq(frames, 1, k - 1)
      <4> HIDE DEF s, t
      <4>3. Append(t, frames[k]) \in Seq(Frames) /\ Len(Append(t, frames[k])) = k
        BY <4>2 DEF t
      <4>4. \A i \in 1..k : Append(t, frames[k])[i] = s[i]
        BY <4>1, <4>2 DEF s, t
      <4>5. s = Append(t, frames[k])
        BY <4>1, <4>3, <4>4 DEF s
      <4> QED BY <4>5 DEF s, t
    <3>2. frames[k] \in Frames /\ seqs[k] = Bytes(frames[k], br)
      BY <1>1
    <3>3. CASE k = 1
      <4>1. SubSeq(frames, 1, k - 1) = <<>>
        BY <3>3
      <4>2. parts[k] = <<>> \o Bytes(frames[k], br)
        BY <1>2, <2>1, <3>2, <3>3
      <4>3. PICK base, ends, line : LaidOut(<<>>, br, <<>>, base, ends, line)
        BY EmptyLaidOut
      <4>4. \E b2, e2, l2 : LaidOut(Append(<<>>, frames[k]), br, <<>> \o Bytes(frames[k], br), b2, e2, l2)
        BY <3>2, <4>3, FrameAppended
      <4> QED BY <3>1, <4>1, <4>2, <4>4
    <3>4. CASE k # 1
      <4>1. parts[k] = parts[k - 1] \o Bytes(frames[k], br)
        BY <2>1, <3>2, <3>4
      <4> DEFINE t == SubSeq(frames, 1, k - 1)
      <4>2. PICK base, ends, line : LaidOut(t, br, parts[k - 1], base, ends, line)
        BY <2>2, <3>4
      <4> HIDE DEF t
      <4>3. \E b2, e2, l2 : LaidOut(Append(t, frames[k]), br, parts[k - 1] \o Bytes(frames[k], br), b2, e2, l2)
        BY <3>2, <4>2, FrameAppended
      <4> QED BY <3>1, <4>1, <4>3 DEF t
    <3> QED BY <3>3, <3>4
  <2> DEFINE Missing == {k \in 1..n : ~ Good(k)}
  <2> HIDE DEF Good
  <2>3. ASSUME Missing # {} PROVE FALSE
    <3>1. Missing \subseteq Nat
      OBVIOUS
    <3>2. PICK k \in Missing : \A j \in Missing : k <= j
      BY <2>3, <3>1, LeastSeq
    <3>3. k # 1 => k - 1 \in 1..n /\ ~ k <= k - 1
      BY <1>1, <3>2
    <3> QED BY <2>2, <3>2, <3>3
  <2>4. Good(n)
    BY <1>1, <1>4, <2>3
  <2>5. SubSeq(frames, 1, n) = frames
    OBVIOUS
  <2> QED BY <2>1, <2>4, <2>5 DEF Good
<1> QED BY <1>3, <1>4

\* The members of a set, in order: how many there are, the i-th one, the one before it, the last.
Rank(E, e) == Cardinality({d \in E : d <= e})
Nth(E, i) == CHOOSE e \in E : Rank(E, e) = i
LastBefore(E, e) == Max({0} \cup {d \in E : d < e})
LastOf(E) == Max({0} \cup E)

FirstOf(f, q) == {f[i] : i \in 1..q}

\* E has q members, and f is the i-th one.
InOrder(E, q, f) ==
  /\ Cardinality(E) = q
  /\ \A i \in 1..q :
       /\ Nth(E, i) = f[i]
       /\ LastBefore(E, f[i]) = IF i = 1 THEN 0 ELSE f[i - 1]
  /\ LastOf(E) = IF q = 0 THEN 0 ELSE f[q]

\* An increasing sequence, in the words of splitlines.
LEMMA Ranked ==
  ASSUME NEW q \in Nat, NEW f \in [1..q -> Nat \ {0}],
         \A i \in 1..q : \A j \in 1..q : i < j => f[i] < f[j]
  PROVE  InOrder(FirstOf(f, q), q, f)
<1> DEFINE E == FirstOf(f, q)
<1>0. E = {f[i] : i \in 1..q}
  BY DEF FirstOf
<1> HIDE DEF E
<1>1. ASSUME NEW i \in 0..q PROVE Cardinality({f[j] : j \in 1..i}) = i
  <2> DEFINE S == 1..i
             T == {f[j] : j \in S}
             g == [j \in S |-> f[j]]
  <2>1. IsFiniteSet(S) /\ Cardinality(S) = i
    BY FS_Interval
  <2>2. g \in [S -> T] /\ \A t \in T : \E j \in S : g[j] = t
    OBVIOUS
  <2>3. \A a, b \in S : g[a] = g[b] => a = b
    <3> SUFFICES ASSUME NEW a \in S, NEW b \in S, f[a] = f[b] PROVE a = b
      OBVIOUS
    <3>1. a \in 1..q /\ b \in 1..q /\ f[a] \in Nat /\ f[b] \in Nat
      OBVIOUS
    <3>2. ~ a < b /\ ~ b < a
      BY <3>1
    <3> QED BY <3>1, <3>2
  <2> HIDE DEF S, T, g
  <2>4. ExistsBijection(S, T)
    BY <2>2, <2>3 DEF ExistsBijection, Bijection, Injection, Surjection, IsInjective
  <2>5. Cardinality(T) = Cardinality(S)
    BY <2>1, <2>4, FS_Bijection
  <2> QED BY <2>1, <2>5 DEF S, T
<1>2. \A i, j \in 1..q : f[i] \in Nat /\ f[i] > 0 /\ (f[i] <= f[j] <=> i <= j) /\ (f[i] < f[j] <=> i < j)
  <2> TAKE i, j \in 1..q
  <2>1. f[i] \in Nat /\ f[j] \in Nat /\ f[i] > 0
    OBVIOUS
  <2>2. (i < j => f[i] < f[j]) /\ (j < i => f[j] < f[i]) /\ (i = j => f[i] = f[j])
    OBVIOUS
  <2> QED BY <2>1, <2>2
<1>3. Cardinality(E) = q
  BY <1>0, <1>1
<1>4. ASSUME NEW i \in 1..q PROVE {d \in E : d <= f[i]} = {f[j] : j \in 1..i}
  <2>1. ASSUME NEW d \in E, d <= f[i] PROVE d \in {f[j] : j \in 1..i}
    <3>1. PICK j \in 1..q : d = f[j]
      BY <1>0
    <3>2. j \in 1..i
      BY <1>2, <2>1, <3>1
    <3> QED BY <3>1, <3>2
  <2>2. ASSUME NEW j \in 1..i PROVE f[j] \in E /\ f[j] <= f[i]
    BY <1>0, <1>2
  <2> QED BY <2>1, <2>2
<1>5. ASSUME NEW i \in 1..q
      PROVE  Nth(E, i) = f[i]
  <2>1. ASSUME NEW j \in 1..q PROVE Rank(E, f[j]) = j
    <3>1. {d \in E : d <= f[j]} = {f[x] : x \in 1..j}
      BY <1>4
    <3>2. Cardinality({f[x] : x \in 1..j}) = j
      BY <1>1
    <3> QED BY <3>1, <3>2 DEF Rank
  <2>2. f[i] \in E /\ \A e \in E : Rank(E, e) = i => e = f[i]
    BY <1>0, <2>1
  <2> QED BY <2>1, <2>2 DEF Nth
<1>6. ASSUME NEW i \in 1..q
      PROVE  Max({0} \cup {d \in E : d < f[i]}) = IF i = 1 THEN 0 ELSE f[i - 1]
  <2> DEFINE S == {0} \cup {d \in E : d < f[i]}
             top == IF i = 1 THEN 0 ELSE f[i - 1]
  <2>1. top \in S
    <3>1. i # 1 => i - 1 \in 1..q /\ f[i - 1] < f[i]
      BY <1>2
    <3> QED BY <1>0, <3>1
  <2>2. ASSUME NEW d \in S PROVE d \in Nat /\ d <= top
    <3>1. CASE d = 0
      BY <1>2, <3>1
    <3>2. CASE d # 0
      <4>1. PICK j \in 1..q : d = f[j] /\ f[j] < f[i]
        BY <1>0, <3>2
      <4>2. j < i /\ i - 1 \in 1..q
        BY <1>2, <4>1
      <4> QED BY <1>2, <4>1, <4>2
    <3> QED BY <3>1, <3>2
  <2> HIDE DEF S, top
  <2>3. \A x \in S : (\A d \in S : x >= d) => x = top
    BY <2>1, <2>2
  <2>4. Max(S) = top
    BY <2>1, <2>2, <2>3 DEF Max
  <2> QED BY <2>4 DEF S, top
<1>7. Max({0} \cup E) = IF q = 0 THEN 0 ELSE f[q]
  <2> DEFINE S == {0} \cup E
             top == IF q = 0 THEN 0 ELSE f[q]
  <2>1. top \in S
    BY <1>0
  <2>2. ASSUME NEW d \in S PROVE d \in Nat /\ d <= top
    <3>1. CASE d = 0
      BY <1>2, <3>1
    <3>2. CASE d # 0
      <4>1. PICK j \in 1..q : d = f[j]
        BY <1>0, <3>2
      <4> QED BY <1>2, <4>1
    <3> QED BY <3>1, <3>2
  <2> HIDE DEF S, top
  <2>3. \A x \in S : (\A d \in S : x >= d) => x = top
    BY <2>1, <2>2
  <2>4. Max(S) = top
    BY <2>1, <2>2, <2>3 DEF Max
  <2> QED BY <2>4 DEF S, top
<1> QED BY <1>3, <1>5, <1>6, <1>7 DEF InOrder, LastBefore, LastOf, E

\* A line ends behind the one before it, by its content and its break.
LEMMA LineStep ==
  ASSUME NEW br, NEW bytes, NEW ends, NEW line, NEW top, Ruled(br, bytes, ends, line, top), NEW m \in 1..top
  PROVE  LET w == IF line[m] = "blank" THEN 0 ELSE 1 IN
         /\ m - 1 \in 0..top /\ m \in 0..top /\ ends[m - 1] \in Nat /\ ends[m] \in Nat /\ ends[m] <= Len(bytes)
         /\ ends[m] = ends[m - 1] + w + Len(br) /\ Len(br) \in 1..2
         /\ line[m] # "blank" => bytes[ends[m - 1] + 1] = line[m]
         /\ br = <<"n">> => Len(br) = 1 /\ bytes[ends[m]] = "n"
         /\ br = <<"r">> => Len(br) = 1 /\ bytes[ends[m]] = "r"
         /\ br = <<"r", "n">> => Len(br) = 2 /\ bytes[ends[m]] = "n" /\ bytes[ends[m] - 1] = "r"
<1> DEFINE w == IF line[m] = "blank" THEN 0 ELSE 1
<1>1. m - 1 \in 0..top /\ m \in 0..top /\ ends[m - 1] \in Nat /\ ends[m] \in Nat /\ ends[m] <= Len(bytes)
  BY DEF Ruled
<1>2. LineAt(br, bytes, ends, line, m) /\ br \in LineBreaks
  BY DEF Ruled
<1>3. ends[m] = ends[m - 1] + w + Len(br)
  BY <1>2 DEF LineAt, Width
<1>4. line[m] # "blank" => bytes[ends[m - 1] + 1] = line[m]
  BY <1>2 DEF LineAt
<1>5. br = <<"n">> \/ br = <<"r">> \/ br = <<"r", "n">>
  BY <1>2 DEF LineBreaks
<1>6. CASE br = <<"n">>
  <2>1. Len(br) = 1 /\ br[1] = "n" /\ br # <<"r">> /\ br # <<"r", "n">>
    BY <1>6
  <2>2. bytes[ends[m] - 1 + 1] = "n"
    BY <1>2, <2>1 DEF LineAt
  <2> QED BY <1>1, <1>3, <1>4, <2>1, <2>2
<1>7. CASE br = <<"r">>
  <2>1. Len(br) = 1 /\ br[1] = "r" /\ br # <<"n">> /\ br # <<"r", "n">>
    BY <1>7
  <2>2. bytes[ends[m] - 1 + 1] = "r"
    BY <1>2, <2>1 DEF LineAt
  <2> QED BY <1>1, <1>3, <1>4, <2>1, <2>2
<1>8. CASE br = <<"r", "n">>
  <2>1. Len(br) = 2 /\ br[1] = "r" /\ br[2] = "n" /\ br # <<"n">> /\ br # <<"r">>
    BY <1>8
  <2>2. bytes[ends[m] - 2 + 1] = "r" /\ bytes[ends[m] - 2 + 2] = "n"
    BY <1>2, <2>1 DEF LineAt
  <2>3. ends[m] - 2 + 1 = ends[m] - 1 /\ ends[m] - 2 + 2 = ends[m]
    BY <1>1
  <2> QED BY <1>1, <1>3, <1>4, <2>1, <2>2, <2>3
<1> QED BY <1>5, <1>6, <1>7, <1>8

\* The lines end in their order.
LEMMA EndsInOrder ==
  ASSUME NEW br, NEW bytes, NEW ends, NEW line, NEW top, Ruled(br, bytes, ends, line, top),
         NEW m \in 0..top, NEW m2 \in 0..top
  PROVE  /\ ends[m] \in Nat /\ ends[m2] \in Nat
         /\ m < m2 => ends[m] < ends[m2]
         /\ m <= m2 <=> ends[m] <= ends[m2]
<1> DEFINE Wrong == {x \in 0..top : \E y \in 0..top : y < x /\ ~ ends[y] < ends[x]}
<1>1. \A x \in 0..top : ends[x] \in Nat
  BY DEF Ruled
<1>2. ASSUME Wrong # {} PROVE FALSE
  <2>1. Wrong \subseteq Nat
    BY DEF Ruled
  <2>2. PICK x \in Wrong : \A z \in Wrong : x <= z
    BY <1>2, <2>1, LeastSeq
  <2>3. PICK y \in 0..top : y < x /\ ~ ends[y] < ends[x]
    BY <2>2
  <2>4. top \in Nat /\ x \in 1..top
    BY <2>3 DEF Ruled
  <2>5. ends[x - 1] < ends[x] /\ x - 1 \in 0..top
    <3> DEFINE w == IF line[x] = "blank" THEN 0 ELSE 1
    <3>1. x - 1 \in 0..top /\ ends[x - 1] \in Nat /\ ends[x] = ends[x - 1] + w + Len(br) /\ Len(br) \in 1..2
      BY <2>4, LineStep
    <3>2. w \in {0, 1}
      OBVIOUS
    <3> DEFINE b == Len(br)
    <3>3. b \in 1..2 /\ ends[x] = ends[x - 1] + w + b
      BY <3>1
    <3> HIDE DEF w, b
    <3> QED BY <3>1, <3>2, <3>3
  <2>6. y # x - 1
    BY <2>3, <2>5
  <2>7. x - 1 \in Wrong
    BY <1>1, <2>3, <2>4, <2>5, <2>6
  <2> QED BY <2>2, <2>4, <2>7
<1>3. \A x, y \in 0..top : y < x => ends[y] < ends[x]
  BY <1>2
<1>4. (m < m2 => ends[m] < ends[m2]) /\ (m2 < m => ends[m2] < ends[m]) /\ (m = m2 => ends[m] = ends[m2])
  BY <1>3
<1>5. m \in Int /\ m2 \in Int
  BY DEF Ruled
<1> QED BY <1>1, <1>4, <1>5

\* Every byte is the content of a line, the last byte of its break or the carriage return before it.
LEMMA ByteAt ==
  ASSUME NEW br, NEW bytes, NEW ends, NEW line, NEW top, Ruled(br, bytes, ends, line, top),
         NEW p \in 1..Len(bytes)
  PROVE  \E m \in 1..top :
           /\ ends[m - 1] < p /\ p <= ends[m]
           /\ \/ p = ends[m - 1] + 1 /\ p < ends[m] /\ line[m] # "blank" /\ bytes[p] \notin {"r", "n"}
              \/ p = ends[m] /\ br # <<"r">> /\ bytes[p] = "n"
              \/ p = ends[m] /\ br = <<"r">> /\ bytes[p] = "r"
              \/ p = ends[m] - 1 /\ br = <<"r", "n">> /\ bytes[p] = "r"
<1> DEFINE Behind == {m \in 0..top : p <= ends[m]}
<1>1. top \in Nat /\ ends[0] = 0 /\ ends[top] = Len(bytes) /\ Len(bytes) \in Nat
  BY DEF Ruled
<1>2. Behind \subseteq Nat /\ top \in Behind
  BY <1>1
<1>3. PICK m \in Behind : \A x \in Behind : m <= x
  BY <1>2, LeastSeq
<1>4. m \in 1..top
  BY <1>1, <1>3
<1>5. /\ m - 1 \in 0..top /\ m - 1 \notin Behind
  BY <1>1, <1>3, <1>4
<1> DEFINE w == IF line[m] = "blank" THEN 0 ELSE 1
           b == Len(br)
           e == ends[m]
           s == ends[m - 1]
<1>6. /\ s \in Nat /\ e \in Nat /\ e = s + w + b /\ b \in 1..2
      /\ line[m] # "blank" => bytes[s + 1] = line[m]
      /\ br = <<"n">> => b = 1 /\ bytes[e] = "n"
      /\ br = <<"r">> => b = 1 /\ bytes[e] = "r"
      /\ br = <<"r", "n">> => b = 2 /\ bytes[e] = "n" /\ bytes[e - 1] = "r"
  BY <1>4, LineStep
<1>7. s < p /\ p <= e
  BY <1>3, <1>5, <1>6
<1>8. br = <<"n">> \/ br = <<"r">> \/ br = <<"r", "n">>
  BY DEF Ruled, LineBreaks
<1>9. line[m] \notin {"r", "n"}
  BY <1>4 DEF Ruled
<1>10. <<"n">> # <<"r">> /\ <<"r", "n">> # <<"r">>
  OBVIOUS
<1>11. w \in {0, 1} /\ (w = 1 => line[m] # "blank")
  OBVIOUS
<1> HIDE DEF w, b, e, s, Behind
<1>12. \/ w = 1 /\ p = s + 1
       \/ p = e
       \/ p = e - 1 /\ b = 2
  BY <1>6, <1>7, <1>11
<1>13. CASE w = 1 /\ p = s + 1
  <2>1. p < e /\ bytes[p] = line[m]
    BY <1>6, <1>11, <1>13
  <2> QED BY <1>4, <1>7, <1>9, <1>11, <1>13, <2>1 DEF e, s
<1>14. CASE p = e
  BY <1>4, <1>6, <1>7, <1>8, <1>10, <1>14 DEF e, s
<1>15. CASE p = e - 1 /\ b = 2
  <2>1. br = <<"r", "n">>
    BY <1>6, <1>8, <1>15
  <2> QED BY <1>4, <1>6, <1>7, <1>15, <2>1 DEF e, s
<1> QED BY <1>12, <1>13, <1>14, <1>15

\* Where the decoder cuts the stream: behind line k, or behind the content of the line after it.
Cut(ends, line, top, k, o) ==
  /\ k \in 0..top
  /\ \/ o = ends[k]
     \/ k < top /\ line[k + 1] # "blank" /\ o = ends[k] + 1

\* A cut is behind the lines it counts, before the others, and never inside a break of two bytes.
LEMMA CutBounds ==
  ASSUME NEW br, NEW bytes, NEW ends, NEW line, NEW top, Ruled(br, bytes, ends, line, top),
         NEW k, NEW o, Cut(ends, line, top, k, o)
  PROVE  /\ o \in 0..Len(bytes)
         /\ \A m \in 0..top : ends[m] <= o <=> m <= k
         /\ br = <<"r", "n">> => \A m \in 1..top : o # ends[m] - 1
<1>1. top \in Nat /\ k \in 0..top /\ Len(bytes) \in Nat
  BY DEF Cut, Ruled
<1>2. \A m \in 0..top : ends[m] \in Nat /\ ends[m] <= Len(bytes)
  BY DEF Ruled
<1>3. CASE o = ends[k]
  <2>1. \A m \in 0..top : ends[m] <= o <=> m <= k
    BY <1>1, <1>3, EndsInOrder
  <2>2. ASSUME br = <<"r", "n">>, NEW m \in 1..top, o = ends[m] - 1 PROVE FALSE
    <3> DEFINE w == IF line[m] = "blank" THEN 0 ELSE 1
               b == Len(br)
    <3>1. m - 1 \in 0..top /\ m \in 0..top /\ ends[m] = ends[m - 1] + w + b /\ b = 2
      <4>1. /\ m - 1 \in 0..top /\ m \in 0..top /\ ends[m] = ends[m - 1] + w + b
            /\ br = <<"r", "n">> => b = 2
        BY LineStep
      <4> QED BY <2>2, <4>1
    <3>2. w \in {0, 1}
      OBVIOUS
    <3> HIDE DEF w, b
    <3>3. ends[m - 1] <= o /\ ~ ends[m] <= o /\ ends[m - 1] # o
      BY <1>2, <2>2, <3>1, <3>2
    <3>4. m - 1 <= k /\ ~ m <= k
      BY <2>1, <3>1, <3>3
    <3>5. m - 1 = k
      BY <1>1, <3>4
    <3> QED BY <1>3, <3>3, <3>5
  <2> QED BY <1>1, <1>2, <1>3, <2>1, <2>2
<1>4. CASE k < top /\ line[k + 1] # "blank" /\ o = ends[k] + 1
  <2> DEFINE b == Len(br)
  <2>1. k + 1 \in 0..top /\ ends[k + 1] = ends[k] + 1 + b /\ b \in 1..2 /\ (br = <<"r", "n">> => b = 2)
    <3> DEFINE m == k + 1
    <3>1. m \in 1..top /\ m - 1 = k /\ line[m] # "blank"
      BY <1>1, <1>4
    <3> HIDE DEF m
    <3>2. /\ m \in 0..top /\ ends[m] = ends[m - 1] + (IF line[m] = "blank" THEN 0 ELSE 1) + b
          /\ b \in 1..2 /\ (br = <<"r", "n">> => b = 2)
      BY <3>1, LineStep
    <3>3. m \in 0..top /\ ends[m] = ends[k] + 1 + b /\ b \in 1..2 /\ (br = <<"r", "n">> => b = 2)
      BY <3>1, <3>2
    <3> QED BY <3>3 DEF m
  <2> HIDE DEF b
  <2>2. o \in Nat /\ o < ends[k + 1] /\ ends[k] < o /\ o <= Len(bytes)
    BY <1>1, <1>2, <1>4, <2>1
  <2>3. ASSUME NEW m \in 0..top PROVE ends[m] <= o <=> m <= k
    <3>1. CASE m <= k
      <4>1. ends[m] <= ends[k]
        BY <1>1, <3>1, EndsInOrder
      <4> QED BY <1>1, <1>2, <2>2, <3>1, <4>1
    <3>2. CASE ~ m <= k
      <4>1. k + 1 <= m
        BY <1>1, <3>2
      <4>2. ends[k + 1] <= ends[m]
        BY <2>1, <4>1, EndsInOrder
      <4> QED BY <1>1, <1>2, <2>1, <2>2, <3>2, <4>2
    <3> QED BY <3>1, <3>2
  <2>4. ASSUME br = <<"r", "n">>, NEW m \in 1..top, o = ends[m] - 1 PROVE FALSE
    <3> DEFINE w == IF line[m] = "blank" THEN 0 ELSE 1
               b2 == Len(br)
    <3>1. m - 1 \in 0..top /\ m \in 0..top /\ ends[m] = ends[m - 1] + w + b2 /\ b2 = 2
      <4>1. /\ m - 1 \in 0..top /\ m \in 0..top /\ ends[m] = ends[m - 1] + w + b2
            /\ br = <<"r", "n">> => b2 = 2
        BY LineStep
      <4> QED BY <2>4, <4>1
    <3>2. w \in {0, 1}
      OBVIOUS
    <3>3. m = k + 1 => w = 1
      BY <1>4
    <3> HIDE DEF w, b2
    <3>4. ends[m - 1] <= o /\ ~ ends[m] <= o
      BY <1>2, <2>4, <3>1, <3>2
    <3>5. m - 1 <= k /\ ~ m <= k
      BY <2>3, <3>1, <3>4
    <3>6. m - 1 = k /\ m = k + 1
      BY <1>1, <3>5
    <3> QED BY <1>1, <1>2, <1>4, <2>4, <3>1, <3>3, <3>6
  <2> QED BY <1>1, <2>2, <2>3, <2>4
<1> QED BY <1>3, <1>4 DEF Cut

\* The decoder keeps back a carriage return, so it never cuts between it and what follows.
LEMMA CutThere ==
  ASSUME NEW br, NEW bytes, NEW ends, NEW line, NEW top, Ruled(br, bytes, ends, line, top),
         NEW a \in 0..Len(bytes)
  PROVE  \E k : Cut(ends, line, top, k, IF a > 0 /\ bytes[a] = "r" THEN a - 1 ELSE a)
<1>1. top \in Nat /\ Len(bytes) \in Nat /\ ends[0] = 0
  BY DEF Ruled
<1>2. CASE a = 0
  <2>1. Cut(ends, line, top, 0, 0)
    BY <1>1 DEF Cut
  <2> QED BY <1>2, <2>1
<1>3. CASE a # 0
  <2>1. PICK m \in 1..top :
           /\ ends[m - 1] < a /\ a <= ends[m]
           /\ \/ a = ends[m - 1] + 1 /\ a < ends[m] /\ line[m] # "blank" /\ bytes[a] \notin {"r", "n"}
              \/ a = ends[m] /\ br # <<"r">> /\ bytes[a] = "n"
              \/ a = ends[m] /\ br = <<"r">> /\ bytes[a] = "r"
              \/ a = ends[m] - 1 /\ br = <<"r", "n">> /\ bytes[a] = "r"
    BY <1>1, <1>3, ByteAt
  <2> DEFINE w == IF line[m] = "blank" THEN 0 ELSE 1
             b == Len(br)
  <2>2. /\ ends[m - 1] \in Nat /\ ends[m] = ends[m - 1] + w + b
        /\ br = <<"r">> => b = 1
        /\ br = <<"r", "n">> => b = 2
    BY LineStep
  <2>3. w \in {0, 1} /\ (w = 1 => line[m] # "blank")
    OBVIOUS
  <2>4. m \in 0..top /\ m - 1 \in 0..top /\ m - 1 < top /\ m - 1 + 1 = m
    BY <1>1
  <2> HIDE DEF w, b
  <2>5. CASE a = ends[m - 1] + 1 /\ line[m] # "blank" /\ bytes[a] # "r"
    <3>1. Cut(ends, line, top, m - 1, a)
      BY <2>4, <2>5 DEF Cut
    <3> QED BY <2>5, <3>1
  <2>6. CASE a = ends[m] /\ bytes[a] = "n"
    <3>1. Cut(ends, line, top, m, a)
      BY <2>4, <2>6 DEF Cut
    <3> QED BY <2>6, <3>1
  <2>7. CASE bytes[a] = "r" /\ a - 1 = ends[m - 1] + w
    <3>1. Cut(ends, line, top, m - 1, a - 1)
      BY <2>2, <2>3, <2>4, <2>7 DEF Cut
    <3> QED BY <1>1, <1>3, <2>7, <3>1
  <2>9. a = ends[m] /\ br = <<"r">> => a - 1 = ends[m - 1] + w
    BY <1>1, <2>2, <2>3
  <2>10. a = ends[m] - 1 /\ br = <<"r", "n">> => a - 1 = ends[m - 1] + w
    BY <1>1, <2>2, <2>3
  <2> QED BY <2>1, <2>5, <2>6, <2>7, <2>9, <2>10
<1> QED BY <1>2, <1>3

\* A line as the decoder gives it.
Content(c) == IF c = "blank" THEN <<>> ELSE <<c>>

\* The piece of the stream between two cuts.
Between(bytes, o, o2) == SubSeq(bytes, o + 1, o2)

\* The line ends that splitlines finds in a piece of the stream are those of the stream.
LEMMA TextEnds ==
  ASSUME NEW br, NEW bytes, NEW ends, NEW line, NEW top, Ruled(br, bytes, ends, line, top),
         NEW k, NEW o, Cut(ends, line, top, k, o),
         NEW k2, NEW o2, Cut(ends, line, top, k2, o2), o <= o2,
         NEW t, t = Between(bytes, o, o2)
  PROVE  /\ k <= k2 /\ k \in 0..top /\ k2 \in 0..top
         /\ o \in Nat /\ o2 \in Nat /\ o2 <= Len(bytes)
         /\ t \in Seq(Byte) /\ Len(t) = o2 - o
         /\ \A x \in 1..o2 - o : t[x] = bytes[o + x]
         /\ LineEnds(t) = {ends[k + i] - o : i \in 1..k2 - k}
<1>1. /\ o \in 0..Len(bytes) /\ o2 \in 0..Len(bytes) /\ Len(bytes) \in Nat
      /\ \A m \in 0..top : (ends[m] <= o <=> m <= k) /\ (ends[m] <= o2 <=> m <= k2)
      /\ br = <<"r", "n">> => \A m \in 1..top : o2 # ends[m] - 1
  <2>1. o \in 0..Len(bytes) /\ \A m \in 0..top : ends[m] <= o <=> m <= k
    BY CutBounds
  <2>2. /\ o2 \in 0..Len(bytes) /\ \A m \in 0..top : ends[m] <= o2 <=> m <= k2
        /\ br = <<"r", "n">> => \A m \in 1..top : o2 # ends[m] - 1
    BY CutBounds
  <2>3. Len(bytes) \in Nat
    BY DEF Ruled
  <2> QED BY <2>1, <2>2, <2>3
<1>2. /\ top \in Nat /\ k \in 0..top /\ k2 \in 0..top /\ bytes \in Seq(Byte)
      /\ \A m \in 0..top : ends[m] \in Nat
  BY DEF Cut, Ruled
<1>3. k <= k2
  <2>1. ends[k] <= o
    BY <1>1, <1>2
  <2>2. ends[k] <= o2
    BY <1>1, <1>2, <2>1
  <2> QED BY <1>1, <1>2, <2>2
<1>4. /\ t \in Seq(Byte) /\ Len(t) = o2 - o
      /\ \A x \in 1..o2 - o : t[x] = bytes[o + x]
  <2> DEFINE u == SubSeq(bytes, o + 1, o2)
  <2>1. /\ u \in Seq(Byte) /\ Len(u) = o2 - o
        /\ \A x \in 1..o2 - o : u[x] = bytes[o + x]
    BY <1>1, <1>2, SubSeqProperties
  <2>2. t = u
    BY DEF Between
  <2> HIDE DEF u
  <2> QED BY <2>1, <2>2
<1>5. DOMAIN t = 1..o2 - o
  BY <1>4
<1>6. ASSUME NEW x \in LineEnds(t) PROVE \E i \in 1..k2 - k : x = ends[k + i] - o
  <2>1. x \in 1..o2 - o /\ (t[x] = "n" \/ (t[x] = "r" /\ (x = o2 - o \/ t[x + 1] # "n")))
    BY <1>4, <1>5 DEF LineEnds
  <2> DEFINE p == o + x
  <2>2. p \in 1..Len(bytes) /\ p <= o2 /\ o < p
    BY <1>1, <2>1
  <2>3. bytes[p] = "n" \/ (bytes[p] = "r" /\ (p = o2 \/ bytes[p + 1] # "n"))
    <3>1. t[x] = bytes[p]
      BY <1>4, <2>1
    <3>2. x # o2 - o => p # o2 /\ t[x + 1] = bytes[o + (x + 1)] /\ o + (x + 1) = p + 1
      BY <1>1, <1>4, <2>1
    <3>3. x = o2 - o => p = o2
      BY <1>1
    <3> QED BY <2>1, <3>1, <3>2, <3>3
  <2> HIDE DEF p
  <2>4. PICK m \in 1..top :
           /\ ends[m - 1] < p /\ p <= ends[m]
           /\ \/ p = ends[m - 1] + 1 /\ p < ends[m] /\ line[m] # "blank" /\ bytes[p] \notin {"r", "n"}
              \/ p = ends[m] /\ br # <<"r">> /\ bytes[p] = "n"
              \/ p = ends[m] /\ br = <<"r">> /\ bytes[p] = "r"
              \/ p = ends[m] - 1 /\ br = <<"r", "n">> /\ bytes[p] = "r"
    BY <2>2, ByteAt
  <2>5. p = ends[m]
    <3>1. CASE p = ends[m] - 1 /\ br = <<"r", "n">> /\ bytes[p] = "r"
      <4>1. p # o2
        BY <1>1, <3>1
      <4>2. bytes[ends[m]] = "n"
        BY <3>1, LineStep
      <4>3. p + 1 = ends[m]
        BY <1>2, <3>1
      <4> QED BY <2>3, <3>1, <4>1, <4>2, <4>3
    <3> QED BY <2>3, <2>4, <3>1
  <2>6. m \in 0..top /\ ~ m <= k /\ m <= k2
    BY <1>1, <1>2, <2>2, <2>5
  <2>7. m - k \in 1..k2 - k /\ k + (m - k) = m /\ x = ends[m] - o
    BY <1>1, <1>2, <2>1, <2>5, <2>6 DEF p
  <2> QED BY <2>7
<1>7. ASSUME NEW i \in 1..k2 - k PROVE ends[k + i] - o \in LineEnds(t)
  <2> DEFINE m == k + i
             x == ends[m] - o
  <2>1. m \in 1..top /\ m \in 0..top /\ ~ m <= k /\ m <= k2
    BY <1>2, <1>3
  <2> HIDE DEF m
  <2>2. ends[m] <= o2 /\ ~ ends[m] <= o /\ ends[m] \in Nat
    BY <1>1, <1>2, <2>1
  <2>3. x \in 1..o2 - o /\ o + x = ends[m] /\ ends[m] \in 1..Len(bytes)
    BY <1>1, <2>2
  <2> HIDE DEF x
  <2>4. t[x] = bytes[ends[m]]
    BY <1>4, <2>3
  <2>5. br = <<"n">> \/ br = <<"r">> \/ br = <<"r", "n">>
    BY DEF Ruled, LineBreaks
  <2>6. CASE br = <<"n">> \/ br = <<"r", "n">>
    <3>1. bytes[ends[m]] = "n"
      BY <2>1, <2>6, LineStep
    <3> QED BY <1>5, <2>3, <2>4, <3>1 DEF LineEnds, m, x
  <2>7. CASE br = <<"r">>
    <3>1. bytes[ends[m]] = "r"
      BY <2>1, <2>7, LineStep
    <3>2. ASSUME x # Len(t) PROVE t[x + 1] # "n"
      <4>1. x + 1 \in 1..o2 - o /\ o + (x + 1) \in 1..Len(bytes)
        BY <1>1, <1>4, <2>3, <3>2
      <4>2. t[x + 1] = bytes[o + (x + 1)]
        BY <1>4, <4>1
      <4>3. bytes[o + (x + 1)] # "n"
        <5> DEFINE y == o + (x + 1)
        <5>1. y \in 1..Len(bytes)
          BY <4>1
        <5> HIDE DEF y
        <5>2. bytes[y] # "n"
          BY <2>7, <5>1, ByteAt
        <5> QED BY <5>2 DEF y
      <4> QED BY <4>2, <4>3
    <3> QED BY <1>5, <2>3, <2>4, <3>1, <3>2 DEF LineEnds, m, x
  <2> QED BY <2>5, <2>6, <2>7
<1>8. LineEnds(t) = {ends[k + i] - o : i \in 1..k2 - k}
  BY <1>6, <1>7
<1>9. o \in Nat /\ o2 \in Nat /\ o2 <= Len(bytes)
  BY <1>1
<1> QED BY <1>2, <1>3, <1>4, <1>8, <1>9

\* The content of a line, taken out of the bytes.
LEMMA Piece ==
  ASSUME NEW t \in Seq(Byte), NEW s \in Nat \ {0}, NEW w \in {0, 1}, s + w - 1 <= Len(t)
  PROVE  SubSeq(t, s, s + w - 1) = IF w = 0 THEN <<>> ELSE <<t[s]>>
<1>1. CASE w = 0
  BY <1>1
<1>2. CASE w = 1
  <2>1. s + w - 1 = s /\ s \in 1..Len(t) /\ t[s] \in Byte
    BY <1>2
  <2> DEFINE p == SubSeq(t, s, s)
             v == <<t[s]>>
  <2>2. p \in Seq(Byte) /\ Len(p) = 1 /\ p[1] = t[s]
    BY <2>1
  <2>3. v \in Seq(Byte) /\ Len(v) = 1 /\ v[1] = t[s]
    BY <2>1
  <2> HIDE DEF p, v
  <2>4. p = v
    BY <2>2, <2>3
  <2> QED BY <1>2, <2>1, <2>4 DEF p, v
<1> QED BY <1>1, <1>2

\* The lines that splitlines finds in a piece of the stream are those of the stream, but for
\* the content of the first one where the buffer has it, and what is left is the content of a
\* line that has not ended.
LEMMA TextLines ==
  ASSUME NEW br, NEW bytes, NEW ends, NEW line, NEW top, Ruled(br, bytes, ends, line, top),
         NEW k, NEW o, Cut(ends, line, top, k, o),
         NEW k2, NEW o2, Cut(ends, line, top, k2, o2), o <= o2,
         NEW t, t = Between(bytes, o, o2)
  PROVE  /\ Complete(t) = [i \in 1..k2 - k |-> IF i = 1 /\ o # ends[k] THEN <<>> ELSE Content(line[k + i])]
         /\ k2 # k => Rest(t) = IF o2 = ends[k2] THEN <<>> ELSE Content(line[k2 + 1])
         /\ k2 = k => t = IF o = o2 THEN <<>> ELSE Content(line[k + 1])
         /\ k2 = k /\ o # o2 => o = ends[k]
<1> DEFINE q == k2 - k
           f == [i \in 1..q |-> ends[k + i] - o]
           E == LineEnds(t)
<1>0. /\ k <= k2 /\ k \in 0..top /\ k2 \in 0..top
      /\ o \in Nat /\ o2 \in Nat /\ o2 <= Len(bytes)
      /\ t \in Seq(Byte) /\ Len(t) = o2 - o
      /\ \A x \in 1..o2 - o : t[x] = bytes[o + x]
      /\ E = {ends[k + i] - o : i \in 1..q}
  <2> HIDE DEF f
  <2> QED BY TextEnds
<1>1. /\ k <= k2 /\ k \in 0..top /\ k2 \in 0..top
      /\ o \in Nat /\ o2 \in Nat /\ o2 <= Len(bytes)
      /\ Len(t) = o2 - o
  BY <1>0
<1>o. o \in Nat /\ o2 \in Nat
  BY <1>0
<1>k. k \in Nat /\ k2 \in Nat /\ q \in Nat /\ k2 = k + q /\ top \in Nat /\ k2 <= top
  <2>1. top \in Nat
    BY DEF Ruled
  <2> QED BY <1>0, <2>1
<1>t. /\ t \in Seq(Byte)
      /\ \A x \in 1..o2 - o : t[x] = bytes[o + x]
  BY <1>0
<1>e. E = {ends[k + i] - o : i \in 1..q}
  BY <1>0
<1>a. \A m \in 0..top : ends[m] \in Nat
  BY DEF Ruled
<1>2. /\ top \in Nat
      /\ br = <<"n">> \/ br = <<"r">> \/ br = <<"r", "n">>
      /\ line \in [1..top -> {"v", "e", "d", "c", "blank"}]
  BY DEF Ruled, LineBreaks
<1>3. /\ \A m \in 0..top : ends[m] <= o <=> m <= k
      /\ \A m \in 0..top : ends[m] <= o2 <=> m <= k2
  <2>1. \A m \in 0..top : ends[m] <= o <=> m <= k
    BY CutBounds
  <2>2. \A m \in 0..top : ends[m] <= o2 <=> m <= k2
    BY CutBounds
  <2> QED BY <2>1, <2>2
<1>4. q \in Nat /\ k \in Nat /\ k2 = k + q
  BY <1>1, <1>2
<1>5. /\ o = ends[k] \/ (k < top /\ line[k + 1] # "blank" /\ o = ends[k] + 1)
      /\ o2 = ends[k2] \/ (k2 < top /\ line[k2 + 1] # "blank" /\ o2 = ends[k2] + 1)
  BY DEF Cut
<1> HIDE DEF q, E
<1>6. ASSUME NEW i \in 1..q, NEW m, m = k + i
      PROVE  /\ m \in 1..top /\ m \in 0..top /\ m - 1 \in 0..top
             /\ ends[m] \in Nat /\ o < ends[m] /\ ends[m] <= o2
  <2>1. m \in 1..top /\ m \in 0..top /\ m - 1 \in 0..top /\ ~ m <= k /\ m <= k2
    BY <1>6, <1>k
  <2>2. ends[m] \in Nat /\ ~ ends[m] <= o /\ ends[m] <= o2
    BY <1>a, <1>3, <2>1
  <2>3. o < ends[m]
    BY <1>1, <2>2
  <2> QED BY <2>1, <2>2, <2>3
<1>7. f \in [1..q -> Nat \ {0}] /\ E = {f[i] : i \in 1..q}
  <2>1. \A i \in 1..q : ends[k + i] - o \in Nat \ {0}
    BY <1>1, <1>6
  <2> QED BY <1>e, <2>1
<1>8. \A i \in 1..q : \A j \in 1..q : i < j => f[i] < f[j]
  <2> SUFFICES ASSUME NEW i \in 1..q, NEW j \in 1..q, i < j PROVE f[i] < f[j]
    OBVIOUS
  <2>1. k + i \in 0..top /\ k + j \in 0..top /\ k + i < k + j
    BY <1>4, <1>6
  <2>2. ends[k + i] < ends[k + j]
    BY <2>1, EndsInOrder
  <2>3. ends[k + i] \in Nat /\ ends[k + j] \in Nat
    BY <1>6
  <2> QED BY <1>1, <2>2, <2>3
<1>9. \A i \in 1..q : f[i] = ends[k + i] - o
  OBVIOUS
<1> HIDE DEF f
<1>10. /\ Cardinality(E) = q
       /\ \A i \in 1..q :
            /\ Nth(E, i) = f[i]
            /\ LastBefore(E, f[i]) = IF i = 1 THEN 0 ELSE f[i - 1]
       /\ LastOf(E) = IF q = 0 THEN 0 ELSE f[q]
  <2>1. q \in Nat
    BY <1>4
  <2>2. E = FirstOf(f, q) /\ f \in [1..q -> Nat \ {0}]
    BY <1>7 DEF FirstOf
  <2>3. InOrder(FirstOf(f, q), q, f)
    BY <1>8, <2>1, <2>2, Ranked
  <2> QED BY <2>2, <2>3 DEF InOrder
<1>11. ASSUME NEW i \in 1..q
       PROVE  Line(t, f[i]) = IF i = 1 /\ o # ends[k] THEN <<>> ELSE Content(line[k + i])
  <2> DEFINE m == k + i
             e == f[i]
             before == IF i = 1 THEN 0 ELSE f[i - 1]
             w == IF (i = 1 /\ o # ends[k]) \/ line[m] = "blank" THEN 0 ELSE 1
             b == Len(br)
             whole == IF line[m] = "blank" THEN 0 ELSE 1
  <2>1. e = ends[m] - o /\ m \in 1..top /\ m \in 0..top /\ m - 1 \in 0..top
        /\ e \in 1..o2 - o /\ ends[m] \in Nat /\ ends[m - 1] \in Nat /\ t[e] = bytes[ends[m]]
    <3>1. e = ends[m] - o /\ m \in 1..top /\ m \in 0..top /\ m - 1 \in 0..top
      <4>1. e = ends[m] - o
        BY <1>9
      <4> HIDE DEF e
      <4> QED BY <1>6, <4>1
    <3>2. ends[m] \in Nat /\ o < ends[m] /\ ends[m] <= o2 /\ ends[m - 1] \in Nat
      BY <1>a, <1>6, <3>1
    <3> HIDE DEF m, e
    <3>3. e \in 1..o2 - o /\ o + e = ends[m]
      BY <1>1, <3>1, <3>2
    <3> QED BY <1>t, <3>1, <3>2, <3>3
  <2>2. /\ ends[m] = ends[m - 1] + whole + b
        /\ line[m] # "blank" => bytes[ends[m - 1] + 1] = line[m]
        /\ br = <<"n">> => b = 1 /\ bytes[ends[m]] = "n"
        /\ br = <<"r">> => b = 1 /\ bytes[ends[m]] = "r"
        /\ br = <<"r", "n">> => b = 2 /\ bytes[ends[m]] = "n" /\ bytes[ends[m] - 1] = "r"
    <3> HIDE DEF m
    <3> QED BY <2>1, LineStep
  <2>3. before \in Nat /\ LastBefore(E, e) = before
    <3>1. i # 1 => i - 1 \in 1..q
      BY <1>4
    <3> QED BY <1>7, <1>10, <3>1
  <2>4. e = before + w + b /\ w \in {0, 1} /\ (w = 1 => o + before = ends[m - 1])
    <3>1. CASE i # 1
      <4>1. i - 1 \in 1..q /\ k + (i - 1) = m - 1
        BY <1>4, <3>1
      <4>2. before = ends[m - 1] - o /\ w = whole
        BY <1>9, <3>1, <4>1
      <4>3. whole \in {0, 1}
        OBVIOUS
      <4> HIDE DEF m, e, before, w, b, whole
      <4>4. e = ends[m] - o /\ ends[m] \in Nat /\ ends[m - 1] \in Nat /\ ends[m] = ends[m - 1] + whole + b
        BY <2>1, <2>2
      <4>5. b \in {1, 2}
        BY <1>2, <2>2
      <4> QED BY <1>o, <4>2, <4>3, <4>4, <4>5
    <3>2. CASE i = 1
      <4>1. m - 1 = k /\ before = 0 /\ m = k + 1
        BY <1>4, <3>2
      <4>2. whole \in {0, 1}
        OBVIOUS
      <4>3. CASE o = ends[k]
        <5>1. w = whole
          BY <4>3
        <5> HIDE DEF m, e, before, w, b, whole
        <5>2. e = ends[m] - o /\ ends[m] \in Nat /\ ends[m - 1] \in Nat /\ ends[m] = ends[m - 1] + whole + b
          BY <2>1, <2>2
        <5>3. b \in {1, 2} /\ o = ends[m - 1]
          BY <1>2, <2>2, <4>1, <4>3
        <5> QED BY <1>o, <4>1, <4>2, <5>1, <5>2, <5>3
      <4>4. CASE o # ends[k]
        <5>1. w = 0 /\ whole = 1 /\ o = ends[k] + 1
          BY <1>5, <3>2, <4>4, <4>1
        <5> HIDE DEF m, e, before, w, b, whole
        <5>2. e = ends[m] - o /\ ends[m] \in Nat /\ ends[m - 1] \in Nat /\ ends[m] = ends[m - 1] + whole + b
          BY <2>1, <2>2
        <5>3. b \in {1, 2} /\ o = ends[m - 1] + 1
          BY <1>2, <2>2, <4>1, <5>1
        <5> QED BY <1>o, <4>1, <5>1, <5>2, <5>3
      <4> QED BY <4>3, <4>4
    <3> QED BY <3>1, <3>2
  <2>5. b \in 1..2 /\ (w = 1 => t[before + 1] = line[m])
    <3>1. w = 1 => line[m] # "blank"
      OBVIOUS
    <3> HIDE DEF m, e, before, w, b, whole
    <3>2. b \in 1..2
      BY <1>2, <2>2
    <3>3. before \in Nat /\ e \in 1..o2 - o /\ ends[m - 1] \in Nat
      BY <2>1, <2>3
    <3>4. w = 1 => before + 1 \in 1..o2 - o /\ o + (before + 1) = ends[m - 1] + 1
      BY <1>1, <2>4, <3>2, <3>3
    <3> QED BY <1>t, <2>2, <3>1, <3>2, <3>4
  <2>6. (IF t[e] = "n" /\ e > before + 1 /\ t[e - 1] = "r" THEN e - 2 ELSE e - 1) = before + 1 + w - 1
    <3> HIDE DEF m, e, before, w, b, whole
    <3>0. before \in Nat /\ e \in 1..o2 - o /\ e = ends[m] - o /\ ends[m] \in Nat
          /\ e = before + w + b /\ w \in {0, 1}
      BY <2>1, <2>3, <2>4
    <3>1. CASE br = <<"r", "n">>
      <4>1. b = 2 /\ t[e] = "n"
        BY <2>1, <2>2, <3>1
      <4>2. e > before + 1
        BY <3>0, <4>1
      <4>3. e - 1 \in 1..o2 - o /\ o + (e - 1) = ends[m] - 1
        BY <1>o, <3>0, <4>2
      <4>4. t[e - 1] = "r"
        BY <1>t, <2>2, <3>1, <4>3
      <4> QED BY <3>0, <4>1, <4>2, <4>4
    <3>2. CASE br = <<"r">>
      <4>1. b = 1 /\ t[e] # "n"
        BY <2>1, <2>2, <3>2
      <4> QED BY <3>0, <4>1
    <3>3. CASE br = <<"n">>
      <4>1. b = 1
        BY <2>2, <3>3
      <4>2. ASSUME e > before + 1 PROVE t[e - 1] # "r"
        <5> DEFINE y == o + (e - 1)
        <5>1. e - 1 \in 1..o2 - o /\ y \in 1..Len(bytes)
          <6>1. Len(bytes) \in Nat
            BY DEF Ruled
          <6>2. o2 <= Len(bytes)
            BY <1>1
          <6> QED BY <1>o, <3>0, <4>2, <6>1, <6>2
        <5>2. t[e - 1] = bytes[y]
          BY <1>t, <5>1
        <5> HIDE DEF y
        <5>3. <<"n">> # <<"r">> /\ <<"n">> # <<"r", "n">>
          OBVIOUS
        <5> QED BY <3>3, <5>1, <5>2, <5>3, ByteAt
      <4> QED BY <3>0, <4>1, <4>2
    <3> QED BY <1>2, <3>1, <3>2, <3>3
  <2>7. Line(t, e) = SubSeq(t, before + 1, before + 1 + w - 1)
    <3> HIDE DEF m, e, before, w
    <3> QED BY <2>3, <2>6 DEF Line, LastBefore, E
  <2>8. SubSeq(t, before + 1, before + 1 + w - 1) = IF w = 0 THEN <<>> ELSE <<t[before + 1]>>
    <3> HIDE DEF m, e, before, w, b
    <3>0. before \in Nat /\ e \in 1..o2 - o /\ e = before + w + b /\ w \in {0, 1} /\ b \in 1..2
      BY <2>1, <2>3, <2>4, <2>5
    <3>1. before + 1 \in Nat \ {0} /\ before + 1 + w - 1 <= Len(t)
      BY <1>1, <3>0
    <3> QED BY <1>t, <2>4, <3>1, Piece
  <2>9. Line(t, e) = IF w = 0 THEN <<>> ELSE <<line[m]>>
    <3> HIDE DEF m, e, before, w, b
    <3> QED BY <2>4, <2>5, <2>7, <2>8
  <2> QED BY <2>9 DEF Content
<1>12. Complete(t) = [i \in 1..q |-> IF i = 1 /\ o # ends[k] THEN <<>> ELSE Content(line[k + i])]
  <2> DEFINE g == [i \in 1..q |-> IF i = 1 /\ o # ends[k] THEN <<>> ELSE Content(line[k + i])]
  <2>1. Complete(t) = [i \in 1..Cardinality(E) |-> Line(t, Nth(E, i))]
    BY DEF Complete, Nth, Rank, E
  <2>2. Complete(t) = [i \in 1..q |-> Line(t, Nth(E, i))]
    BY <1>10, <2>1
  <2>3. \A i \in 1..q : Line(t, Nth(E, i)) = IF i = 1 /\ o # ends[k] THEN <<>> ELSE Content(line[k + i])
    BY <1>10, <1>11
  <2> QED BY <2>2, <2>3
<1>13. ASSUME k2 # k PROVE Rest(t) = IF o2 = ends[k2] THEN <<>> ELSE Content(line[k2 + 1])
  <2>1. q \in 1..q /\ q # 0 /\ k + q = k2
    BY <1>1, <1>4, <1>13
  <2>2. LastOf(E) = ends[k2] - o /\ ends[k2] \in Nat /\ o < ends[k2] /\ ends[k2] <= o2
    BY <1>6, <1>9, <1>10, <2>1
  <2> DEFINE s == ends[k2] - o + 1
             w == IF o2 = ends[k2] THEN 0 ELSE 1
  <2>3. Rest(t) = SubSeq(t, s, Len(t))
    BY <2>2 DEF Rest, LastOf, E
  <2>4. s \in Nat \ {0} /\ Len(t) = s + w - 1 /\ s + w - 1 <= Len(t) /\ w \in {0, 1}
    BY <1>1, <1>5, <2>2
  <2>5. w = 1 => t[s] = line[k2 + 1] /\ line[k2 + 1] # "blank"
    <3> SUFFICES ASSUME w = 1 PROVE t[s] = line[k2 + 1] /\ line[k2 + 1] # "blank"
      OBVIOUS
    <3>1. k2 + 1 \in 1..top /\ line[k2 + 1] # "blank" /\ o2 = ends[k2] + 1
      BY <1>1, <1>2, <1>5
    <3>2. bytes[ends[k2] + 1] = line[k2 + 1]
      <4> DEFINE m == k2 + 1
      <4>1. m \in 1..top /\ m - 1 = k2 /\ line[m] # "blank"
        BY <1>1, <1>2, <3>1
      <4> HIDE DEF m
      <4>2. bytes[ends[m - 1] + 1] = line[m]
        BY <4>1, LineStep
      <4> QED BY <4>1, <4>2 DEF m
    <3>3. s \in 1..o2 - o /\ o + s = ends[k2] + 1
      BY <1>o, <2>2, <3>1
    <3> QED BY <1>t, <3>1, <3>2, <3>3
  <2>6. SubSeq(t, s, s + w - 1) = IF w = 0 THEN <<>> ELSE <<t[s]>>
    <3> HIDE DEF s, w
    <3> QED BY <1>t, <2>4, Piece
  <2> HIDE DEF s
  <2> QED BY <2>3, <2>4, <2>5, <2>6 DEF Content
<1>14. ASSUME k2 = k PROVE /\ t = IF o = o2 THEN <<>> ELSE Content(line[k + 1])
                           /\ o # o2 => o = ends[k]
  <2>1. o2 = o \/ (o = ends[k] /\ o2 = ends[k] + 1 /\ k < top /\ line[k + 1] # "blank")
    BY <1>1, <1>2, <1>5, <1>14
  <2>2. CASE o2 = o
    <3>1. Len(t) = 0 /\ t \in Seq(Byte)
      BY <1>1, <1>t, <2>2
    <3> QED BY <2>2, <3>1
  <2>3. CASE o = ends[k] /\ o2 = ends[k] + 1 /\ k < top /\ line[k + 1] # "blank"
    <3> DEFINE m == k + 1
    <3>1. m \in 1..top /\ m - 1 = k /\ line[m] # "blank"
      BY <1>1, <1>2, <2>3
    <3> HIDE DEF m
    <3>2. bytes[ends[m - 1] + 1] = line[m]
      BY <3>1, LineStep
    <3>3. Len(t) = 1 /\ t[1] = line[m] /\ line[m] \in Byte
      <4>1. o + 1 = ends[m - 1] + 1 /\ 1 \in 1..o2 - o /\ o2 - o = 1
        <5>1. ends[k] \in Nat
          BY <1>1, <1>a
        <5> QED BY <1>1, <2>3, <3>1, <5>1
      <4>2. t[1] = line[m]
        BY <1>t, <3>2, <4>1
      <4> QED BY <1>1, <1>2, <3>1, <4>1, <4>2 DEF Byte
    <3>4. t = <<line[m]>>
      BY <1>t, <3>3
    <3>5. o # o2
      <4>1. ends[k] \in Nat
        BY <1>1, <1>a
      <4> QED BY <1>1, <2>3, <4>1
    <3> QED BY <2>3, <3>1, <3>4, <3>5 DEF Content, m
  <2> QED BY <2>1, <2>2, <2>3
<1> QED BY <1>12, <1>13, <1>14 DEF q

\* What the buffer holds at a cut.
Held(ends, line, k, o) == IF o = ends[k] THEN <<>> ELSE Content(line[k + 1])

\* The decoder gives the lines that end in a piece of the stream, and keeps the one that does not.
LEMMA LinesGiven ==
  ASSUME NEW br, NEW bytes, NEW ends, NEW line, NEW top, Ruled(br, bytes, ends, line, top),
         NEW k, NEW o, Cut(ends, line, top, k, o),
         NEW k2, NEW o2, Cut(ends, line, top, k2, o2), o <= o2,
         NEW t, t = Between(bytes, o, o2),
         buffer = Held(ends, line, k, o)
  PROVE  /\ k \in 0..top /\ k2 \in 0..top /\ k <= k2
         /\ Lines(t) \in Seq(Seq(Byte)) /\ Len(Lines(t)) = k2 - k
         /\ \A i \in 1..k2 - k : Lines(t)[i] = Content(line[k + i])
         /\ Buffered(t) = Held(ends, line, k2, o2)
<1> DEFINE q == k2 - k
           lines == Complete(t)
<1>1. /\ k <= k2 /\ k \in 0..top /\ k2 \in 0..top /\ t \in Seq(Byte)
  BY TextEnds
<1>2. /\ lines = [i \in 1..q |-> IF i = 1 /\ o # ends[k] THEN <<>> ELSE Content(line[k + i])]
      /\ k2 # k => Rest(t) = IF o2 = ends[k2] THEN <<>> ELSE Content(line[k2 + 1])
      /\ k2 = k => t = IF o = o2 THEN <<>> ELSE Content(line[k + 1])
      /\ k2 = k /\ o # o2 => o = ends[k]
  BY TextLines
<1>k. top \in Nat /\ k \in Nat /\ k2 \in Nat /\ q \in Nat
  <2>1. top \in Nat
    BY DEF Ruled
  <2> QED BY <1>1, <2>1
<1>3. \A m \in 1..top : Content(line[m]) \in Seq(Byte)
  <2> TAKE m \in 1..top
  <2>1. line[m] \in {"v", "e", "d", "c", "blank"}
    BY DEF Ruled
  <2>2. CASE line[m] = "blank"
    BY <2>2 DEF Content
  <2>3. CASE line[m] # "blank"
    <3>1. line[m] \in Byte /\ Content(line[m]) = <<line[m]>>
      BY <2>1, <2>3 DEF Content, Byte
    <3> DEFINE c == line[m]
    <3>2. c \in Byte
      BY <3>1
    <3> HIDE DEF c
    <3>3. <<c>> \in Seq(Byte)
      BY <3>2
    <3> QED BY <3>1, <3>3 DEF c
  <2> QED BY <2>2, <2>3
<1>4. buffer \in Seq(Byte)
  <2>1. CASE o = ends[k]
    BY <2>1 DEF Held
  <2>2. CASE o # ends[k]
    <3>1. k + 1 \in 1..top
      BY <1>k, <2>2 DEF Cut
    <3> QED BY <1>3, <2>2, <3>1 DEF Held
  <2> QED BY <2>1, <2>2
<1> HIDE DEF lines
<1>5. CASE k2 = k
  <2>1. q = 0 /\ lines = <<>>
    BY <1>2, <1>k, <1>5
  <2>2. Lines(t) = <<>> /\ Buffered(t) = buffer \o t
    BY <2>1 DEF Lines, Buffered, lines
  <2>3. CASE o = o2
    <3>1. t = <<>>
      BY <1>2, <1>5, <2>3
    <3>2. buffer \o t = buffer
      BY <1>4, <3>1
    <3> QED BY <1>1, <1>5, <2>1, <2>2, <2>3, <3>2
  <2>4. CASE o # o2
    <3>1. t = Content(line[k + 1]) /\ o = ends[k] /\ buffer = <<>>
      BY <1>2, <1>5, <2>4 DEF Held
    <3>2. buffer \o t = t
      BY <1>1, <3>1
    <3>3. Held(ends, line, k2, o2) = Content(line[k + 1])
      BY <1>5, <2>4, <3>1 DEF Held
    <3> QED BY <1>1, <1>5, <2>1, <2>2, <3>1, <3>2, <3>3
  <2> QED BY <2>3, <2>4
<1>6. CASE k2 # k
  <2>1. q \in Nat \ {0} /\ q >= 1 /\ 1 \in 1..q
    BY <1>1, <1>k, <1>6
  <2>2. \A i \in 1..q : lines[i] = (IF i = 1 /\ o # ends[k] THEN <<>> ELSE Content(line[k + i])) /\ lines[i] \in Seq(Byte)
    <3> TAKE i \in 1..q
    <3>1. k + i \in 1..top
      BY <1>1, <1>k
    <3>2. lines[i] = IF i = 1 /\ o # ends[k] THEN <<>> ELSE Content(line[k + i])
      BY <1>2
    <3>3. Content(line[k + i]) \in Seq(Byte)
      BY <1>3, <3>1
    <3> QED BY <3>2, <3>3
  <2>3. lines \in Seq(Seq(Byte)) /\ Len(lines) = q /\ lines # <<>>
    <3>1. lines \in [1..q -> Seq(Byte)]
      <4>1. lines = [i \in 1..q |-> lines[i]]
        BY <1>2
      <4> QED BY <2>2, <4>1
    <3> HIDE DEF q
    <3> QED BY <2>1, <3>1
  <2> DEFINE first == buffer \o lines[1]
  <2>4. first = Content(line[k + 1])
    <3>1. CASE o = ends[k]
      <4>1. buffer = <<>> /\ lines[1] = Content(line[k + 1])
        BY <2>1, <2>2, <3>1 DEF Held
      <4> QED BY <2>1, <2>2, <4>1
    <3>2. CASE o # ends[k]
      <4>1. buffer = Content(line[k + 1]) /\ lines[1] = <<>>
        BY <2>1, <2>2, <3>2 DEF Held
      <4> QED BY <1>4, <4>1
    <3> QED BY <3>1, <3>2
  <2>5. Lines(t) = <<first>> \o Tail(lines) /\ Buffered(t) = Rest(t)
    <3>1. Head(lines) = lines[1]
      BY <2>3
    <3> QED BY <2>3, <3>1 DEF Lines, Buffered, lines
  <2> DEFINE u == <<first>>
             r == Tail(lines)
  <2>6. u \in Seq(Seq(Byte)) /\ Len(u) = 1 /\ u[1] = first
    <3>1. first \in Seq(Byte)
      <4>1. k + 1 \in 1..top
        BY <1>1, <1>k, <1>6
      <4> QED BY <1>3, <2>4, <4>1
    <3> HIDE DEF first
    <3> QED BY <3>1
  <2> HIDE DEF q
  <2>7. r \in Seq(Seq(Byte)) /\ Len(r) = q - 1 /\ \A i \in 1..q - 1 : r[i] = lines[i + 1]
    BY <2>1, <2>3
  <2> HIDE DEF u, r, first
  <2>8. u \o r \in Seq(Seq(Byte)) /\ Len(u \o r) = q
    <3>1. u \o r \in Seq(Seq(Byte)) /\ Len(u \o r) = Len(u) + Len(r)
      BY <2>6, <2>7, Chained
    <3> QED BY <2>1, <2>6, <2>7, <3>1
  <2>j. /\ \A i \in 1..Len(u) : (u \o r)[i] = u[i]
        /\ \A i \in 1..Len(r) : (u \o r)[Len(u) + i] = r[i]
    <3> DEFINE S == Seq(Byte)
    <3>1. u \in Seq(S) /\ r \in Seq(S)
      BY <2>6, <2>7
    <3> HIDE DEF S
    <3> QED BY ONLY <3>1, Chained
  <2>9. ASSUME NEW i \in 1..q PROVE (u \o r)[i] = Content(line[k + i])
    <3>1. CASE i = 1
      <4>1. (u \o r)[1] = u[1]
        BY <2>j, <2>6
      <4> QED BY <2>4, <2>6, <3>1, <4>1
    <3>2. CASE i # 1
      <4>1. (u \o r)[i] = r[i - 1]
        <5>1. i - 1 \in 1..Len(r) /\ Len(u) + (i - 1) = i
          BY <2>1, <2>6, <2>7, <3>2
        <5>2. (u \o r)[Len(u) + (i - 1)] = r[i - 1]
          BY <2>j, <5>1
        <5> QED BY <5>1, <5>2
      <4>2. i - 1 \in 1..q - 1 /\ i - 1 + 1 = i
        BY <2>1, <3>2
      <4>3. r[i - 1] = lines[i]
        BY <2>7, <4>2
      <4> QED BY <2>2, <3>2, <4>1, <4>3
    <3> QED BY <3>1, <3>2
  <2>10. Buffered(t) = Held(ends, line, k2, o2)
    BY <1>2, <1>6, <2>5 DEF Held
  <2>11. Lines(t) = u \o r
    BY <2>5 DEF u, r
  <2> QED BY <1>1, <2>8, <2>9, <2>10, <2>11 DEF q
<1> QED BY <1>5, <1>6

\* What the decoder does with one more line.
WithLine(state, line) == IF state.stream = "error" THEN state ELSE Decoded(state, line)

\* The lines are decoded one after the other.
LEMMA Folded ==
  ASSUME NEW lines, Len(lines) \in Nat
  PROVE  \E after : /\ after[0] = [sse |-> sse, yielded |-> yielded, stream |-> stream]
                    /\ \A i \in 1..Len(lines) : after[i] = WithLine(after[i - 1], lines[i])
                    /\ Consumed(lines) = after[Len(lines)]
<1> DEFINE n == Len(lines)
           start == [sse |-> sse, yielded |-> yielded, stream |-> stream]
           Good(g, k) == g = [i \in 0..k |-> IF i = 0 THEN start ELSE WithLine(g[i - 1], lines[i])]
           Missing == {k \in 0..n : ~ \E g : Good(g, k)}
           F(f) == f = [i \in 0..Len(lines) |->
                          IF i = 0 THEN [sse |-> sse, yielded |-> yielded, stream |-> stream]
                          ELSE IF f[i - 1].stream = "error" THEN f[i - 1] ELSE Decoded(f[i - 1], lines[i])]
           after == CHOOSE f : F(f)
<1>0. Consumed(lines) = after[n]
  BY DEF Consumed
<1>f. \A f : F(f) <=> Good(f, n)
  BY DEF WithLine
<1> HIDE DEF F, start, n
<1>1. ASSUME NEW k \in 0..n, k = 0 \/ \E g : Good(g, k - 1) PROVE \E g : Good(g, k)
  <2>1. CASE k = 0
    <3> DEFINE g == [i \in 0..k |-> start]
    <3>1. Good(g, k)
      BY <2>1
    <3> QED BY <3>1
  <2>2. CASE k # 0
    <3>1. PICK g : Good(g, k - 1)
      BY <1>1, <2>2
    <3>2. k \in Nat /\ k - 1 \in 0..k - 1 /\ 0..k - 1 \subseteq 0..k
      BY <2>2
    <3> DEFINE g2 == [i \in 0..k |-> IF i = k THEN WithLine(g[k - 1], lines[k]) ELSE g[i]]
    <3>3. g2[k] = WithLine(g[k - 1], lines[k]) /\ \A i \in 0..k - 1 : g2[i] = g[i]
      BY <3>2
    <3>4. g2 = [i \in 0..k |-> g2[i]]
      OBVIOUS
    <3> HIDE DEF g2
    <3>5. ASSUME NEW i \in 0..k PROVE g2[i] = IF i = 0 THEN start ELSE WithLine(g2[i - 1], lines[i])
      <4>1. CASE i = k
        BY <2>2, <3>2, <3>3, <4>1
      <4>2. CASE i # k
        <5>1. i \in 0..k - 1 /\ (i # 0 => i - 1 \in 0..k - 1)
          BY <3>2, <4>2
        <5>2. g[i] = IF i = 0 THEN start ELSE WithLine(g[i - 1], lines[i])
          BY <3>1, <5>1
        <5> QED BY <3>3, <5>1, <5>2
      <4> QED BY <4>1, <4>2
    <3>6. Good(g2, k)
      BY <3>4, <3>5
    <3> QED BY <3>6
  <2> QED BY <2>1, <2>2
<1>n. n \in Nat
  BY DEF n
<1>2. ASSUME Missing # {} PROVE FALSE
  <2> HIDE DEF Good
  <2>1. Missing \subseteq Nat
    BY <1>n
  <2>2. PICK k \in Missing : \A j \in Missing : k <= j
    BY <1>2, <2>1, LeastSeq
  <2>3. k \in 0..n /\ (k # 0 => k - 1 \in 0..n /\ ~ k <= k - 1)
    BY <1>n
  <2>4. k = 0 \/ \E g : Good(g, k - 1)
    BY <2>2, <2>3
  <2> QED BY <1>1, <2>2, <2>3, <2>4
<1>3. \E g : F(g)
  <2>1. n \in 0..n
    BY <1>n
  <2> HIDE DEF Good
  <2> QED BY <1>2, <1>f, <2>1
<1>4. F(after)
  BY <1>3
<1>5. Good(after, n)
  BY <1>4, <1>f
<1> HIDE DEF after
<1>6. after[0] = start
  BY <1>5, <1>n
<1>7. \A i \in 1..n : after[i] = WithLine(after[i - 1], lines[i])
  BY <1>5, <1>n
<1> QED BY <1>0, <1>6, <1>7 DEF start, n

\* The parts among the first j frames, and how many they are.
PartsAt(frames, j) == {x \in 1..j : frames[x] = "part"}
Count(frames, j) == Cardinality(PartsAt(frames, j))
PartsTo(frames, j) == [i \in 1..Count(frames, j) |-> "data"]

\* The number of parts grows with the frames.
LEMMA Counted ==
  ASSUME NEW frames, NEW j \in Nat
  PROVE  /\ IsFiniteSet(PartsAt(frames, j)) /\ Count(frames, j) \in Nat
         /\ Count(frames, 0) = 0
         /\ Count(frames, j + 1) = IF frames[j + 1] = "part" THEN Count(frames, j) + 1 ELSE Count(frames, j)
         /\ \A m \in Nat : j <= m => Count(frames, j) <= Count(frames, m)
<1>1. ASSUME NEW m \in Nat PROVE IsFiniteSet(PartsAt(frames, m)) /\ Count(frames, m) \in Nat
  <2>1. IsFiniteSet(1..m)
    BY FS_Interval
  <2>2. PartsAt(frames, m) \in SUBSET (1..m)
    BY DEF PartsAt
  <2>3. IsFiniteSet(PartsAt(frames, m))
    BY <2>1, <2>2, FS_Subset
  <2> QED BY <2>3, FS_CardinalityType DEF Count
<1>2. Count(frames, 0) = 0
  <2>1. PartsAt(frames, 0) = {}
    BY DEF PartsAt
  <2> QED BY <2>1, FS_EmptySet DEF Count
<1>3. ASSUME frames[j + 1] = "part" PROVE Count(frames, j + 1) = Count(frames, j) + 1
  <2>1. PartsAt(frames, j + 1) = PartsAt(frames, j) \cup {j + 1} /\ j + 1 \notin PartsAt(frames, j)
    BY <1>3 DEF PartsAt
  <2> QED BY <1>1, <2>1, FS_AddElement DEF Count
<1>4. ASSUME frames[j + 1] # "part" PROVE Count(frames, j + 1) = Count(frames, j)
  <2>1. PartsAt(frames, j + 1) = PartsAt(frames, j)
    BY <1>4 DEF PartsAt
  <2> QED BY <2>1 DEF Count
<1>5. ASSUME NEW m \in Nat, j <= m PROVE Count(frames, j) <= Count(frames, m)
  <2>1. PartsAt(frames, j) \in SUBSET PartsAt(frames, m)
    BY <1>5 DEF PartsAt
  <2> QED BY <1>1, <2>1, FS_Subset DEF Count
<1> QED BY <1>1, <1>2, <1>3, <1>4, <1>5

\* A part adds to the parts, another frame does not.
LEMMA PartsStep ==
  ASSUME NEW frames, NEW j \in Nat
  PROVE  PartsTo(frames, j + 1) = IF frames[j + 1] = "part" THEN Append(PartsTo(frames, j), "data")
                                  ELSE PartsTo(frames, j)
<1>1. Count(frames, j) \in Nat
  BY Counted
<1>2. Count(frames, j + 1) = IF frames[j + 1] = "part" THEN Count(frames, j) + 1 ELSE Count(frames, j)
  BY Counted
<1>3. CASE frames[j + 1] # "part"
  BY <1>2, <1>3 DEF PartsTo
<1>4. CASE frames[j + 1] = "part"
  <2> DEFINE c == Count(frames, j)
             p == [i \in 1..c |-> "data"]
             p2 == [i \in 1..c + 1 |-> "data"]
  <2> HIDE DEF c
  <2>1. c \in Nat
    BY <1>1 DEF c
  <2>2. p \in Seq({"data"}) /\ Len(p) = c /\ \A i \in 1..c : p[i] = "data"
    BY <2>1
  <2>3. Append(p, "data") = p2
    BY <2>1, <2>2
  <2> QED BY <1>2, <1>4, <2>3 DEF PartsTo, c
<1> QED BY <1>3, <1>4

\* The parts of the first frames, in the words of the property.
LEMMA PartsWhole ==
  ASSUME NEW frames \in Seq(Frames), NEW j \in 0..Len(frames)
  PROVE  /\ PartsTo(frames, 0) = <<>>
         /\ Parts(frames) = PartsTo(frames, Len(frames))
         /\ Parts(SubSeq(frames, 1, j)) = PartsTo(frames, j)
         /\ IsPrefix(PartsTo(frames, j), Parts(frames))
<1>1. PartsTo(frames, 0) = <<>>
  <2>1. Count(frames, 0) = 0
    BY Counted
  <2> QED BY <2>1 DEF PartsTo
<1>2. Parts(frames) = PartsTo(frames, Len(frames))
  <2>1. DOMAIN frames = 1..Len(frames)
    OBVIOUS
  <2>2. {x \in DOMAIN frames : frames[x] = "part"} = PartsAt(frames, Len(frames))
    BY <2>1 DEF PartsAt
  <2> QED BY <2>2 DEF Parts, PartsTo, Count
<1>3. Parts(SubSeq(frames, 1, j)) = PartsTo(frames, j)
  <2> DEFINE s == SubSeq(frames, 1, j)
  <2>1. DOMAIN s = 1..j /\ \A i \in 1..j : s[i] = frames[i]
    <3>1. s \in Seq(Frames) /\ Len(s) = j /\ \A i \in 1..j : s[i] = frames[i]
      BY SubSeqProperties
    <3> HIDE DEF s
    <3> QED BY <3>1
  <2> HIDE DEF s
  <2>2. {x \in DOMAIN s : s[x] = "part"} = PartsAt(frames, j)
    BY <2>1 DEF PartsAt
  <2>3. Parts(s) = PartsTo(frames, j)
    BY <2>2 DEF Parts, PartsTo, Count
  <2> QED BY <2>3 DEF s
<1>4. IsPrefix(PartsTo(frames, j), PartsTo(frames, Len(frames)))
  <2> DEFINE c == Count(frames, j)
             d == Count(frames, Len(frames))
             p == PartsTo(frames, j)
             w == PartsTo(frames, Len(frames))
  <2>1. c \in Nat /\ d \in Nat /\ c <= d
    BY Counted
  <2>2. p = [i \in 1..c |-> "data"] /\ w = [i \in 1..d |-> "data"]
    BY DEF PartsTo
  <2> HIDE DEF c, d, p, w
  <2>3. p \in Seq({"data"}) /\ Len(p) = c /\ w \in Seq({"data"}) /\ Len(w) = d
    BY <2>1, <2>2
  <2> DEFINE a == SubSeq(p, 1, Len(p))
             b == SubSeq(w, 1, Len(p))
  <2>4. a \in Seq({"data"}) /\ b \in Seq({"data"}) /\ Len(a) = c /\ Len(b) = c
    BY <2>1, <2>3
  <2>5. a = b
    <3> HIDE DEF a, b
    <3>1. \A i \in 1..c : a[i] = "data" /\ b[i] = "data"
      BY <2>4
    <3> QED BY <2>1, <2>4, <3>1
  <2> HIDE DEF a, b
  <2>6. IsPrefix(p, w)
    BY <2>1, <2>3, <2>5 DEF IsPrefix, a, b
  <2> QED BY <2>6 DEF p, w
<1> QED BY <1>1, <1>2, <1>3, <1>4

\* The decoder's state when j frames have been read and the event of the next one is e, its data d.
ReadState(frames, j, e, d) ==
  [sse |-> [event |-> e, data |-> d], yielded |-> PartsTo(frames, j), stream |-> "open"]

\* The event of a frame, and that no error is among the first frames.
Named(frame) == IF frame = "error" THEN "error" ELSE "event"
ErrorFree(frames, j) == \A x \in 1..j : frames[x] # "error"

\* After k lines, where the first error has not been dispatched, and where it has.
ReadsAt(frames, base, k, state, j) ==
  /\ j \in 0..Len(frames) /\ ErrorFree(frames, j)
  /\ \/ k = base[j] /\ state = ReadState(frames, j, "none", "None")
     \/ /\ j < Len(frames) /\ frames[j + 1] # "heartbeat"
        /\ \/ k = base[j] + 1 /\ state = ReadState(frames, j, Named(frames[j + 1]), "None")
           \/ k = base[j] + 2 /\ state = ReadState(frames, j, Named(frames[j + 1]), "data")

Reads(frames, base, k, state) == \E j : ReadsAt(frames, base, k, state, j)

Raised(frames, state) ==
  \E j : /\ j \in 0..Len(frames) /\ j < Len(frames) /\ ErrorFree(frames, j) /\ frames[j + 1] = "error"
         /\ state.stream = "error" /\ state.yielded = PartsTo(frames, j)

\* What one line makes of the state in which the decoder reads.
LEMMA StateDecoded ==
  ASSUME NEW frames, NEW j, NEW e, NEW d
  PROVE  LET state == ReadState(frames, j, e, d) IN
         /\ state.stream = "open" /\ state.yielded = PartsTo(frames, j)
         /\ Decoded(state, <<"e">>) = ReadState(frames, j, "error", d)
         /\ Decoded(state, <<"v">>) = ReadState(frames, j, "event", d)
         /\ Decoded(state, <<"d">>) = ReadState(frames, j, e, "data")
         /\ Decoded(state, <<"c">>) = state
         /\ e = "error" => /\ Decoded(state, <<>>).stream = "error"
                           /\ Decoded(state, <<>>).yielded = PartsTo(frames, j)
         /\ e = "event" => Decoded(state, <<>>) =
              [sse |-> NoEvent, yielded |-> Append(PartsTo(frames, j), d), stream |-> "open"]
<1> DEFINE state == ReadState(frames, j, e, d)
<1>1. state.stream = "open" /\ state.yielded = PartsTo(frames, j) /\ state.sse = [event |-> e, data |-> d]
  BY DEF ReadState
<1>2. \A c : <<c>> # <<>> /\ Head(<<c>>) = c
  OBVIOUS
<1>3. Decoded(state, <<"e">>) = ReadState(frames, j, "error", d)
  <2>1. Decoded(state, <<"e">>) = [state EXCEPT !.sse.event = "error"]
    BY <1>2 DEF Decoded
  <2> QED BY <2>1 DEF ReadState
<1>4. Decoded(state, <<"v">>) = ReadState(frames, j, "event", d)
  <2>1. Decoded(state, <<"v">>) = [state EXCEPT !.sse.event = "event"]
    BY <1>2 DEF Decoded
  <2> QED BY <2>1 DEF ReadState
<1>5. Decoded(state, <<"d">>) = ReadState(frames, j, e, "data")
  <2>1. Decoded(state, <<"d">>) = [state EXCEPT !.sse.data = "data"]
    BY <1>2 DEF Decoded
  <2> QED BY <2>1 DEF ReadState
<1>6. Decoded(state, <<"c">>) = state
  BY <1>2 DEF Decoded
<1>7. ASSUME e \in {"error", "event"} PROVE state.sse # NoEvent /\ state.sse.event = e
  BY <1>1, <1>7 DEF NoEvent
<1>8. ASSUME e = "error"
      PROVE  Decoded(state, <<>>).stream = "error" /\ Decoded(state, <<>>).yielded = PartsTo(frames, j)
  <2>1. Decoded(state, <<>>) = [state EXCEPT !.stream = "error"]
    BY <1>7, <1>8 DEF Decoded, Dispatched
  <2> QED BY <1>1, <2>1 DEF ReadState
<1>9. ASSUME e = "event"
      PROVE  Decoded(state, <<>>) =
               [sse |-> NoEvent, yielded |-> Append(PartsTo(frames, j), d), stream |-> "open"]
  <2>1. Decoded(state, <<>>) = [state EXCEPT !.yielded = Append(@, state.sse.data), !.sse = NoEvent]
    BY <1>7, <1>9 DEF Decoded, Dispatched
  <2> QED BY <1>1, <2>1 DEF ReadState
<1> QED BY <1>1, <1>3, <1>4, <1>5, <1>6, <1>8, <1>9

\* One more line.
LEMMA ReadsOn ==
  ASSUME NEW frames, NEW br, NEW bytes, NEW base, NEW ends, NEW line,
         LaidOut(frames, br, bytes, base, ends, line),
         NEW k, k < base[Len(frames)], NEW state, Reads(frames, base, k, state)
  PROVE  LET next == Decoded(state, Content(line[k + 1])) IN
         Reads(frames, base, k + 1, next) \/ Raised(frames, next)
<1> DEFINE n == Len(frames)
           next == Decoded(state, Content(line[k + 1]))
<1>1. PICK j : ReadsAt(frames, base, k, state, j)
  BY DEF Reads
<1>2. /\ frames \in Seq(Frames) /\ n \in Nat /\ j \in 0..n /\ ErrorFree(frames, j)
      /\ base \in [0..n -> Nat]
      /\ \A i \in 1..n : FrameAt(frames[i], base, line, i)
  BY <1>1 DEF LaidOut, ReadsAt
<1>3. j < n
  <2>1. j # n
    <3>1. ~ j < n => k = base[j]
      BY <1>1 DEF ReadsAt
    <3>2. base[n] \in Nat
      BY <1>2
    <3> QED BY <1>2, <3>1, <3>2
  <2> QED BY <1>2, <2>1
<1> DEFINE f == frames[j + 1]
           b == base[j]
<1>4. j + 1 \in 1..n /\ j + 1 \in 0..n /\ f \in Frames /\ b \in Nat /\ j \in Nat
  BY <1>2, <1>3
<1>5. /\ base[j + 1] = b + Height(f) /\ line[b + 1] = Lead(f)
      /\ f # "heartbeat" => line[b + 2] = "d" /\ line[b + 3] = "blank"
  <2>1. FrameAt(f, base, line, j + 1)
    BY <1>2, <1>4
  <2>2. (j + 1) - 1 = j
    BY <1>4
  <2> HIDE DEF f
  <2>3. /\ base[j + 1] = base[j] + Height(f) /\ line[base[j] + 1] = Lead(f)
        /\ f # "heartbeat" => line[base[j] + 2] = "d" /\ line[base[j] + 3] = "blank"
    <3>1. /\ base[j + 1] = base[(j + 1) - 1] + Height(f) /\ line[base[(j + 1) - 1] + 1] = Lead(f)
          /\ f # "heartbeat" => line[base[(j + 1) - 1] + 2] = "d" /\ line[base[(j + 1) - 1] + 3] = "blank"
      BY <2>1 DEF FrameAt
    <3> QED BY <2>2, <3>1
  <2> QED BY <2>3
<1>6. /\ \/ k = b /\ state = ReadState(frames, j, "none", "None")
         \/ f # "heartbeat" /\ k = b + 1 /\ state = ReadState(frames, j, Named(f), "None")
         \/ f # "heartbeat" /\ k = b + 2 /\ state = ReadState(frames, j, Named(f), "data")
  BY <1>1 DEF ReadsAt
<1>7. f # "error" => ErrorFree(frames, j + 1)
  BY <1>2, <1>4 DEF ErrorFree
<1>8. CASE k = b /\ state = ReadState(frames, j, "none", "None")
  <2>1. CASE f = "heartbeat"
    <3>1. Content(line[k + 1]) = <<"c">> /\ base[j + 1] = k + 1
      BY <1>4, <1>5, <1>8, <2>1 DEF Content, Lead, Height
    <3>2. next = ReadState(frames, j, "none", "None")
      BY <1>8, <3>1, StateDecoded
    <3>3. PartsTo(frames, j + 1) = PartsTo(frames, j)
      BY <1>4, <2>1, PartsStep
    <3>4. next = ReadState(frames, j + 1, "none", "None")
      BY <3>2, <3>3 DEF ReadState
    <3>5. ReadsAt(frames, base, k + 1, next, j + 1)
      BY <1>4, <1>7, <2>1, <3>1, <3>4 DEF ReadsAt
    <3> QED BY <3>5 DEF Reads
  <2>2. CASE f # "heartbeat"
    <3>1. Content(line[k + 1]) = IF f = "error" THEN <<"e">> ELSE <<"v">>
      BY <1>4, <1>5, <1>8, <2>2 DEF Content, Lead, Frames
    <3>2. next = ReadState(frames, j, Named(f), "None")
      BY <1>8, <3>1, StateDecoded DEF Named
    <3>3. ReadsAt(frames, base, k + 1, next, j)
      BY <1>2, <1>3, <1>8, <2>2, <3>2 DEF ReadsAt
    <3> QED BY <3>3 DEF Reads
  <2> QED BY <2>1, <2>2
<1>9. CASE f # "heartbeat" /\ k = b + 1 /\ state = ReadState(frames, j, Named(f), "None")
  <2>1. Content(line[k + 1]) = <<"d">> /\ k + 1 = b + 2
    <3>1. k + 1 = b + 2
      BY <1>4, <1>9
    <3> QED BY <1>5, <1>9, <3>1 DEF Content
  <2>2. next = ReadState(frames, j, Named(f), "data")
    BY <1>9, <2>1, StateDecoded
  <2>3. ReadsAt(frames, base, k + 1, next, j)
    BY <1>2, <1>3, <1>9, <2>1, <2>2 DEF ReadsAt
  <2> QED BY <2>3 DEF Reads
<1>10. CASE f # "heartbeat" /\ k = b + 2 /\ state = ReadState(frames, j, Named(f), "data")
  <2>1. Content(line[k + 1]) = <<>> /\ k + 1 = base[j + 1]
    <3>1. k + 1 = b + 3
      BY <1>4, <1>10
    <3> QED BY <1>5, <1>10, <3>1 DEF Content, Height
  <2>2. CASE f = "error"
    <3>1. next.stream = "error" /\ next.yielded = PartsTo(frames, j)
      BY <1>10, <2>1, <2>2, StateDecoded DEF Named
    <3> QED BY <1>2, <1>3, <2>2, <3>1 DEF Raised
  <2>3. CASE f # "error"
    <3>1. f = "part"
      BY <1>4, <1>10, <2>3 DEF Frames
    <3>2. next = [sse |-> NoEvent, yielded |-> Append(PartsTo(frames, j), "data"), stream |-> "open"]
      BY <1>10, <2>1, <2>3, StateDecoded DEF Named
    <3>3. PartsTo(frames, j + 1) = Append(PartsTo(frames, j), "data")
      BY <1>4, <3>1, PartsStep
    <3>4. next = ReadState(frames, j + 1, "none", "None")
      BY <3>2, <3>3 DEF ReadState, NoEvent
    <3>5. ReadsAt(frames, base, k + 1, next, j + 1)
      BY <1>4, <1>7, <2>1, <2>3, <3>4 DEF ReadsAt
    <3> QED BY <3>5 DEF Reads
  <2> QED BY <2>2, <2>3
<1> QED BY <1>6, <1>8, <1>9, <1>10

\* And as many as are given.
LEMMA ReadsThrough ==
  ASSUME NEW frames, NEW br, NEW bytes, NEW base, NEW ends, NEW line,
         LaidOut(frames, br, bytes, base, ends, line),
         NEW k \in Nat, NEW k2 \in Nat, k <= k2, k2 <= base[Len(frames)],
         NEW lines, Len(lines) = k2 - k, \A i \in 1..k2 - k : lines[i] = Content(line[k + i]),
         Reads(frames, base, k, [sse |-> sse, yielded |-> yielded, stream |-> stream])
  PROVE  Reads(frames, base, k2, Consumed(lines)) \/ Raised(frames, Consumed(lines))
<1> DEFINE q == k2 - k
           top == base[Len(frames)]
<1>1. q \in Nat /\ top \in Nat /\ k + q = k2
  BY DEF LaidOut, Ruled
<1>2. PICK after : /\ after[0] = [sse |-> sse, yielded |-> yielded, stream |-> stream]
                   /\ \A i \in 1..q : after[i] = WithLine(after[i - 1], lines[i])
                   /\ Consumed(lines) = after[q]
  BY <1>1, Folded
<1> DEFINE Good(i) == Reads(frames, base, k + i, after[i]) \/ Raised(frames, after[i])
           Wrong == {i \in 0..q : ~ Good(i)}
<1>3. Good(0)
  BY <1>2
<1>4. ASSUME NEW i \in 1..q, Good(i - 1) PROVE Good(i)
  <2>1. after[i] = WithLine(after[i - 1], lines[i]) /\ lines[i] = Content(line[k + i])
    BY <1>2
  <2>2. k + (i - 1) < top /\ k + (i - 1) + 1 = k + i
    BY <1>1
  <2>3. CASE Raised(frames, after[i - 1])
    <3>1. after[i - 1].stream = "error"
      BY <2>3 DEF Raised
    <3>2. after[i] = after[i - 1]
      BY <2>1, <3>1 DEF WithLine
    <3> QED BY <2>3, <3>2
  <2>4. CASE Reads(frames, base, k + (i - 1), after[i - 1])
    <3>1. after[i - 1].stream = "open"
      BY <2>4 DEF Reads, ReadsAt, ReadState
    <3>2. after[i] = Decoded(after[i - 1], Content(line[k + i]))
      BY <2>1, <3>1 DEF WithLine
    <3> HIDE DEF top
    <3>3. Reads(frames, base, k + (i - 1) + 1, Decoded(after[i - 1], Content(line[k + (i - 1) + 1])))
          \/ Raised(frames, Decoded(after[i - 1], Content(line[k + (i - 1) + 1])))
      BY <2>2, <2>4, ReadsOn DEF top
    <3> QED BY <2>2, <3>2, <3>3
  <2> QED BY <1>4, <2>3, <2>4
<1> HIDE DEF Good, q
<1>5. Wrong = {}
  <2> SUFFICES ASSUME Wrong # {} PROVE FALSE
    OBVIOUS
  <2>0. Wrong \subseteq Nat
    BY <1>1
  <2>1. PICK i \in Wrong : \A m \in Wrong : i <= m
    BY <2>0, LeastSeq
  <2>2. i # 0
    BY <1>3, <2>1
  <2>3. i \in 1..q /\ i - 1 \in 0..q /\ ~ i <= i - 1
    BY <1>1, <2>1, <2>2
  <2>4. Good(i - 1)
    BY <2>1, <2>3
  <2> QED BY <1>4, <2>1, <2>3, <2>4
<1>6. Good(q)
  BY <1>1, <1>5
<1> QED BY <1>1, <1>2, <1>6 DEF Good

\* The bytes between two places of the stream.
LEMMA PieceOf ==
  ASSUME NEW s \in Seq(Byte), NEW x \in Nat, NEW y \in Nat, x <= y, y <= Len(s)
  PROVE  /\ Between(s, x, y) \in Seq(Byte) /\ Len(Between(s, x, y)) = y - x
         /\ \A i \in 1..y - x : Between(s, x, y)[i] = s[x + i]
<1> DEFINE p == SubSeq(s, x + 1, y)
<1>1. p \in Seq(Byte) /\ Len(p) = y - x
  OBVIOUS
<1>2. \A i \in 1..y - x : p[i] = s[x + i]
  OBVIOUS
<1> QED BY <1>1, <1>2 DEF Between

\* Sequences with the same bytes are equal.
LEMMA SameBytes ==
  ASSUME NEW s \in Seq(Byte), NEW t \in Seq(Byte), NEW n \in Nat, Len(s) = n, Len(t) = n,
         \A i \in 1..n : s[i] = t[i]
  PROVE  s = t
OBVIOUS

\* What a chunk gives to splitlines is the stream from the last cut to the next one.
LEMMA CarriedPiece ==
  ASSUME NEW bytes \in Seq(Byte), NEW a \in 0..Len(bytes), wire = Between(bytes, a, Len(bytes)),
         trailingCr \in BOOLEAN, trailingCr => a > 0 /\ bytes[a] = "r",
         NEW n \in 1..Len(wire)
  PROVE  LET o == IF trailingCr THEN a - 1 ELSE a
             a2 == a + n
             o2 == IF bytes[a2] = "r" THEN a2 - 1 ELSE a2
             carried == Carried(SubSeq(wire, 1, n))
         IN /\ o \in Nat /\ o <= o2 /\ a2 \in 1..Len(bytes)
            /\ carried.text = Between(bytes, o, o2) /\ carried.cr = (bytes[a2] = "r")
            /\ SubSeq(wire, n + 1, Len(wire)) = Between(bytes, a2, Len(bytes))
<1> DEFINE o == IF trailingCr THEN a - 1 ELSE a
           a2 == a + n
           o2 == IF bytes[a2] = "r" THEN a2 - 1 ELSE a2
           chunk == SubSeq(wire, 1, n)
           head == IF trailingCr THEN <<"r">> ELSE <<>>
           text == head \o chunk
           M == Len(bytes)
<1>1. M \in Nat /\ a \in Nat /\ a <= M /\ M <= Len(bytes)
  OBVIOUS
<1>w. wire = Between(bytes, a, M)
  OBVIOUS
<1>2. wire \in Seq(Byte) /\ Len(wire) = M - a /\ \A i \in 1..M - a : wire[i] = bytes[a + i]
  <2> DEFINE p == Between(bytes, a, M)
  <2>1. p \in Seq(Byte) /\ Len(p) = M - a /\ \A i \in 1..M - a : p[i] = bytes[a + i]
    <3> HIDE DEF M
    <3> QED BY ONLY bytes \in Seq(Byte), <1>1, PieceOf
  <2>2. wire = p
    BY <1>w
  <2> HIDE DEF p, M
  <2> QED BY <2>1, <2>2
<1>3. n \in Nat /\ n >= 1 /\ n <= M - a /\ a2 \in 1..M
  BY <1>1, <1>2
<1>4. chunk \in Seq(Byte) /\ Len(chunk) = n /\ \A i \in 1..n : chunk[i] = bytes[a + i]
  <2>1. chunk \in Seq(Byte) /\ Len(chunk) = n /\ \A i \in 1..n : chunk[i] = wire[i]
    BY <1>2, <1>3, SubSeqProperties
  <2> QED BY <1>1, <1>2, <1>3, <2>1
<1>5. o \in Nat /\ o <= a /\ o <= o2 /\ o2 \in Nat /\ o2 <= M /\ a - o \in {0, 1} /\ (a - o = 1 <=> trailingCr)
  BY <1>1, <1>3
<1>6. head \in Seq(Byte) /\ Len(head) = a - o /\ \A i \in 1..a - o : head[i] = bytes[o + i]
  <2>1. CASE trailingCr
    <3>1. head = <<"r">> /\ a - o = 1 /\ o + 1 = a
      BY <1>1, <2>1
    <3>2. head \in Seq(Byte) /\ Len(head) = 1 /\ head[1] = "r"
      <4>1. <<"r">> \in Seq(Byte) /\ Len(<<"r">>) = 1 /\ <<"r">>[1] = "r"
        BY DEF Byte
      <4> QED BY ONLY <3>1, <4>1
    <3> QED BY <2>1, <3>1, <3>2
  <2>2. CASE ~ trailingCr
    <3>1. head = <<>> /\ a - o = 0
      BY <1>1, <2>2
    <3> QED BY <3>1
  <2> QED BY <2>1, <2>2
<1>7. SubSeq(wire, n + 1, Len(wire)) = Between(bytes, a2, M)
  <2> DEFINE s == SubSeq(wire, n + 1, Len(wire))
  <2>1. s \in Seq(Byte) /\ Len(s) = M - a - n /\ \A i \in 1..M - a - n : s[i] = wire[n + i]
    <3> DEFINE p == Between(wire, n, Len(wire))
    <3>1. /\ p \in Seq(Byte) /\ Len(p) = (M - a) - n
          /\ \A i \in 1..(M - a) - n : p[i] = wire[n + i]
      <4> DEFINE w == Len(wire)
      <4>1. wire \in Seq(Byte) /\ n \in Nat /\ w \in Nat /\ n <= w /\ w <= Len(wire) /\ w = M - a
        BY <1>1, <1>2, <1>3
      <4> HIDE DEF w
      <4>2. /\ Between(wire, n, w) \in Seq(Byte) /\ Len(Between(wire, n, w)) = w - n
            /\ \A i \in 1..w - n : Between(wire, n, w)[i] = wire[n + i]
        BY ONLY <4>1, PieceOf
      <4> QED BY <4>1, <4>2 DEF w
    <3>2. p = s /\ (M - a) - n = M - a - n
      BY <1>1, <1>3 DEF Between
    <3> HIDE DEF p, s
    <3> QED BY <3>1, <3>2
  <2> HIDE DEF s
  <2>2. \A i \in 1..M - a - n : n + i \in 1..M - a /\ a + (n + i) = a2 + i
    BY <1>1, <1>3
  <2>3. \A i \in 1..M - a - n : s[i] = bytes[a2 + i]
    <3> TAKE i \in 1..M - a - n
    <3>1. wire[n + i] = bytes[a + (n + i)]
      BY <1>2, <2>2
    <3> QED BY <2>1, <2>2, <3>1
  <2> DEFINE r == Between(bytes, a2, M)
  <2>4. r \in Seq(Byte) /\ Len(r) = M - a2 /\ \A i \in 1..M - a2 : r[i] = bytes[a2 + i]
    <3>1. a2 \in Nat /\ a2 <= M
      BY <1>1, <1>3
    <3> HIDE DEF M, a2
    <3> QED BY ONLY bytes \in Seq(Byte), <1>1, <3>1, PieceOf
  <2>5. M - a2 = M - a - n /\ M - a2 \in Nat
    BY <1>1, <1>3
  <2> HIDE DEF r, a2
  <2>6. s = r
    <3>1. \A i \in 1..M - a2 : s[i] = r[i]
      BY <2>3, <2>4, <2>5
    <3> QED BY <2>1, <2>4, <2>5, <3>1, SameBytes
  <2> QED BY <2>6 DEF s, r
<1> HIDE DEF head, chunk
<1>8. text \in Seq(Byte) /\ Len(text) = a2 - o /\ \A i \in 1..a2 - o : text[i] = bytes[o + i]
  <2>1. /\ text \in Seq(Byte) /\ Len(text) = Len(head) + Len(chunk)
        /\ \A i \in 1..Len(head) : text[i] = head[i]
        /\ \A i \in 1..Len(chunk) : text[Len(head) + i] = chunk[i]
    BY <1>4, <1>6, Joined
  <2> HIDE DEF text
  <2>2. Len(text) = a2 - o
    BY <1>1, <1>3, <1>4, <1>5, <1>6, <2>1
  <2>3. ASSUME NEW i \in 1..a2 - o PROVE text[i] = bytes[o + i]
    <3>1. CASE i \in 1..a - o
      BY <1>6, <2>1, <3>1
    <3>2. CASE i \notin 1..a - o
      <4> DEFINE x == i - (a - o)
      <4>1. x \in 1..n /\ (a - o) + x = i /\ a + x = o + i
        BY <1>1, <1>3, <1>5, <3>2
      <4> HIDE DEF x
      <4>2. text[(a - o) + x] = chunk[x]
        BY <1>4, <1>6, <2>1, <4>1
      <4>3. chunk[x] = bytes[a + x]
        BY <1>4, <4>1
      <4> QED BY <4>1, <4>2, <4>3
    <3> QED BY <3>1, <3>2
  <2> QED BY <2>1, <2>2, <2>3
<1>9. Len(text) > 0 /\ text[Len(text)] = bytes[a2]
  <2>1. a2 - o \in 1..a2 - o /\ o + (a2 - o) = a2
    BY <1>1, <1>3, <1>5
  <2>2. a2 - o > 0
    BY <1>1, <1>3, <1>5
  <2>3. Len(text) = a2 - o /\ \A i \in 1..a2 - o : text[i] = bytes[o + i]
    BY <1>8
  <2> HIDE DEF text, a2, o
  <2> QED BY ONLY <2>1, <2>2, <2>3
<1>10. Carried(chunk) = IF bytes[a2] = "r" THEN [text |-> SubSeq(text, 1, Len(text) - 1), cr |-> TRUE]
                        ELSE [text |-> text, cr |-> FALSE]
  BY <1>9 DEF Carried, head
<1>11. Carried(chunk).cr = (bytes[a2] = "r")
  <2>1. CASE bytes[a2] = "r"
    <3> DEFINE p == SubSeq(text, 1, Len(text) - 1)
    <3> HIDE DEF p
    <3>1. Carried(chunk) = [text |-> p, cr |-> TRUE]
      BY <1>10, <2>1 DEF p
    <3>2. Carried(chunk).cr = TRUE /\ (bytes[a2] = "r") = TRUE
      BY <2>1, <3>1
    <3> QED BY <3>2
  <2>2. CASE bytes[a2] # "r"
    <3>1. Carried(chunk).cr = FALSE /\ (bytes[a2] = "r") = FALSE
      BY <1>10, <2>2
    <3> QED BY <3>1
  <2> QED BY <2>1, <2>2
<1> DEFINE r == Between(bytes, o, o2)
<1>12. r \in Seq(Byte) /\ Len(r) = o2 - o /\ \A i \in 1..o2 - o : r[i] = bytes[o + i]
  BY <1>5, PieceOf
<1> HIDE DEF text, r
<1>13. Carried(chunk).text = r
  <2>1. CASE bytes[a2] = "r"
    <3> DEFINE s == SubSeq(text, 1, Len(text) - 1)
    <3>1. o2 = a2 - 1 /\ Len(text) - 1 = o2 - o /\ o2 - o \in Nat /\ o2 - o <= Len(text)
      BY <1>1, <1>3, <1>5, <1>8, <2>1
    <3>2. s \in Seq(Byte) /\ Len(s) = o2 - o /\ \A i \in 1..o2 - o : s[i] = text[i]
      <4> DEFINE p == SubSeq(text, 1, o2 - o)
      <4> HIDE DEF o, o2
      <4>1. p \in Seq(Byte) /\ Len(p) = o2 - o /\ \A i \in 1..o2 - o : p[i] = text[i]
        BY <1>8, <3>1, SubSeqProperties
      <4>2. p = s
        BY <3>1
      <4> HIDE DEF p, s
      <4> QED BY <4>1, <4>2
    <3> HIDE DEF s
    <3>3. \A i \in 1..o2 - o : s[i] = r[i]
      <4>1. \A i \in 1..o2 - o : i \in 1..a2 - o
        BY <1>1, <1>3, <1>5, <3>1
      <4> HIDE DEF o, o2, a2
      <4> QED BY <1>8, <1>12, <3>2, <4>1
    <3> HIDE DEF o, o2, a2
    <3>4. s = r
      BY <1>12, <3>1, <3>2, <3>3, SameBytes
    <3> QED BY <1>10, <2>1, <3>4 DEF s
  <2>2. CASE bytes[a2] # "r"
    <3>1. o2 = a2 /\ o2 - o \in Nat
      BY <1>5, <2>2
    <3> HIDE DEF o, o2, a2
    <3>2. text = r
      BY <1>8, <1>12, <3>1, SameBytes
    <3> QED BY <1>10, <2>2, <3>2
  <2> QED BY <2>1, <2>2
<1> QED BY <1>3, <1>5, <1>7, <1>11, <1>13 DEF r, chunk

\* What the decoder and its caller hold.
AsReceived == [sse |-> sse, yielded |-> yielded, stream |-> stream]

\* The first a bytes have arrived, of which the decoder has cut k lines; a carriage return at
\* their end is kept back.
Ready(bytes, base, ends, line, a, k) ==
  LET o == IF trailingCr THEN a - 1 ELSE a IN
  /\ a \in 0..Len(bytes) /\ wire = Between(bytes, a, Len(bytes))
  /\ trailingCr => a > 0 /\ bytes[a] = "r"
  /\ Cut(ends, line, base[Len(sent)], k, o)
  /\ buffer = Held(ends, line, k, o)
  /\ Reads(sent, base, k, AsReceived)

Listens(bytes, base, ends, line) == \E a, k : Ready(bytes, base, ends, line, a, k)

\* The bytes are those of the frames; an open stream has read some of their lines, an error is
\* the first one, and an ended stream has read all of them.
StreamInv ==
  /\ sent \in Seq(Frames) /\ trailingCr \in BOOLEAN /\ stream \in {"open", "ended", "error"}
  /\ \E br, bytes, base, ends, line :
       /\ LaidOut(sent, br, bytes, base, ends, line)
       /\ stream = "open" => Listens(bytes, base, ends, line)
  /\ stream = "error" => Raised(sent, AsReceived)
  /\ stream = "ended" => ErrorFree(sent, Len(sent)) /\ yielded = PartsTo(sent, Len(sent))

\* At first nothing has arrived.
LEMMA StreamStart == JsStreamInit => StreamInv
<1> SUFFICES ASSUME JsStreamInit PROVE StreamInv
  OBVIOUS
<1>1. sent \in Seq(Frames)
  <2>1. PICK n \in 0..MaxFrames : sent \in [1..n -> Frames]
    BY DEF JsStreamInit
  <2>2. n \in Nat
    <3>1. n \in 0..MaxFrames
      OBVIOUS
    <3> QED BY <3>1
  <2> QED BY <2>1, <2>2
<1>2. PICK br \in Breaks : wire = FlattenSeq([i \in DOMAIN sent |-> Bytes(sent[i], br)])
  BY DEF JsStreamInit
<1>3. br \in LineBreaks
  BY BreaksAssumption DEF LineBreaks
<1>4. PICK base, ends, line : LaidOut(sent, br, wire, base, ends, line)
  <2>1. \E base, ends, line :
          LaidOut(sent, br, FlattenSeq([i \in DOMAIN sent |-> Bytes(sent[i], br)]), base, ends, line)
    BY <1>1, <1>3, StreamLaidOut
  <2> QED BY <1>2, <2>1
<1> DEFINE top == base[Len(sent)]
<1>5. /\ Ruled(br, wire, ends, line, top) /\ base[0] = 0 /\ ends[0] = 0 /\ top \in Nat
      /\ wire \in Seq(Byte) /\ Len(wire) \in Nat
  BY <1>4 DEF LaidOut, Ruled
<1>6. trailingCr = FALSE /\ stream = "open" /\ buffer = <<>> /\ sse = NoEvent /\ yielded = <<>>
  BY DEF JsStreamInit
<1>7. wire = Between(wire, 0, Len(wire))
  <2> DEFINE p == Between(wire, 0, Len(wire))
             m == Len(wire)
  <2>0. m \in Nat /\ 0 \in Nat /\ 0 <= m /\ m <= Len(wire) /\ wire \in Seq(Byte)
    BY <1>5
  <2> HIDE DEF m
  <2>1. /\ Between(wire, 0, m) \in Seq(Byte) /\ Len(Between(wire, 0, m)) = m - 0
        /\ \A i \in 1..m - 0 : Between(wire, 0, m)[i] = wire[0 + i]
    BY ONLY <2>0, PieceOf
  <2>4. p = Between(wire, 0, m)
    BY DEF m
  <2> HIDE DEF p
  <2>2. p \in Seq(Byte) /\ Len(p) = m /\ \A i \in 1..m : p[i] = wire[i]
    <3>1. m - 0 = m /\ \A i \in 1..m : 0 + i = i
      BY <2>0
    <3> QED BY <2>1, <2>4, <3>1
  <2>3. p = wire
    BY <2>0, <2>2, SameBytes DEF m
  <2> QED BY <2>3 DEF p
<1>8. Reads(sent, base, 0, AsReceived)
  <2>1. PartsTo(sent, 0) = <<>>
    BY <1>1, PartsWhole
  <2>2. AsReceived = ReadState(sent, 0, "none", "None")
    BY <1>6, <2>1 DEF AsReceived, ReadState, NoEvent
  <2>3. 0 \in 0..Len(sent) /\ ErrorFree(sent, 0)
    BY <1>1 DEF ErrorFree
  <2>4. ReadsAt(sent, base, 0, AsReceived, 0)
    BY <1>5, <2>2, <2>3 DEF ReadsAt
  <2> QED BY <2>4 DEF Reads
<1>9. Ready(wire, base, ends, line, 0, 0)
  <2>1. Cut(ends, line, top, 0, 0) /\ Held(ends, line, 0, 0) = <<>>
    BY <1>5 DEF Cut, Held
  <2> QED BY <1>5, <1>6, <1>7, <1>8, <2>1 DEF Ready
<1>10. Listens(wire, base, ends, line)
  BY <1>9 DEF Listens
<1> QED BY <1>1, <1>4, <1>6, <1>10 DEF StreamInv

\* A chunk moves the cut on, over any number of lines.
LEMMA ReceiveKeeps ==
  ASSUME StreamInv, NEW n, ReceiveBytes(n)
  PROVE  StreamInv'
<1>1. stream = "open" /\ n \in 1..Len(wire) /\ sent' = sent
  BY DEF ReceiveBytes
<1>2. PICK br, bytes, base, ends, line :
        LaidOut(sent, br, bytes, base, ends, line) /\ Listens(bytes, base, ends, line)
  BY <1>1 DEF StreamInv
<1>3. PICK a, k : Ready(bytes, base, ends, line, a, k)
  BY <1>2 DEF Listens
<1> DEFINE top == base[Len(sent)]
           o == IF trailingCr THEN a - 1 ELSE a
           a2 == a + n
           o2 == IF bytes[a2] = "r" THEN a2 - 1 ELSE a2
           chunk == SubSeq(wire, 1, n)
           carried == Carried(chunk)
           text == carried.text
           state == Consumed(Lines(text))
<1>4. /\ sent \in Seq(Frames) /\ trailingCr \in BOOLEAN
      /\ Ruled(br, bytes, ends, line, top) /\ bytes \in Seq(Byte) /\ top \in Nat
  BY <1>2 DEF StreamInv, LaidOut, Ruled
<1>5. /\ a \in 0..Len(bytes) /\ wire = Between(bytes, a, Len(bytes))
      /\ trailingCr => a > 0 /\ bytes[a] = "r"
      /\ Cut(ends, line, top, k, o) /\ buffer = Held(ends, line, k, o)
      /\ Reads(sent, base, k, AsReceived)
  BY <1>3 DEF Ready
<1>6. /\ o \in Nat /\ o <= o2 /\ a2 \in 1..Len(bytes)
      /\ text = Between(bytes, o, o2) /\ carried.cr = (bytes[a2] = "r")
      /\ SubSeq(wire, n + 1, Len(wire)) = Between(bytes, a2, Len(bytes))
  <2> HIDE DEF top
  <2> QED BY ONLY <1>1, <1>4, <1>5, CarriedPiece
<1>7. PICK k2 : Cut(ends, line, top, k2, o2)
  <2>1. a2 \in 0..Len(bytes) /\ a2 > 0
    BY <1>6
  <2> HIDE DEF a2, top
  <2>2. \E k2 : Cut(ends, line, top, k2, IF a2 > 0 /\ bytes[a2] = "r" THEN a2 - 1 ELSE a2)
    BY ONLY <1>4, <2>1, CutThere
  <2> QED BY <2>1, <2>2
<1> HIDE DEF o, a2, o2, chunk, carried, top
<1> HIDE DEF text
<1>8. /\ k \in 0..top /\ k2 \in 0..top /\ k <= k2
      /\ Lines(text) \in Seq(Seq(Byte)) /\ Len(Lines(text)) = k2 - k
      /\ \A i \in 1..k2 - k : Lines(text)[i] = Content(line[k + i])
      /\ Buffered(text) = Held(ends, line, k2, o2)
  BY ONLY <1>4, <1>5, <1>6, <1>7, LinesGiven
<1>9. Reads(sent, base, k2, state) \/ Raised(sent, state)
  <2>1. /\ k \in Nat /\ k2 \in Nat /\ k <= k2 /\ k2 <= base[Len(sent)]
        /\ Reads(sent, base, k, [sse |-> sse, yielded |-> yielded, stream |-> stream])
    BY <1>4, <1>5, <1>8 DEF top, AsReceived
  <2> DEFINE lines == Lines(text)
  <2>2. Len(lines) = k2 - k /\ \A i \in 1..k2 - k : lines[i] = Content(line[k + i])
    BY <1>8
  <2> HIDE DEF lines
  <2>3. Reads(sent, base, k2, Consumed(lines)) \/ Raised(sent, Consumed(lines))
    BY ONLY <1>2, <2>1, <2>2, ReadsThrough
  <2> QED BY <2>3 DEF lines
<1>10. /\ trailingCr' = carried.cr /\ buffer' = Buffered(text)
       /\ sse' = state.sse /\ yielded' = state.yielded /\ stream' = state.stream
       /\ wire' = SubSeq(wire, n + 1, Len(wire))
  BY DEF ReceiveBytes, Consume, text, carried, chunk
<1> HIDE DEF state
<1>11. trailingCr' = (bytes[a2] = "r") /\ trailingCr' \in BOOLEAN
  BY <1>6, <1>10
<1>12. LaidOut(sent', br, bytes, base, ends, line)
  BY <1>1, <1>2
<1>13. CASE Reads(sent, base, k2, state)
  <2>1. PICK j, e, d : state = ReadState(sent, j, e, d)
    BY <1>13 DEF Reads, ReadsAt
  <2>2. stream' = "open" /\ AsReceived' = state
    BY <1>10, <2>1 DEF ReadState, AsReceived
  <2>3. o2 = IF trailingCr' THEN a2 - 1 ELSE a2
    BY <1>11 DEF o2
  <2>4. Ready(bytes, base, ends, line, a2, k2)'
    <3>1. a2 \in 0..Len(bytes) /\ a2 > 0
      BY <1>6
    <3>2. Reads(sent', base, k2, AsReceived')
      BY <1>1, <1>13, <2>2
    <3>3. Cut(ends, line, base[Len(sent')], k2, o2) /\ buffer' = Held(ends, line, k2, o2)
      BY <1>1, <1>7, <1>8, <1>10 DEF top
    <3>4. wire' = Between(bytes, a2, Len(bytes))
      BY <1>6, <1>10
    <3> QED BY <1>11, <2>3, <3>1, <3>2, <3>3, <3>4 DEF Ready
  <2>5. Listens(bytes, base, ends, line)'
    BY <2>4 DEF Listens
  <2> QED BY <1>1, <1>4, <1>11, <1>12, <2>2, <2>5 DEF StreamInv
<1>14. CASE Raised(sent, state)
  <2>1. stream' = "error" /\ Raised(sent', AsReceived')
    BY <1>1, <1>10, <1>14 DEF Raised, AsReceived
  <2> QED BY <1>1, <1>4, <1>11, <1>12, <2>1 DEF StreamInv
<1> QED BY <1>9, <1>13, <1>14

\* All the lines are those of all the frames.
LEMMA ReadAll ==
  ASSUME NEW frames, NEW br, NEW bytes, NEW base, NEW ends, NEW line,
         LaidOut(frames, br, bytes, base, ends, line),
         NEW state, Reads(frames, base, base[Len(frames)], state)
  PROVE  /\ ErrorFree(frames, Len(frames)) /\ state.yielded = PartsTo(frames, Len(frames))
         /\ state.stream = "open"
<1> DEFINE n == Len(frames)
<1>1. PICK j : ReadsAt(frames, base, base[n], state, j)
  BY DEF Reads
<1>2. /\ n \in Nat /\ j \in 0..n /\ ErrorFree(frames, j) /\ base \in [0..n -> Nat]
      /\ \A i \in 1..n : base[i] <= base[n] /\ FrameAt(frames[i], base, line, i)
  BY <1>1 DEF LaidOut, ReadsAt
<1>3. ASSUME j < n PROVE FALSE
  <2> DEFINE f == frames[j + 1]
  <2>1. j + 1 \in 1..n /\ (j + 1) - 1 = j /\ base[j] \in Nat /\ base[j + 1] \in Nat /\ base[n] \in Nat
    BY <1>2, <1>3
  <2>2. base[j + 1] <= base[n] /\ FrameAt(f, base, line, j + 1)
    BY <1>2, <2>1
  <2>3. /\ base[n] = base[j] \/ (f # "heartbeat" /\ base[n] = base[j] + 1)
                             \/ (f # "heartbeat" /\ base[n] = base[j] + 2)
    BY <1>1 DEF ReadsAt
  <2> HIDE DEF f, n
  <2>4. base[j + 1] = base[j] + Height(f)
    <3>1. base[j + 1] = base[(j + 1) - 1] + Height(f)
      BY <2>2 DEF FrameAt
    <3> QED BY <2>1, <3>1
  <2>5. Height(f) = 1 \/ Height(f) = 3
    BY DEF Height
  <2>6. f # "heartbeat" => Height(f) = 3
    BY DEF Height
  <2> QED BY <2>1, <2>2, <2>3, <2>4, <2>5, <2>6
<1>4. j = n /\ state = ReadState(frames, j, "none", "None")
  <2>1. j = n /\ ~ j < n
    BY <1>2, <1>3
  <2> QED BY <1>1, <2>1 DEF ReadsAt
<1> QED BY <1>2, <1>4 DEF ReadState

\* When all bytes have arrived, only a line that a carriage return ends is left.
LEMMA LastCut ==
  ASSUME NEW br, NEW bytes, NEW ends, NEW line, NEW top, Ruled(br, bytes, ends, line, top),
         NEW k, NEW o, Cut(ends, line, top, k, o)
  PROVE  /\ o = Len(bytes) => k = top /\ o = ends[top]
         /\ Len(bytes) > 0 /\ bytes[Len(bytes)] = "r" /\ o = Len(bytes) - 1 =>
              /\ k = top - 1 /\ top \in Nat \ {0}
              /\ Held(ends, line, k, o) = Content(line[top])
<1> DEFINE M == Len(bytes)
<1>1. /\ top \in Nat /\ k \in 0..top /\ M \in Nat /\ ends[top] = M /\ ends \in [0..top -> Nat]
      /\ \A m \in 0..top : ends[m] <= M
  BY DEF Ruled, Cut
<1>2. \A m \in 0..top : ends[m] <= o <=> m <= k
  BY CutBounds
<1>3. ASSUME o = M PROVE k = top /\ o = ends[top]
  <2>1. top \in 0..top /\ ends[top] <= o
    BY <1>1, <1>3
  <2>2. top <= k
    BY <1>2, <2>1
  <2> QED BY <1>1, <1>3, <2>2
<1>4. ASSUME M > 0, bytes[M] = "r", o = M - 1
      PROVE  k = top - 1 /\ top \in Nat \ {0} /\ Held(ends, line, k, o) = Content(line[top])
  <2>1. M \in 1..M
    BY <1>1, <1>4
  <2>2. PICK m \in 1..top : M <= ends[m] /\ (M = ends[m] \/ M = ends[m] - 1) /\ br \in {<<"r">>, <<"r", "n">>}
                            /\ (M = ends[m] => br = <<"r">>)
    <3>1. PICK m \in 1..top :
           /\ ends[m - 1] < M /\ M <= ends[m]
           /\ \/ M = ends[m - 1] + 1 /\ M < ends[m] /\ line[m] # "blank" /\ bytes[M] \notin {"r", "n"}
              \/ M = ends[m] /\ br # <<"r">> /\ bytes[M] = "n"
              \/ M = ends[m] /\ br = <<"r">> /\ bytes[M] = "r"
              \/ M = ends[m] - 1 /\ br = <<"r", "n">> /\ bytes[M] = "r"
      <4> HIDE DEF M
      <4>1. M \in 1..Len(bytes)
        BY <2>1 DEF M
      <4> QED BY <4>1, ByteAt
    <3>2. ends[m] \in Nat /\ ends[m] <= M
      BY <1>1
    <3> HIDE DEF M
    <3>3. M # ends[m] - 1 /\ ~ M < ends[m]
      BY <1>1, <3>2
    <3>4. bytes[M] # "n"
      BY <1>4
    <3>5. M = ends[m] /\ br = <<"r">>
      BY <3>1, <3>3, <3>4
    <3> QED BY <1>1, <3>2, <3>5
  <2>3. M = ends[m] /\ br = <<"r">> /\ m \in 0..top
    <3>1. ends[m] \in Nat /\ ends[m] <= M /\ m \in 0..top
      BY <1>1
    <3> HIDE DEF M
    <3>2. M # ends[m] - 1
      BY <1>1, <3>1
    <3> QED BY <2>2, <3>1, <3>2
  <2>4. m = top /\ top # 0
    <3>1. ends[top] <= ends[m] /\ top \in 0..top
      BY <1>1, <2>3
    <3>2. top <= m
      BY <2>3, <3>1, EndsInOrder
    <3> QED BY <1>1, <3>2
  <2> DEFINE w == IF line[top] = "blank" THEN 0 ELSE 1
  <2>5. top \in 1..top /\ top - 1 \in 0..top
    BY <1>1, <2>4
  <2>6. ends[top] = ends[top - 1] + w + 1 /\ ends[top - 1] \in Nat
    <3>1. ends[top] = ends[top - 1] + (IF line[top] = "blank" THEN 0 ELSE 1) + Len(br) /\ ends[top - 1] \in Nat
      BY <2>5, LineStep
    <3>2. Len(br) = 1
      BY <2>3
    <3> QED BY <3>1, <3>2
  <2>7. w \in {0, 1} /\ (w = 0 <=> line[top] = "blank")
    OBVIOUS
  <2> HIDE DEF w, M
  <2>8. o = ends[top - 1] + w
    <3>1. ends[top] = M /\ o = M - 1 /\ M \in Nat
      BY <1>1, <1>4
    <3> QED BY <2>6, <2>7, <3>1
  <2>9. top - 1 <= k
    <3>1. ends[top - 1] <= o
      BY <2>6, <2>7, <2>8
    <3> QED BY <1>2, <2>5, <3>1
  <2>10. ~ top <= k
    <3>1. ~ ends[top] <= o /\ top \in 0..top
      BY <1>1, <1>4
    <3> QED BY <1>2, <3>1
  <2>11. k = top - 1 /\ k + 1 = top
    BY <1>1, <2>9, <2>10
  <2>12. Held(ends, line, k, o) = Content(line[top])
    <3>1. CASE w = 0
      <4>1. o = ends[k] /\ line[top] = "blank"
        BY <2>6, <2>7, <2>8, <2>11, <3>1
      <4> QED BY <4>1 DEF Held, Content
    <3>2. CASE w = 1
      <4>1. o # ends[k]
        BY <2>6, <2>8, <2>11, <3>2
      <4> QED BY <2>11, <4>1 DEF Held
    <3> QED BY <2>7, <3>1, <3>2
  <2> QED BY <1>1, <2>4, <2>11, <2>12
<1> QED BY <1>3, <1>4

\* At the end of the response the last line is flushed, if a carriage return ends it.
LEMMA EndKeeps ==
  ASSUME StreamInv, EndOfResponse
  PROVE  StreamInv'
<1>1. stream = "open" /\ wire = <<>> /\ sent' = sent
  BY DEF EndOfResponse
<1>2. PICK br, bytes, base, ends, line :
        LaidOut(sent, br, bytes, base, ends, line) /\ Listens(bytes, base, ends, line)
  BY <1>1 DEF StreamInv
<1>3. PICK a, k : Ready(bytes, base, ends, line, a, k)
  BY <1>2 DEF Listens
<1> DEFINE top == base[Len(sent)]
           M == Len(bytes)
           o == IF trailingCr THEN a - 1 ELSE a
           lines == Flushed
           state == Consumed(lines)
<1>4. /\ sent \in Seq(Frames) /\ trailingCr \in BOOLEAN
      /\ Ruled(br, bytes, ends, line, top) /\ bytes \in Seq(Byte) /\ top \in Nat /\ M \in Nat
  BY <1>2 DEF StreamInv, LaidOut, Ruled
<1>5. /\ a \in 0..M /\ wire = Between(bytes, a, M)
      /\ trailingCr => a > 0 /\ bytes[a] = "r"
      /\ Cut(ends, line, top, k, o) /\ buffer = Held(ends, line, k, o)
      /\ Reads(sent, base, k, AsReceived)
  BY <1>3 DEF Ready
<1>6. a = M
  <2>1. a \in Nat /\ M \in Nat /\ a <= M /\ M <= Len(bytes)
    BY <1>4, <1>5
  <2> HIDE DEF M
  <2>2. Len(Between(bytes, a, M)) = M - a
    BY ONLY <1>4, <2>1, PieceOf
  <2>3. Len(wire) = 0
    BY <1>1
  <2> QED BY <1>5, <2>1, <2>2, <2>3
<1>7. /\ k \in Nat /\ k <= top
      /\ Len(lines) = top - k /\ \A i \in 1..top - k : lines[i] = Content(line[k + i])
  <2>1. CASE trailingCr
    <3>1. o = M - 1 /\ M > 0 /\ bytes[M] = "r"
      BY <1>4, <1>5, <1>6, <2>1
    <3>2. k = top - 1 /\ top \in Nat \ {0} /\ Held(ends, line, k, o) = Content(line[top])
      <4> HIDE DEF o, top
      <4> QED BY <1>4, <1>5, <3>1, LastCut
    <3>3. lines = <<Content(line[top])>>
      BY <1>5, <2>1, <3>2 DEF Flushed
    <3> HIDE DEF top, lines
    <3>4. Len(lines) = 1 /\ lines[1] = Content(line[top])
      BY <3>3
    <3> QED BY <3>2, <3>4
  <2>2. CASE ~ trailingCr
    <3>1. o = M
      BY <1>6, <2>2
    <3>2. k = top /\ o = ends[top]
      <4> HIDE DEF o, top
      <4> QED BY <1>4, <1>5, <3>1, LastCut
    <3>3. buffer = <<>>
      BY <1>5, <3>2 DEF Held
    <3>4. lines = <<>>
      BY <2>2, <3>3 DEF Flushed
    <3> HIDE DEF top, lines
    <3> QED BY <1>4, <3>2, <3>4
  <2> QED BY <2>1, <2>2
<1>8. Reads(sent, base, top, state) \/ Raised(sent, state)
  <2>1. Reads(sent, base, k, [sse |-> sse, yielded |-> yielded, stream |-> stream])
    BY <1>5 DEF AsReceived
  <2>2. top <= base[Len(sent)]
    BY <1>4
  <2> HIDE DEF lines, top
  <2> QED BY ONLY <1>2, <1>4, <1>7, <2>1, <2>2, ReadsThrough
<1>9. /\ sse' = state.sse /\ yielded' = state.yielded
      /\ stream' = (IF state.stream = "open" THEN "ended" ELSE state.stream)
      /\ trailingCr' = FALSE
  BY DEF EndOfResponse
<1> HIDE DEF state
<1>10. LaidOut(sent', br, bytes, base, ends, line)
  BY <1>1, <1>2
<1>11. CASE Reads(sent, base, top, state)
  <2>1. /\ ErrorFree(sent, Len(sent)) /\ state.yielded = PartsTo(sent, Len(sent))
        /\ state.stream = "open"
    BY <1>2, <1>11, ReadAll
  <2>2. stream' = "ended" /\ ErrorFree(sent', Len(sent')) /\ yielded' = PartsTo(sent', Len(sent'))
    BY <1>1, <1>9, <2>1
  <2> QED BY <1>1, <1>4, <1>9, <1>10, <2>2 DEF StreamInv
<1>12. CASE Raised(sent, state)
  <2>1. stream' = "error" /\ Raised(sent', AsReceived')
    BY <1>1, <1>9, <1>12 DEF Raised, AsReceived
  <2> QED BY <1>1, <1>4, <1>9, <1>10, <2>1 DEF StreamInv
<1> QED BY <1>8, <1>11, <1>12

\* No step of the stream leaves the invariant.
LEMMA JsStreamStep == StreamInv /\ [JsStreamNext]_jsStreamVars => StreamInv'
<1> SUFFICES ASSUME StreamInv, [JsStreamNext]_jsStreamVars PROVE StreamInv'
  OBVIOUS
<1>1. CASE UNCHANGED jsStreamVars
  BY <1>1 DEF jsStreamVars, StreamInv, Listens, Ready, AsReceived
<1>2. CASE JsStreamNext
  BY <1>2, ReceiveKeeps, EndKeeps DEF JsStreamNext
<1> QED BY <1>1, <1>2

\* The first error, in the words of the property.
LEMMA FirstErrorIs ==
  ASSUME NEW frames \in Seq(Frames)
  PROVE  /\ ErrorFree(frames, Len(frames)) => FirstError(frames) = 0
         /\ \A j \in 0..Len(frames) :
              j < Len(frames) /\ ErrorFree(frames, j) /\ frames[j + 1] = "error" => FirstError(frames) = j + 1
<1> DEFINE n == Len(frames)
           I == {i \in 1..n : frames[i] = "error"}
<1>1. FirstError(frames) = IF I # {} THEN Min(I) ELSE 0
  BY DEF FirstError, SelectInSeq
<1>2. ErrorFree(frames, n) => I = {}
  BY DEF ErrorFree
<1>3. ASSUME NEW j \in 0..n, j < n, ErrorFree(frames, j), frames[j + 1] = "error"
      PROVE  FirstError(frames) = j + 1
  <2>1. n \in Nat /\ j \in Nat
    OBVIOUS
  <2> HIDE DEF n
  <2>2. j + 1 \in I /\ \A i \in I : j + 1 <= i
    BY <1>3, <2>1 DEF ErrorFree
  <2>3. I \subseteq Nat
    BY <2>1
  <2> HIDE DEF I
  <2>4. \A x \in I : (\A y \in I : x <= y) => x = j + 1
    BY <2>1, <2>2, <2>3
  <2>5. Min(I) = j + 1
    BY <2>2, <2>4 DEF Min
  <2> QED BY <1>1, <2>2, <2>5
<1> QED BY <1>1, <1>2, <1>3

\* What was read is what was sent.
LEMMA StreamTold == StreamInv => StreamAsSent
<1> SUFFICES ASSUME StreamInv PROVE StreamAsSent
  OBVIOUS
<1> DEFINE n == Len(sent)
<1>1. sent \in Seq(Frames) /\ n \in Nat
  BY DEF StreamInv
<1>2. Parts(sent) = PartsTo(sent, n)
  <2>1. n \in 0..n
    BY <1>1
  <2> QED BY <1>1, <2>1, PartsWhole
<1>3. ASSUME stream = "ended" PROVE FirstError(sent) = 0 /\ yielded = Parts(sent)
  <2>1. ErrorFree(sent, n) /\ yielded = PartsTo(sent, n)
    BY <1>3 DEF StreamInv
  <2> QED BY <1>1, <1>2, <2>1, FirstErrorIs
<1>4. ASSUME stream = "error"
      PROVE  FirstError(sent) # 0 /\ yielded = Parts(SubSeq(sent, 1, FirstError(sent) - 1))
  <2>1. Raised(sent, AsReceived)
    BY <1>4 DEF StreamInv
  <2>2. PICK j : /\ j \in 0..n /\ j < n /\ ErrorFree(sent, j) /\ sent[j + 1] = "error"
                 /\ AsReceived.yielded = PartsTo(sent, j)
    BY <2>1 DEF Raised
  <2>3. FirstError(sent) = j + 1
    BY <1>1, <2>2, FirstErrorIs
  <2>4. FirstError(sent) # 0 /\ FirstError(sent) - 1 = j
    BY <1>1, <2>2, <2>3
  <2>5. Parts(SubSeq(sent, 1, j)) = PartsTo(sent, j)
    BY <1>1, <2>2, PartsWhole
  <2> QED BY <2>2, <2>4, <2>5 DEF AsReceived
<1>5. ASSUME stream = "open" PROVE IsPrefix(yielded, Parts(sent))
  <2>1. PICK br, bytes, base, ends, line :
        LaidOut(sent, br, bytes, base, ends, line) /\ Listens(bytes, base, ends, line)
    BY <1>5 DEF StreamInv
  <2>2. PICK a, k : Reads(sent, base, k, AsReceived)
    BY <2>1 DEF Listens, Ready
  <2>3. PICK j \in 0..n : AsReceived.yielded = PartsTo(sent, j)
    BY <2>2 DEF Reads, ReadsAt, ReadState
  <2>4. yielded = PartsTo(sent, j)
    BY <2>3 DEF AsReceived
  <2> QED BY <1>1, <2>4, PartsWhole
<1> QED BY <1>3, <1>4, <1>5 DEF StreamAsSent

\* The parts a run receives of a JavaScript graph are those that were sent before the first
\* error, and it is told of the error: for every stream, every line break and every way in
\* which the network cuts the bytes.
THEOREM FramesAlwaysAsSent == Spec => []FramesAsSent
<1>1. Init => StreamInv
  BY StreamStart DEF Init
<1>2. StreamInv /\ [Next]_clientVars => StreamInv'
  BY JsStreamStep, StepsOfComponents
<1>3. StreamInv => FramesAsSent
  BY StreamTold DEF FramesAsSent
<1> QED BY <1>1, <1>2, <1>3, PTL DEF Spec

=============================================================================
