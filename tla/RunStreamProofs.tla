-------------------------- MODULE RunStreamProofs --------------------------
(***************************************************************************)
(* What RunStream promises of the streams of a run, for all clients,       *)
(* messages, options and bounds: no hole in what a client is sent, a       *)
(* stream that ended by itself is complete, and a request that waits       *)
(* learns of an error.  The inductive invariant says where the queue of    *)
(* each client stands in the order of publication, and what its replay     *)
(* has passed.                                                             *)
(***************************************************************************)
EXTENDS RunStream, SequenceTheorems, FiniteSetTheorems, TLAPS

(***************************************************************************)
(* The invariant                                                           *)
(***************************************************************************)
\* The signal of the end is the last message and the worker's last act; ids grow; the
\* outcome is written between the last message and the signal.
MessagesInv ==
  /\ \A n \in 1..Len(msgs) : msgs[n].kind = "done" => n = Len(msgs) /\ wk = "left"
  /\ wk = "left" => Len(msgs) > 0 /\ msgs[Len(msgs)].kind = "done"
  /\ wk # "left" => Len(msgs) <= MaxMessages
  /\ wk = "none" => Len(msgs) = 0
  /\ rec = "none" => wk = "none"
  /\ \A n \in 1..Len(msgs) : msgs[n].id <= ms
  /\ \A m, n \in 1..Len(msgs) : m <= n => msgs[m].id <= msgs[n].id
  /\ Settled => wk \in {"settled", "left"}
  /\ rec = "error" => \E n \in 1..Len(msgs) : /\ msgs[n].kind = "error"
                                              /\ IF wk = "left" THEN Len(msgs) = n + 1 ELSE Len(msgs) = n

\* A queue holds the latest messages; the others have left it.
Read(q) == Len(msgs) - Len(q)
QueueOK(q) == Len(q) <= Len(msgs) /\ \A i \in 1..Len(q) : q[i] = Read(q) + i

\* What a client of the run was sent: never the signal itself, and without a replay
\* everything since it subscribed.
Has(l, n) == \E i \in 1..Len(l.seen) : l.seen[i] = n
SeenOK(l) ==
  /\ \A i \in 1..Len(l.seen) : l.seen[i] \in 1..Len(msgs) /\ msgs[l.seen[i]].kind # "done"
  /\ l.last = NoId => \A i \in 1..Len(l.seen) : l.seen[i] = l.from + i
  /\ \A i \in 1..(Len(l.seen) - 1) :
       l.seen[i + 1] = l.seen[i] + 1 \/ (l.seen[i + 1] <= l.seen[i] /\ l.last # NoId)

\* The messages due to a client (see Due).
Owed(l, n) == /\ n \in 1..Len(msgs) /\ msgs[n].kind # "done"
              /\ IF opt.resumable /\ l.last # NoId THEN msgs[n].id > l.last ELSE n > l.from

\* A replay has passed the stored messages up to l.at and has sent those that are due.
ReplayOK(l) ==
  /\ l.at <= Len(Stored)
  /\ l.last = NoId \/ ~ opt.resumable => l.at = 0 /\ l.seen = <<>>
  /\ l.seen # <<>> => l.seen[Len(l.seen)] = l.at /\ l.at > 0 /\ msgs[l.at].id > l.last
  /\ \A n \in 1..l.at : msgs[n].id > l.last => Has(l, n)

\* A live client was sent what is due and has left its queue.
LiveOK(l, q) ==
  /\ l.seen # <<>> => l.seen[Len(l.seen)] >= Read(q)
  /\ l.last = NoId => l.from + Len(l.seen) = Read(q)
  /\ \A n \in 1..Len(msgs) : Owed(l, n) /\ n <= Read(q) => Has(l, n)

\* A stream that ended by itself is complete, or its run was cancelled or deleted.
ClosedOK(l, r) ==
  \/ r \in {"interrupted", "deleted"}
  \/ wk \in {"settled", "left"} /\ \A n \in 1..Len(msgs) : Owed(l, n) => Has(l, n)

\* A client of the run at each station; within says that it has a queue, r is the status
\* of the run.
StationOK(l, q, within, r) ==
  /\ l.pc \in {"idle", "closed", "left"} => ~ within
  /\ l.pc \in {"creating", "joining", "replay", "live"} => within
  /\ l.pc = "creating" => r = "none"
  /\ l.pc \in {"joining", "replay", "live"} => r # "none"
  /\ l.pc \in {"idle", "creating", "joining"} => l.seen = <<>> /\ l.at = 0
  /\ l.pc \in {"idle", "creating"} => l.last = NoId
  /\ l.pc \in {"creating", "joining", "replay"} => Read(q) = l.from
  /\ l.pc = "replay" => ReplayOK(l)
  /\ l.pc = "live" => LiveOK(l, q)
  /\ l.pc = "closed" => ClosedOK(l, r)

\* A watcher of the thread.
WatcherOK(l, q, within) ==
  /\ l.pc \in {"idle", "replay", "live", "left"} /\ (within <=> l.pc = "live")
  /\ l.pc = "idle" => l.seen = <<>>
  /\ l.last = NoId =>
       /\ \A i \in 1..Len(l.seen) : l.seen[i] = l.from + i
       /\ l.pc = "replay" => l.seen = <<>> /\ q = <<>>
       /\ l.pc = "live" => l.from + Len(l.seen) = Read(q)

ClientsInv ==
  /\ \A c \in subs : QueueOK(chan[c])
  /\ \A c, d \in Creators \cap subs : c = d
  /\ \A c \in Joiners : cl[c].pc # "creating"
  /\ \A c \in RunClients : SeenOK(cl[c]) /\ StationOK(cl[c], chan[c], c \in subs, rec)
  /\ \A c \in Creators : cl[c].last = NoId /\ (cl[c].pc # "idle" => cl[c].from = 0)
  /\ \A c \in Watchers : WatcherOK(cl[c], chan[c], c \in subs)

StreamInv == StreamTypeOK /\ MessagesInv /\ ClientsInv

(***************************************************************************)
(* What the steps have in common                                           *)
(***************************************************************************)
\* The state has its types.
LEMMA Typed ==
  ASSUME StreamInv
  PROVE  /\ opt.resumable \in BOOLEAN /\ opt.temporary \in BOOLEAN
         /\ Len(msgs) \in Nat /\ Len(msgs) <= MaxMessages + 1 /\ msgs \in Seq(Message)
         /\ \A n \in 1..Len(msgs) : msgs[n] \in Message /\ msgs[n].id \in Nat
         /\ \A c \in Clients : /\ cl[c] \in Client /\ cl[c].seen \in Seq(1..MaxMessages + 1) /\ Len(cl[c].seen) \in Nat
                               /\ cl[c].at \in Nat /\ cl[c].from \in Nat /\ cl[c].last \in 0..NoId
                               /\ chan[c] \in Seq(1..MaxMessages + 1) /\ Len(chan[c]) \in Nat
         /\ NoId \in Nat /\ MaxMessages \in Nat
         /\ RunClients \subseteq Clients /\ Creators \subseteq RunClients /\ Watchers \subseteq Clients /\ subs \subseteq Clients
         /\ Joiners \subseteq RunClients
<1>1. opt.resumable \in BOOLEAN /\ opt.temporary \in BOOLEAN
  BY RunStreamAssumption DEF StreamInv, StreamTypeOK
<1>2. msgs \in Seq(Message) /\ Len(msgs) \in Nat /\ Len(msgs) <= MaxMessages + 1
  BY DEF StreamInv, StreamTypeOK
<1>3. ASSUME NEW n \in 1..Len(msgs) PROVE msgs[n] \in Message /\ msgs[n].id \in Nat
  <2>1. msgs[n] \in Message
    BY <1>2
  <2>2. msgs[n].id \in 0..MaxMillis
    BY <2>1 DEF Message
  <2> QED BY <2>1, <2>2, RunStreamAssumption
<1>4. NoId \in Nat /\ MaxMessages \in Nat
  BY RunStreamAssumption DEF NoId
<1>5. ASSUME NEW c \in Clients
      PROVE  /\ cl[c] \in Client /\ cl[c].seen \in Seq(1..MaxMessages + 1) /\ Len(cl[c].seen) \in Nat
             /\ cl[c].at \in Nat /\ cl[c].from \in Nat /\ cl[c].last \in 0..NoId
             /\ chan[c] \in Seq(1..MaxMessages + 1) /\ Len(chan[c]) \in Nat
  BY <1>4 DEF StreamInv, StreamTypeOK, Client
<1> QED BY <1>1, <1>2, <1>3, <1>4, <1>5 DEF RunClients, Clients, StreamInv, StreamTypeOK

\* A stored message is the message at its position.
LEMMA StoredIs ==
  ASSUME StreamInv
  PROVE  /\ Len(Stored) = IF opt.resumable THEN Len(msgs) ELSE 0
         /\ \A n \in 1..Len(Stored) : Stored[n] = msgs[n] /\ n \in 1..Len(msgs) /\ opt.resumable
BY Typed DEF Stored

\* One client moves, and has a queue then or not; the messages stay as they are.
LEMMA ClientMoves ==
  ASSUME StreamInv, NEW c \in Clients, NEW l \in Client, NEW q \in Seq(1..MaxMessages + 1), NEW within \in BOOLEAN,
         UNCHANGED <<opt, wk, msgs, ms>>, dropTask' \in BOOLEAN,
         rec' = rec \/ (rec = "none" /\ rec' = "pending" /\ \A d \in RunClients \ {c} : cl[d].pc # "creating"),
         cl' = [cl EXCEPT ![c] = l], chan' = [chan EXCEPT ![c] = q],
         subs' = IF within THEN subs \cup {c} ELSE subs \ {c},
         within => QueueOK(q),
         c \in Creators => /\ l.last = NoId /\ (l.pc # "idle" => l.from = 0)
                           /\ within => c \in subs \/ subs \cap Creators = {},
         c \in Joiners => l.pc # "creating",
         c \in RunClients => SeenOK(l) /\ StationOK(l, q, within, rec'),
         c \in Watchers => WatcherOK(l, q, within)
  PROVE  StreamInv'
<1>1. StreamTypeOK'
  BY Typed DEF StreamInv, StreamTypeOK
<1>2. /\ cl'[c] = l /\ \A d \in Clients \ {c} : cl'[d] = cl[d]
      /\ chan'[c] = q /\ \A d \in Clients \ {c} : chan'[d] = chan[d]
      /\ \A d \in Clients \ {c} : d \in subs' <=> d \in subs
      /\ c \in subs' <=> within
  BY DEF StreamInv, StreamTypeOK
<1>3. MessagesInv'
  BY DEF StreamInv, MessagesInv, Settled
<1>4. ASSUME NEW d \in subs' PROVE QueueOK(chan[d])'
  <2>1. QueueOK(chan'[d])
    <3>1. CASE d = c
      BY <1>2, <1>4, <3>1
    <3>2. CASE d # c
      <4>1. d \in subs /\ d \in Clients
        BY <1>2, <1>4, <3>2, Typed
      <4> QED BY <1>2, <4>1, <3>2 DEF StreamInv, ClientsInv
    <3> QED BY <3>1, <3>2
  <2> QED BY <2>1 DEF QueueOK, Read
<1>5. \A d, e \in Creators \cap subs' : d = e
  BY <1>2, Typed DEF StreamInv, ClientsInv
<1>6. ASSUME NEW d \in RunClients PROVE (SeenOK(cl[d]) /\ StationOK(cl[d], chan[d], d \in subs, rec))'
  <2>1. SeenOK(cl'[d]) /\ StationOK(cl'[d], chan'[d], d \in subs', rec')
    <3>1. CASE d = c
      <4>1. SeenOK(l) /\ StationOK(l, q, within, rec')
        BY <1>6, <3>1
      <4>2. cl'[d] = l /\ chan'[d] = q /\ (d \in subs') = within
        BY <1>2, <3>1
      <4> QED BY <4>1, <4>2
    <3>2. CASE d # c
      <4>1. SeenOK(cl[d]) /\ StationOK(cl[d], chan[d], d \in subs, rec)
        BY DEF StreamInv, ClientsInv
      <4>2. cl'[d] = cl[d] /\ chan'[d] = chan[d] /\ (d \in subs') = (d \in subs) /\ d \in RunClients \ {c}
        BY <1>2, <3>2, Typed
      <4>3. StationOK(cl[d], chan[d], d \in subs, rec')
        BY <4>1, <4>2 DEF StationOK, ClosedOK
      <4> QED BY <4>1, <4>2, <4>3
    <3> QED BY <3>1, <3>2
  <2>2. SeenOK(cl[d])'
    BY <2>1 DEF SeenOK
  <2>3. StationOK(cl[d], chan[d], d \in subs, rec)'
    BY <2>1 DEF StationOK, ReplayOK, LiveOK, ClosedOK, Owed, Has, Read, Stored
  <2> QED BY <2>2, <2>3
<1>7. \A d \in Creators : cl'[d].last = NoId /\ (cl'[d].pc # "idle" => cl'[d].from = 0)
  BY <1>2, Typed DEF StreamInv, ClientsInv
<1>8. ASSUME NEW d \in Watchers PROVE WatcherOK(cl[d], chan[d], d \in subs)'
  <2>1. WatcherOK(cl'[d], chan'[d], d \in subs')
    <3>1. CASE d = c
      <4>1. cl'[d] = l /\ chan'[d] = q /\ (d \in subs') = within
        BY <1>2, <3>1
      <4> QED BY <1>8, <3>1, <4>1
    <3>2. CASE d # c
      <4>1. cl'[d] = cl[d] /\ chan'[d] = chan[d] /\ (d \in subs') = (d \in subs)
        BY <1>2, <3>2, Typed
      <4> QED BY <4>1 DEF StreamInv, ClientsInv
    <3> QED BY <3>1, <3>2
  <2> QED BY <2>1 DEF WatcherOK, Read
<1>9. \A d \in Joiners : cl'[d].pc # "creating"
  BY <1>2, Typed DEF StreamInv, ClientsInv
<1>10. ClientsInv'
  BY <1>4, <1>5, <1>6, <1>7, <1>8, <1>9 DEF ClientsInv
<1> QED BY <1>1, <1>3, <1>10 DEF StreamInv

\* One client moves and keeps its queue.
LEMMA ClientStays ==
  ASSUME StreamInv, NEW c \in Clients, NEW l \in Client, c \in subs,
         UNCHANGED <<opt, wk, msgs, ms, subs, chan>>, dropTask' \in BOOLEAN,
         rec' = rec \/ (rec = "none" /\ rec' = "pending" /\ \A d \in RunClients \ {c} : cl[d].pc # "creating"),
         cl' = [cl EXCEPT ![c] = l],
         c \in Creators => l.last = NoId /\ (l.pc # "idle" => l.from = 0),
         c \in Joiners => l.pc # "creating",
         c \in RunClients => SeenOK(l) /\ StationOK(l, chan[c], TRUE, rec'),
         c \in Watchers => WatcherOK(l, chan[c], TRUE)
  PROVE  StreamInv'
<1>1. QueueOK(chan[c]) /\ subs' = subs \cup {c} /\ chan[c] \in Seq(1..MaxMessages + 1)
  BY Typed DEF StreamInv, ClientsInv
<1>2. chan' = [chan EXCEPT ![c] = chan[c]]
  BY DEF StreamInv, StreamTypeOK
<1> QED BY <1>1, <1>2, ClientMoves

\* One client moves and gives its queue up.
LEMMA ClientCloses ==
  ASSUME StreamInv, NEW c \in Clients, NEW l \in Client, RemoveQueue(c),
         UNCHANGED <<opt, rec, wk, msgs, ms>>, dropTask' \in BOOLEAN,
         cl' = [cl EXCEPT ![c] = l],
         c \in Creators => l.last = NoId /\ (l.pc # "idle" => l.from = 0),
         c \in Joiners => l.pc # "creating",
         c \in RunClients => SeenOK(l) /\ StationOK(l, <<>>, FALSE, rec),
         c \in Watchers => WatcherOK(l, <<>>, FALSE)
  PROVE  StreamInv'
<1>1. <<>> \in Seq(1..MaxMessages + 1) /\ subs' = subs \ {c} /\ chan' = [chan EXCEPT ![c] = <<>>]
  BY DEF RemoveQueue
<1> QED BY <1>1, ClientMoves

\* The record of the run or its worker moves; no client does.
LEMMA RecordMoves ==
  ASSUME StreamInv, UNCHANGED <<opt, msgs, subs, chan, cl>>, StreamTypeOK', MessagesInv',
         rec = "none" <=> rec' = "none",
         rec \in {"interrupted", "deleted"} => rec' \in {"interrupted", "deleted"},
         wk \in {"settled", "left"} => wk' \in {"settled", "left"}
  PROVE  StreamInv'
<1>1. \A d \in subs' : QueueOK(chan[d])'
  BY DEF StreamInv, ClientsInv, QueueOK, Read
<1>2. ASSUME NEW d \in RunClients PROVE (SeenOK(cl[d]) /\ StationOK(cl[d], chan[d], d \in subs, rec))'
  <2>1. SeenOK(cl[d]) /\ StationOK(cl[d], chan[d], d \in subs, rec)
    BY DEF StreamInv, ClientsInv
  <2>2. StationOK(cl[d], chan[d], d \in subs, rec)'
    BY <2>1 DEF StationOK, ReplayOK, LiveOK, ClosedOK, Owed, Has, Read, Stored
  <2>3. SeenOK(cl[d])'
    BY <2>1 DEF SeenOK
  <2> QED BY <2>2, <2>3
<1>3. \A d \in Watchers : WatcherOK(cl[d], chan[d], d \in subs)'
  BY DEF StreamInv, ClientsInv, WatcherOK, Read
<1> QED BY <1>1, <1>2, <1>3 DEF StreamInv, ClientsInv

\* A message is put into every queue of the run.
LEMMA Puts ==
  ASSUME StreamInv, NEW kind \in Kinds \cup {"done"}, Put(kind), UNCHANGED <<opt, rec, ms, subs, cl, dropTask>>,
         \/ kind # "done" /\ wk = "executing" /\ wk' = wk /\ Len(msgs) < MaxMessages
         \/ kind = "done" /\ wk = "settled" /\ wk' = "left"
  PROVE  StreamInv'
<1> DEFINE m == [id |-> ms, kind |-> kind]
<1>1. m \in Message /\ m.id = ms /\ m.kind = kind
  BY DEF Message, StreamInv, StreamTypeOK
<1>2. Len(msgs) <= MaxMessages
  BY DEF StreamInv, MessagesInv
<1>3. /\ msgs' \in Seq(Message) /\ Len(msgs') = Len(msgs) + 1
      /\ \A n \in 1..Len(msgs) : msgs'[n] = msgs[n]
      /\ msgs'[Len(msgs) + 1].id = ms /\ msgs'[Len(msgs) + 1].kind = kind
  <2>1. msgs' = Append(msgs, m)
    BY DEF Put
  <2> HIDE DEF m
  <2> QED BY <1>1, <2>1, Typed
<1>4. ASSUME NEW d \in subs
      PROVE  /\ chan'[d] \in Seq(1..MaxMessages + 1) /\ Len(chan'[d]) = Len(chan[d]) + 1
             /\ \A i \in 1..Len(chan[d]) : chan'[d][i] = chan[d][i]
             /\ chan'[d][Len(chan[d]) + 1] = Len(msgs) + 1
  <2>1. chan'[d] = Append(chan[d], Len(msgs) + 1) /\ d \in Clients
    BY Typed DEF Put
  <2>2. Len(msgs) + 1 \in 1..MaxMessages + 1 /\ chan[d] \in Seq(1..MaxMessages + 1)
    BY <1>2, <2>1, Typed
  <2> QED BY <2>1, <2>2
<1>4a. ASSUME NEW d \in subs PROVE (Read(chan[d]))' = Read(chan[d]) /\ Read(chan[d]) <= Len(msgs)
  <2>1. d \in Clients /\ Len(chan[d]) \in Nat /\ Len(msgs) \in Nat
    BY Typed
  <2>2. Len(chan'[d]) = Len(chan[d]) + 1 /\ Len(msgs') = Len(msgs) + 1
    BY <1>3, <1>4
  <2>3. Len(msgs') - Len(chan'[d]) = Len(msgs) - Len(chan[d]) /\ Len(msgs) - Len(chan[d]) <= Len(msgs)
    BY <2>1, <2>2
  <2> QED BY <2>3 DEF Read
<1>5. \A d \in Clients \ subs : chan'[d] = chan[d]
  BY DEF Put
<1>6. StreamTypeOK'
  <2>1. chan' \in [Clients -> Seq(1..MaxMessages + 1)]
    BY <1>4, <1>5, Typed DEF Put
  <2>2. wk' \in {"none", "executing", "settled", "left"}
    OBVIOUS
  <2> QED BY <1>2, <1>3, <2>1, <2>2, Typed DEF StreamInv, StreamTypeOK
<1>7. MessagesInv'
  <2> USE <1>3, Typed
  <2>1. \A n \in 1..Len(msgs) : msgs[n].kind # "done"
    BY DEF StreamInv, MessagesInv
  <2>2. \A n \in 1..Len(msgs') : n \in 1..Len(msgs) \/ n = Len(msgs) + 1
    OBVIOUS
  <2>3. \A n \in 1..Len(msgs') : msgs'[n].kind = "done" => n = Len(msgs') /\ wk' = "left"
    BY <2>1, <2>2
  <2>4. wk' = "left" => Len(msgs') > 0 /\ msgs'[Len(msgs')].kind = "done"
    OBVIOUS
  <2>5. /\ wk' # "left" => Len(msgs') <= MaxMessages
        /\ wk' = "none" => Len(msgs') = 0
        /\ rec' = "none" => wk' = "none"
        /\ Settled' => wk' \in {"settled", "left"}
    BY DEF StreamInv, MessagesInv, Settled
  <2>6. ms \in Nat /\ \A n \in 1..Len(msgs') : msgs'[n].id <= ms'
    <3>1. ms \in 0..MaxMillis /\ MaxMillis \in Nat
      BY RunStreamAssumption DEF StreamInv, StreamTypeOK
    <3>2. \A n \in 1..Len(msgs) : msgs[n].id <= ms
      BY DEF StreamInv, MessagesInv
    <3> QED BY <2>2, <3>1, <3>2
  <2>7. ASSUME NEW i \in 1..Len(msgs'), NEW j \in 1..Len(msgs'), i <= j PROVE msgs'[i].id <= msgs'[j].id
    <3>1. CASE j = Len(msgs) + 1
      <4>1. msgs'[j].id = ms
        BY <3>1
      <4> QED BY <2>6, <4>1
    <3>2. CASE j # Len(msgs) + 1
      <4>1. i \in 1..Len(msgs) /\ j \in 1..Len(msgs)
        BY <2>2, <2>7, <3>2
      <4>2. msgs[i].id <= msgs[j].id
        BY <2>7, <4>1 DEF StreamInv, MessagesInv
      <4> QED BY <4>1, <4>2
    <3> QED BY <3>1, <3>2
  <2>8. ASSUME rec' = "error"
        PROVE  \E n \in 1..Len(msgs') : /\ msgs'[n].kind = "error"
                                        /\ IF wk' = "left" THEN Len(msgs') = n + 1 ELSE Len(msgs') = n
    <3>1. wk = "settled" /\ wk' = "left"
      BY <2>8 DEF StreamInv, MessagesInv, Settled
    <3>2. PICK n \in 1..Len(msgs) : msgs[n].kind = "error" /\ Len(msgs) = n
      BY <2>8, <3>1 DEF StreamInv, MessagesInv
    <3> QED BY <3>1, <3>2
  <2> QED BY <2>3, <2>4, <2>5, <2>6, <2>7, <2>8 DEF MessagesInv
<1>8. ASSUME NEW d \in subs PROVE QueueOK(chan[d])'
  <2>1. QueueOK(chan[d])
    BY DEF StreamInv, ClientsInv
  <2>2. (Read(chan[d]))' = Read(chan[d])
    BY <1>4a
  <2>3. Len(chan[d]) \in Nat /\ Len(msgs) \in Nat
    BY Typed
  <2>4. ASSUME NEW i \in 1..Len(chan'[d]) PROVE chan'[d][i] = Read(chan[d]) + i
    <3>1. CASE i = Len(chan[d]) + 1
      BY <1>4, <2>3, <3>1 DEF Read
    <3>2. CASE i # Len(chan[d]) + 1
      <4>1. i \in 1..Len(chan[d])
        BY <1>4, <2>3, <3>2
      <4> QED BY <1>4, <2>1, <4>1 DEF QueueOK
    <3> QED BY <3>1, <3>2
  <2>5. Len(chan'[d]) <= Len(msgs')
    BY <1>3, <1>4, <2>1, <2>3 DEF QueueOK
  <2> QED BY <2>2, <2>4, <2>5 DEF QueueOK
<1>9. \A n \in 1..Len(msgs) : msgs'[n] = msgs[n] /\ n \in 1..Len(msgs')
  BY <1>3, Typed
<1>10. ASSUME NEW d \in RunClients PROVE SeenOK(cl[d])'
  <2>1. SeenOK(cl[d])
    BY DEF StreamInv, ClientsInv
  <2> QED BY <1>9, <2>1 DEF SeenOK
<1>11. ASSUME NEW d \in RunClients PROVE StationOK(cl[d], chan[d], d \in subs, rec)'
  <2>1. StationOK(cl[d], chan[d], d \in subs, rec) /\ cl' = cl
    BY DEF StreamInv, ClientsInv
  <2>2. d \in subs => (Read(chan[d]))' = Read(chan[d]) /\ Read(chan[d]) <= Len(msgs)
    BY <1>4a
  <2>3. ReplayOK(cl[d]) => ReplayOK(cl[d])'
    <3> SUFFICES ASSUME ReplayOK(cl[d]) PROVE ReplayOK(cl[d])'
      OBVIOUS
    <3>1. cl[d].at <= Len(Stored) /\ Len(Stored) <= Len(msgs) /\ cl[d].at \in Nat
      BY Typed, StoredIs DEF ReplayOK
    <3>2. (cl[d].at <= Len(Stored))'
      BY <1>3, <3>1, Typed DEF Stored
    <3>3. \A n \in 1..cl[d].at : msgs'[n] = msgs[n]
      BY <1>9, <3>1, Typed
    <3>4. cl[d].seen # <<>> => cl[d].seen[Len(cl[d].seen)] = cl[d].at /\ cl[d].at > 0 /\ msgs'[cl[d].at].id > cl[d].last
      BY <3>1, <3>3 DEF ReplayOK
    <3>5. \A n \in 1..cl[d].at : msgs'[n].id > cl[d].last => Has(cl[d], n)
      BY <3>3 DEF ReplayOK
    <3>6. cl[d].last = NoId \/ ~ opt.resumable => cl[d].at = 0 /\ cl[d].seen = <<>>
      BY DEF ReplayOK
    <3> QED BY <2>1, <3>2, <3>4, <3>5, <3>6 DEF ReplayOK, Has
  <2>4. \A n \in 1..Len(msgs) : Owed(cl[d], n)' => Owed(cl[d], n)
    BY <1>9 DEF Owed
  <2>5. d \in subs /\ LiveOK(cl[d], chan[d]) => LiveOK(cl[d], chan[d])'
    <3> SUFFICES ASSUME d \in subs, LiveOK(cl[d], chan[d]) PROVE LiveOK(cl[d], chan[d])'
      OBVIOUS
    <3>1. ASSUME NEW n \in 1..Len(msgs'), Owed(cl[d], n)', n <= (Read(chan[d]))' PROVE Has(cl[d], n)'
      <4>1. n \in 1..Len(msgs) /\ n <= Read(chan[d])
        BY <2>2, <3>1, Typed DEF Read
      <4>2. Has(cl[d], n)
        BY <2>4, <3>1, <4>1 DEF LiveOK
      <4> QED BY <4>2, <2>1 DEF Has
    <3>2. /\ cl[d].seen # <<>> => cl[d].seen[Len(cl[d].seen)] >= Read(chan[d])
          /\ cl[d].last = NoId => cl[d].from + Len(cl[d].seen) = Read(chan[d])
      BY DEF LiveOK
    <3> QED BY <2>1, <2>2, <3>1, <3>2 DEF LiveOK
  <2>6. ClosedOK(cl[d], rec) => ClosedOK(cl[d], rec)'
    <3> SUFFICES ASSUME ClosedOK(cl[d], rec), rec \notin {"interrupted", "deleted"} PROVE ClosedOK(cl[d], rec)'
      BY DEF ClosedOK
    <3>1. kind = "done" /\ wk' = "left"
      BY DEF ClosedOK
    <3>2. ASSUME NEW n \in 1..Len(msgs'), Owed(cl[d], n)' PROVE Has(cl[d], n)'
      <4>1. n \in 1..Len(msgs)
        BY <1>3, <3>1, <3>2, Typed DEF Owed
      <4>2. Has(cl[d], n)
        BY <2>4, <3>2, <4>1 DEF ClosedOK
      <4> QED BY <4>2, <2>1 DEF Has
    <3> QED BY <3>1, <3>2 DEF ClosedOK
  <2>7. (d \in subs)' <=> d \in subs
    OBVIOUS
  <2> QED BY <2>1, <2>2, <2>3, <2>5, <2>6, <2>7 DEF StationOK
<1>12. ASSUME NEW d \in Watchers PROVE WatcherOK(cl[d], chan[d], d \in subs)'
  <2>1. WatcherOK(cl[d], chan[d], d \in subs) /\ cl' = cl /\ d \in Clients
    BY Typed DEF StreamInv, ClientsInv
  <2>2. d \in subs => (Read(chan[d]))' = Read(chan[d])
    BY <1>4a
  <2>3. d \notin subs => chan'[d] = chan[d]
    BY <1>5, <2>1
  <2> QED BY <2>1, <2>2, <2>3 DEF WatcherOK
<1>13. ClientsInv'
  <2>1. \A d \in Creators : (cl[d].last = NoId /\ (cl[d].pc # "idle" => cl[d].from = 0))'
    BY DEF StreamInv, ClientsInv
  <2>2. \A d, e \in Creators \cap subs' : d = e
    BY DEF StreamInv, ClientsInv
  <2>3. (\A d \in Joiners : cl[d].pc # "creating")'
    BY DEF StreamInv, ClientsInv
  <2> QED BY <1>8, <1>10, <1>11, <1>12, <2>1, <2>2, <2>3 DEF ClientsInv
<1> QED BY <1>6, <1>7, <1>13 DEF StreamInv

(***************************************************************************)
(* The steps of the worker and of the record                               *)
(***************************************************************************)
\* The run starts, settles, is cancelled or deleted; time passes.
LEMMA RecordSteps ==
  ASSUME StreamInv, StartRun \/ SettleRun \/ CancelRun \/ DeleteRecord \/ CancelTask \/ NextMillisecond
  PROVE  StreamInv'
<1> USE Typed
<1>1. CASE StartRun
  <2>1. StreamTypeOK'
    BY <1>1 DEF StartRun, StreamInv, StreamTypeOK
  <2>2. MessagesInv'
    BY <1>1 DEF StartRun, StreamInv, MessagesInv, Settled
  <2> QED BY <1>1, <2>1, <2>2, RecordMoves DEF StartRun
<1>2. CASE SettleRun
  <2>1. StreamTypeOK'
    BY <1>2 DEF SettleRun, StreamInv, StreamTypeOK
  <2>2. ASSUME rec' = "error" PROVE \E n \in 1..Len(msgs) : msgs[n].kind = "error" /\ Len(msgs) = n
    BY <1>2, <2>2 DEF SettleRun, StreamInv, MessagesInv, Settled
  <2>3. MessagesInv'
    BY <1>2, <2>2 DEF SettleRun, StreamInv, MessagesInv, Settled
  <2>4. /\ rec # "none" /\ rec' # "none"
        /\ rec \in {"interrupted", "deleted"} => rec' \in {"interrupted", "deleted"}
    BY <1>2 DEF SettleRun, StreamInv, MessagesInv
  <2>5. wk \notin {"settled", "left"}
    BY <1>2 DEF SettleRun
  <2>6. UNCHANGED <<opt, msgs, subs, chan, cl>>
    BY <1>2 DEF SettleRun
  <2> QED BY <2>1, <2>3, <2>4, <2>5, <2>6, RecordMoves
<1>3. CASE CancelRun
  <2>1. StreamTypeOK'
    BY <1>3 DEF CancelRun, StreamInv, StreamTypeOK
  <2>2. MessagesInv'
    BY <1>3 DEF CancelRun, StreamInv, MessagesInv, Settled
  <2> QED BY <1>3, <2>1, <2>2, RecordMoves DEF CancelRun, ActiveRun
<1>4. CASE DeleteRecord
  <2>1. StreamTypeOK'
    BY <1>4 DEF DeleteRecord, StreamInv, StreamTypeOK
  <2>2. MessagesInv'
    BY <1>4 DEF DeleteRecord, StreamInv, MessagesInv, Settled
  <2> QED BY <1>4, <2>1, <2>2, RecordMoves DEF DeleteRecord, Exists
<1>5. CASE CancelTask
  <2>1. StreamTypeOK'
    BY <1>5 DEF CancelTask, StreamInv, StreamTypeOK
  <2>2. MessagesInv'
    BY <1>5 DEF CancelTask, StreamInv, MessagesInv, Settled, ActiveRun
  <2> QED BY <1>5, <2>1, <2>2, RecordMoves DEF CancelTask, ActiveRun
<1>6. CASE NextMillisecond
  <2>1. ms \in Nat /\ ms' = ms + 1 /\ ms' \in 0..MaxMillis
    BY <1>6, RunStreamAssumption DEF NextMillisecond, StreamInv, StreamTypeOK
  <2>2. StreamTypeOK'
    BY <1>6, <2>1 DEF NextMillisecond, StreamInv, StreamTypeOK
  <2>3. \A n \in 1..Len(msgs) : msgs[n].id <= ms'
    BY <2>1 DEF StreamInv, MessagesInv
  <2>4. MessagesInv'
    BY <1>6, <2>3 DEF NextMillisecond, StreamInv, MessagesInv, Settled
  <2> QED BY <1>6, <2>2, <2>4, RecordMoves DEF NextMillisecond
<1> QED BY <1>1, <1>2, <1>3, <1>4, <1>5, <1>6

(***************************************************************************)
(* The steps of the clients of the run                                     *)
(***************************************************************************)
\* A queue that is empty has been read.
LEMMA EmptyQueue ==
  ASSUME StreamInv
  PROVE  QueueOK(<<>>) /\ Read(<<>>) = Len(msgs) /\ <<>> \in Seq(1..MaxMessages + 1)
BY Typed DEF QueueOK, Read

\* A client subscribes and then creates the run.
LEMMA SubscribeFirstStep == ASSUME StreamInv, NEW c \in Creators, SubscribeFirst(c) PROVE StreamInv'
<1> DEFINE l == [cl[c] EXCEPT !.pc = "creating", !.from = Len(msgs)]
<1>1. c \in Clients /\ c \in RunClients /\ c \notin Joiners /\ c \notin Watchers /\ cl[c] \in Client
  BY Typed, RunStreamAssumption
<1>2. Len(msgs) = 0 /\ 0 \in 0..MaxMessages + 1
  BY Typed DEF SubscribeFirst, StreamInv, MessagesInv
<1>3. /\ l \in Client /\ l.pc = "creating" /\ l.from = 0 /\ l.last = cl[c].last /\ l.seen = cl[c].seen
      /\ l.at = cl[c].at
  BY <1>1, <1>2 DEF Client
<1>4. cl' = [cl EXCEPT ![c] = l]
  BY <1>1 DEF SubscribeFirst, StreamInv, StreamTypeOK
<1> HIDE DEF l
<1>5. SeenOK(cl[c]) /\ cl[c].last = NoId /\ cl[c].seen = <<>> /\ cl[c].at = 0
  BY <1>1 DEF SubscribeFirst, Appears, StreamInv, ClientsInv, StationOK
<1>6. SeenOK(l)
  BY <1>3, <1>5 DEF SeenOK
<1>7. StationOK(l, <<>>, TRUE, rec')
  BY <1>2, <1>3, <1>5, EmptyQueue DEF SubscribeFirst, StationOK
<1> QED BY <1>1, <1>2, <1>3, <1>4, <1>5, <1>6, <1>7, EmptyQueue, Typed, ClientMoves
        DEF SubscribeFirst, AddQueue, StreamInv, StreamTypeOK

\* The run is created.
LEMMA CreateStep == ASSUME StreamInv, NEW c \in Creators, CreateThenJoin(c) PROVE StreamInv'
<1> DEFINE l == [cl[c] EXCEPT !.pc = "joining"]
<1>1. c \in Clients /\ c \in RunClients /\ c \notin Joiners /\ c \notin Watchers /\ cl[c] \in Client
  BY Typed, RunStreamAssumption
<1>2. /\ l \in Client /\ l.pc = "joining" /\ l.from = cl[c].from /\ l.last = cl[c].last /\ l.seen = cl[c].seen
      /\ l.at = cl[c].at
  BY <1>1 DEF Client
<1>3. cl' = [cl EXCEPT ![c] = l]
  BY <1>1 DEF CreateThenJoin, StreamInv, StreamTypeOK
<1> HIDE DEF l
<1>4. SeenOK(cl[c]) /\ StationOK(cl[c], chan[c], c \in subs, rec) /\ cl[c].pc = "creating"
  BY <1>1 DEF CreateThenJoin, StreamInv, ClientsInv
<1>5. c \in subs /\ rec = "none" /\ rec' = "pending" /\ cl[c].last = NoId /\ cl[c].seen = <<>> /\ cl[c].at = 0
      /\ Read(chan[c]) = cl[c].from /\ cl[c].from = 0
  BY <1>4 DEF CreateThenJoin, StationOK, StreamInv, ClientsInv
<1>6. ASSUME NEW d \in RunClients \ {c} PROVE cl[d].pc # "creating"
  <2> SUFFICES ASSUME cl[d].pc = "creating" PROVE FALSE
    OBVIOUS
  <2>1. d \in Creators /\ d \in subs
    BY DEF StreamInv, ClientsInv, RunClients, StationOK
  <2> QED BY <1>5, <2>1 DEF StreamInv, ClientsInv
<1>7. SeenOK(l)
  BY <1>2, <1>5 DEF SeenOK
<1>8. StationOK(l, chan[c], TRUE, rec')
  BY <1>2, <1>5 DEF StationOK
<1>9. UNCHANGED <<opt, wk, msgs, ms, subs, chan>> /\ dropTask' \in BOOLEAN
  BY DEF CreateThenJoin, StreamInv, StreamTypeOK
<1> QED BY <1>1, <1>2, <1>3, <1>5, <1>6, <1>7, <1>8, <1>9, ClientStays

\* The run cannot be created.
LEMMA CreationFailsStep == ASSUME StreamInv, NEW c \in Creators, CreationFails(c) PROVE StreamInv'
<1> DEFINE l == [cl[c] EXCEPT !.pc = "failed"]
<1>1. c \in Clients /\ c \in RunClients /\ c \notin Joiners /\ c \notin Watchers /\ cl[c] \in Client
  BY Typed, RunStreamAssumption
<1>2. /\ l \in Client /\ l.pc = "failed" /\ l.from = cl[c].from /\ l.last = cl[c].last /\ l.seen = cl[c].seen
      /\ l.at = cl[c].at
  BY <1>1 DEF Client
<1>3. cl' = [cl EXCEPT ![c] = l]
  BY <1>1 DEF CreationFails, StreamInv, StreamTypeOK
<1> HIDE DEF l
<1>4. SeenOK(cl[c]) /\ StationOK(cl[c], chan[c], c \in subs, rec) /\ cl[c].pc = "creating"
  BY <1>1 DEF CreationFails, StreamInv, ClientsInv
<1>5. c \in subs /\ cl[c].last = NoId /\ cl[c].seen = <<>> /\ cl[c].from = 0
  BY <1>4 DEF StationOK, StreamInv, ClientsInv
<1>6. SeenOK(l)
  BY <1>2, <1>5 DEF SeenOK
<1>7. StationOK(l, chan[c], TRUE, rec')
  BY <1>2 DEF StationOK
<1>8. UNCHANGED <<opt, rec, wk, msgs, ms, subs, chan>> /\ dropTask' \in BOOLEAN
  BY DEF CreationFails, StreamInv, StreamTypeOK
<1> QED BY <1>1, <1>2, <1>3, <1>5, <1>6, <1>7, <1>8, ClientStays

\* A client joins a run that exists or existed.
LEMMA SubscribeLateStep == ASSUME StreamInv, NEW c \in Joiners, SubscribeLate(c) PROVE StreamInv'
<1>1. c \in Clients /\ c \in RunClients /\ c \notin Creators /\ c \notin Watchers /\ cl[c] \in Client
  BY Typed, RunStreamAssumption
<1>2. PICK last \in {0, NoId} \cup {msgs[n].id : n \in 1..Len(msgs)} :
             cl' = [cl EXCEPT ![c].pc = "joining", ![c].last = last, ![c].from = Len(msgs)]
  BY DEF SubscribeLate
<1> DEFINE l == [cl[c] EXCEPT !.pc = "joining", !.last = last, !.from = Len(msgs)]
<1>3. last \in 0..NoId /\ Len(msgs) \in 0..MaxMessages + 1
  <2>1. \A n \in 1..Len(msgs) : msgs[n].id \in 0..MaxMillis
    BY Typed DEF Message
  <2> QED BY <2>1, RunStreamAssumption, Typed DEF NoId
<1>4. /\ l \in Client /\ l.pc = "joining" /\ l.from = Len(msgs) /\ l.last = last /\ l.seen = cl[c].seen
      /\ l.at = cl[c].at
  BY <1>1, <1>3 DEF Client
<1>5. cl' = [cl EXCEPT ![c] = l]
  BY <1>1, <1>2 DEF StreamInv, StreamTypeOK
<1> HIDE DEF l
<1>6. cl[c].seen = <<>> /\ cl[c].at = 0 /\ rec # "none"
  BY <1>1 DEF SubscribeLate, Appears, StreamInv, ClientsInv, StationOK
<1>7. SeenOK(l)
  BY <1>4, <1>6 DEF SeenOK
<1>8. StationOK(l, <<>>, TRUE, rec')
  BY <1>4, <1>6, EmptyQueue DEF SubscribeLate, StationOK
<1> QED BY <1>1, <1>4, <1>5, <1>7, <1>8, EmptyQueue, Typed, ClientMoves
        DEF SubscribeLate, AddQueue, StreamInv, StreamTypeOK

\* The replay begins.
LEMMA JoinStep == ASSUME StreamInv, NEW c \in RunClients, Join(c) PROVE StreamInv'
<1> DEFINE l == [cl[c] EXCEPT !.pc = "replay", !.found = Exists]
<1>1. c \in Clients /\ c \notin Watchers /\ cl[c] \in Client
  BY Typed, RunStreamAssumption DEF RunClients
<1>2. /\ l \in Client /\ l.pc = "replay" /\ l.from = cl[c].from /\ l.last = cl[c].last /\ l.seen = cl[c].seen
      /\ l.at = cl[c].at
  BY <1>1 DEF Client, Exists
<1>3. cl' = [cl EXCEPT ![c] = l]
  BY <1>1 DEF Join, StreamInv, StreamTypeOK
<1> HIDE DEF l
<1>4. SeenOK(cl[c]) /\ StationOK(cl[c], chan[c], c \in subs, rec) /\ cl[c].pc = "joining"
  BY <1>1 DEF Join, StreamInv, ClientsInv
<1>5. c \in subs /\ rec # "none" /\ cl[c].seen = <<>> /\ cl[c].at = 0 /\ Read(chan[c]) = cl[c].from
  BY <1>4 DEF StationOK
<1>6. SeenOK(l)
  BY <1>2, <1>5 DEF SeenOK
<1>7. ReplayOK(l)
  BY <1>2, <1>5, Typed, StoredIs DEF ReplayOK
<1>8. StationOK(l, chan[c], TRUE, rec')
  BY <1>2, <1>5, <1>7 DEF StationOK, Join
<1>9. c \in Creators => l.last = NoId /\ l.from = 0
  BY <1>2, <1>4 DEF StreamInv, ClientsInv
<1>10. UNCHANGED <<opt, rec, wk, msgs, ms, subs, chan>> /\ dropTask' \in BOOLEAN
  BY DEF Join, StreamInv, StreamTypeOK
<1> QED BY <1>1, <1>2, <1>3, <1>5, <1>6, <1>8, <1>9, <1>10, ClientStays

\* A turn of the replay loop.
LEMMA ReplayStep == ASSUME StreamInv, NEW c \in RunClients, Replay(c) PROVE StreamInv'
<1> DEFINE at == cl[c].at + 1
<1>1. /\ c \in Clients /\ c \notin Watchers /\ cl[c] \in Client /\ at \in Nat
      /\ cl[c].seen \in Seq(1..MaxMessages + 1) /\ Len(cl[c].seen) \in Nat
  BY Typed, RunStreamAssumption DEF RunClients
<1>2. SeenOK(cl[c]) /\ StationOK(cl[c], chan[c], c \in subs, rec) /\ cl[c].pc = "replay"
  BY DEF Replay, StreamInv, ClientsInv
<1>3. c \in subs /\ rec # "none" /\ ReplayOK(cl[c]) /\ Read(chan[c]) = cl[c].from
  BY <1>2 DEF StationOK
<1>4. c \in Creators => cl[c].last = NoId /\ cl[c].from = 0
  BY <1>2 DEF StreamInv, ClientsInv
<1>5. UNCHANGED <<opt, rec, wk, msgs, ms>> /\ dropTask' \in BOOLEAN
  BY DEF Replay, StreamInv, StreamTypeOK
<1>6. CASE /\ (cl[c].last = NoId \/ at > Len(Stored))
           /\ cl' = [cl EXCEPT ![c].pc = "live"]
           /\ UNCHANGED <<subs, chan>>
  <2> DEFINE l == [cl[c] EXCEPT !.pc = "live"]
  <2>1. /\ l \in Client /\ l.pc = "live" /\ l.from = cl[c].from /\ l.last = cl[c].last /\ l.seen = cl[c].seen
        /\ l.at = cl[c].at
    BY <1>1 DEF Client
  <2>2. cl' = [cl EXCEPT ![c] = l]
    BY <1>1, <1>6 DEF StreamInv, StreamTypeOK
  <2> HIDE DEF l
  <2>3. SeenOK(l)
    BY <1>2, <2>1 DEF SeenOK
  <2>4. Read(chan[c]) <= Len(msgs) /\ Read(chan[c]) \in Int
    BY <1>1, Typed DEF Read
  <2>5. \A n \in 1..Len(msgs) : Owed(l, n) /\ n <= Read(chan[c]) => Has(l, n)
    <3> SUFFICES ASSUME NEW n \in 1..Len(msgs), Owed(l, n), n <= Read(chan[c]) PROVE Has(l, n)
      OBVIOUS
    <3>1. opt.resumable /\ l.last # NoId /\ msgs[n].id > l.last
      BY <1>1, <1>3, <2>1, <2>4, Typed DEF Owed
    <3>2. n \in 1..cl[c].at
      BY <1>1, <1>6, <2>1, <3>1, Typed, StoredIs
    <3>3. Has(cl[c], n)
      BY <1>3, <2>1, <3>1, <3>2 DEF ReplayOK
    <3> QED BY <2>1, <3>3 DEF Has
  <2>6. l.seen # <<>> => l.seen[Len(l.seen)] >= Read(chan[c])
    <3> SUFFICES ASSUME cl[c].seen # <<>> PROVE cl[c].seen[Len(cl[c].seen)] >= Read(chan[c])
      BY <2>1
    <3>1. cl[c].last # NoId /\ opt.resumable /\ cl[c].seen[Len(cl[c].seen)] = cl[c].at
      BY <1>3 DEF ReplayOK
    <3>2. cl[c].at >= Len(msgs)
      BY <1>1, <1>6, <3>1, Typed, StoredIs
    <3> QED BY <1>1, <2>4, <3>1, <3>2, Typed
  <2>7. l.last = NoId => l.from + Len(l.seen) = Read(chan[c])
    <3> SUFFICES ASSUME cl[c].last = NoId PROVE cl[c].from + Len(cl[c].seen) = Read(chan[c])
      BY <2>1
    <3>1. cl[c].seen = <<>> /\ cl[c].from \in Nat
      BY <1>1, <1>3, Typed DEF ReplayOK
    <3> QED BY <1>3, <3>1
  <2>8. LiveOK(l, chan[c])
    BY <2>5, <2>6, <2>7 DEF LiveOK
  <2>9. StationOK(l, chan[c], TRUE, rec')
    BY <1>3, <1>5, <2>1, <2>8 DEF StationOK
  <2> QED BY <1>1, <1>3, <1>4, <1>5, <1>6, <2>1, <2>2, <2>3, <2>9, ClientStays
<1>7. CASE /\ cl[c].last # NoId /\ at <= Len(Stored)
           /\ Stored[at].id > cl[c].last /\ Stored[at].kind = "done"
           /\ Close(c, "closed")
  <2> DEFINE l == [cl[c] EXCEPT !.pc = "closed"]
  <2>1. /\ l \in Client /\ l.pc = "closed" /\ l.from = cl[c].from /\ l.last = cl[c].last /\ l.seen = cl[c].seen
        /\ l.at = cl[c].at
    BY <1>1 DEF Client
  <2>2. cl' = [cl EXCEPT ![c] = l] /\ RemoveQueue(c)
    BY <1>1, <1>7 DEF Close, StreamInv, StreamTypeOK
  <2> HIDE DEF l
  <2>3. SeenOK(l)
    BY <1>2, <2>1 DEF SeenOK
  <2>4. at \in 1..Len(Stored)
    BY <1>1, <1>7, Typed, StoredIs
  <2>5. Stored[at] = msgs[at] /\ at \in 1..Len(msgs) /\ opt.resumable
    BY <2>4, StoredIs
  <2>6. at = Len(msgs) /\ wk = "left"
    BY <1>7, <2>5 DEF StreamInv, MessagesInv
  <2>7. \A n \in 1..Len(msgs) : Owed(l, n) => Has(l, n)
    <3> SUFFICES ASSUME NEW n \in 1..Len(msgs), Owed(l, n) PROVE Has(l, n)
      OBVIOUS
    <3>1. msgs[n].kind # "done" /\ msgs[n].id > cl[c].last
      BY <1>7, <2>1, <2>5 DEF Owed
    <3>2. n # at
      BY <1>7, <2>5, <3>1
    <3>3. n \in 1..cl[c].at
      BY <1>1, <2>6, <3>2, Typed
    <3>4. Has(cl[c], n)
      BY <1>3, <3>1, <3>3 DEF ReplayOK
    <3> QED BY <2>1, <3>4 DEF Has
  <2>8. StationOK(l, <<>>, FALSE, rec)
    BY <2>1, <2>6, <2>7 DEF StationOK, ClosedOK
  <2>9. c \in Creators => l.last = NoId /\ l.from = 0
    BY <1>4, <2>1
  <2> QED BY <1>1, <1>5, <2>1, <2>2, <2>3, <2>8, <2>9, ClientCloses
<1>8. CASE /\ cl[c].last # NoId /\ at <= Len(Stored)
           /\ (Stored[at].id <= cl[c].last \/ Stored[at].kind # "done")
           /\ cl' = [cl EXCEPT ![c].at = at,
                               ![c].seen = IF Stored[at].id > cl[c].last THEN Append(@, at) ELSE @]
           /\ UNCHANGED <<subs, chan>>
  <2> DEFINE seen == IF Stored[at].id > cl[c].last THEN Append(cl[c].seen, at) ELSE cl[c].seen
             l == [cl[c] EXCEPT !.at = at, !.seen = seen]
  <2>1. at \in 1..Len(Stored)
    BY <1>1, <1>8, Typed, StoredIs
  <2>2. Stored[at] = msgs[at] /\ at \in 1..Len(msgs) /\ opt.resumable
    BY <2>1, StoredIs
  <2>3. at \in 1..MaxMessages + 1 /\ at \in 0..MaxMessages + 1 /\ seen \in Seq(1..MaxMessages + 1)
    <3>1. at \in 1..MaxMessages + 1 /\ at \in 0..MaxMessages + 1
      BY <1>1, <2>2, Typed
    <3>2. Append(cl[c].seen, at) \in Seq(1..MaxMessages + 1)
      BY <1>1, <3>1
    <3> QED BY <1>1, <3>1, <3>2
  <2>4. cl' = [cl EXCEPT ![c] = l]
    BY <1>1, <1>8 DEF StreamInv, StreamTypeOK
  <2>5. msgs[at].id > cl[c].last => /\ Len(seen) = Len(cl[c].seen) + 1 /\ seen[Len(cl[c].seen) + 1] = at
                                    /\ \A i \in 1..Len(cl[c].seen) : seen[i] = cl[c].seen[i]
    BY <1>1, <2>2, <2>3
  <2>6. ~ (msgs[at].id > cl[c].last) => seen = cl[c].seen
    BY <2>2
  <2> HIDE DEF seen
  <2>7. /\ l \in Client /\ l.pc = "replay" /\ l.from = cl[c].from /\ l.last = cl[c].last /\ l.seen = seen /\ l.at = at
    BY <1>1, <1>2, <2>3 DEF Client
  <2> HIDE DEF l
  <2>8. SeenOK(l)
    <3>1. CASE ~ (msgs[at].id > cl[c].last)
      BY <1>2, <2>6, <2>7, <3>1 DEF SeenOK
    <3>2. CASE msgs[at].id > cl[c].last
      <4>1. msgs[at].kind # "done"
        BY <1>8, <2>2, <3>2, Typed
      <4>2. \A i \in 1..Len(seen) : seen[i] \in 1..Len(msgs) /\ msgs[seen[i]].kind # "done"
        BY <1>1, <1>2, <2>2, <2>5, <3>2, <4>1 DEF SeenOK
      <4>3. ASSUME NEW i \in 1..(Len(seen) - 1)
            PROVE  seen[i + 1] = seen[i] + 1 \/ (seen[i + 1] <= seen[i] /\ cl[c].last # NoId)
        <5>1. CASE i = Len(cl[c].seen)
          <6>1. cl[c].seen # <<>> /\ seen[i] = cl[c].at /\ seen[i + 1] = at
            BY <1>1, <1>3, <2>5, <3>2, <5>1 DEF ReplayOK
          <6> QED BY <6>1
        <5>2. CASE i # Len(cl[c].seen)
          <6>1. i \in 1..(Len(cl[c].seen) - 1)
            BY <1>1, <2>5, <3>2, <5>2
          <6>2. seen[i + 1] = cl[c].seen[i + 1] /\ seen[i] = cl[c].seen[i]
            BY <1>1, <2>5, <3>2, <6>1
          <6> QED BY <1>2, <6>1, <6>2 DEF SeenOK
        <5> QED BY <5>1, <5>2
      <4> QED BY <1>8, <2>7, <4>2, <4>3 DEF SeenOK
    <3> QED BY <3>1, <3>2
  <2>9. ReplayOK(l)
    <3>1. l.at <= Len(Stored) /\ l.last # NoId /\ opt.resumable
      BY <1>8, <2>2, <2>7
    <3>2. seen # <<>> => seen[Len(seen)] = at /\ at > 0 /\ msgs[at].id > cl[c].last
      <4>1. CASE ~ (msgs[at].id > cl[c].last)
        <5> SUFFICES ASSUME cl[c].seen # <<>> PROVE FALSE
          BY <2>6, <4>1
        <5>1. cl[c].at \in 1..Len(msgs) /\ cl[c].at <= at /\ msgs[cl[c].at].id > cl[c].last
          <6>1. cl[c].at > 0 /\ msgs[cl[c].at].id > cl[c].last
            BY <1>3 DEF ReplayOK
          <6>2. cl[c].at \in Nat /\ Len(msgs) \in Nat /\ at <= Len(msgs)
            BY <1>1, <2>2, Typed
          <6> QED BY <6>1, <6>2
        <5>2. msgs[cl[c].at].id <= msgs[at].id
          <6>1. \A m, n \in 1..Len(msgs) : m <= n => msgs[m].id <= msgs[n].id
            BY DEF StreamInv, MessagesInv
          <6> HIDE DEF at
          <6> QED BY <2>2, <5>1, <6>1
        <5>3. msgs[cl[c].at].id \in Nat /\ msgs[at].id \in Nat /\ cl[c].last \in Nat
          BY <1>1, <2>2, <5>1, Typed
        <5> QED BY <4>1, <5>1, <5>2, <5>3
      <4>2. CASE msgs[at].id > cl[c].last
        BY <1>1, <2>2, <2>5, <4>2
      <4> QED BY <4>1, <4>2
    <3>3. ASSUME NEW n \in 1..at, msgs[n].id > cl[c].last PROVE \E i \in 1..Len(seen) : seen[i] = n
      <4>1. CASE n = at
        BY <1>1, <2>5, <3>3, <4>1
      <4>2. CASE n # at
        <5>1. n \in 1..cl[c].at
          BY <1>1, <4>2, Typed
        <5>2. PICK i \in 1..Len(cl[c].seen) : cl[c].seen[i] = n
          BY <1>3, <3>3, <5>1 DEF ReplayOK, Has
        <5>3. i \in 1..Len(seen) /\ seen[i] = n
          BY <1>1, <2>5, <2>6, <5>2
        <5> QED BY <5>3
      <4> QED BY <4>1, <4>2
    <3> QED BY <2>7, <3>1, <3>2, <3>3 DEF ReplayOK, Has
  <2>10. StationOK(l, chan[c], TRUE, rec')
    BY <1>3, <1>5, <2>7, <2>9 DEF StationOK
  <2>11. c \in Creators => l.last = NoId /\ l.from = 0
    BY <1>4, <2>7
  <2> QED BY <1>1, <1>3, <1>5, <1>8, <2>4, <2>7, <2>8, <2>10, <2>11, ClientStays
<1> QED BY <1>6, <1>7, <1>8 DEF Replay

\* The message at the head of a queue is the next one.
LEMMA HeadIsNext ==
  ASSUME StreamInv, NEW c \in Clients, c \in subs, chan[c] # <<>>
  PROVE  /\ Head(chan[c]) = Read(chan[c]) + 1 /\ Head(chan[c]) \in 1..Len(msgs)
         /\ Tail(chan[c]) \in Seq(1..MaxMessages + 1) /\ QueueOK(Tail(chan[c]))
         /\ Read(Tail(chan[c])) = Read(chan[c]) + 1 /\ Read(chan[c]) \in Nat
<1> DEFINE q == chan[c]
<1>1. q \in Seq(1..MaxMessages + 1) /\ Len(q) \in Nat \ {0} /\ Len(msgs) \in Nat /\ QueueOK(q)
  BY Typed DEF StreamInv, ClientsInv
<1> HIDE DEF q
<1>2. /\ Head(q) = q[1] /\ Tail(q) \in Seq(1..MaxMessages + 1) /\ Len(Tail(q)) = Len(q) - 1
      /\ \A i \in 1..Len(Tail(q)) : Tail(q)[i] = q[i + 1] /\ i + 1 \in 1..Len(q)
  BY <1>1
<1>3. Read(q) = Len(msgs) - Len(q) /\ Read(Tail(q)) = Len(msgs) - Len(Tail(q)) /\ Len(q) <= Len(msgs)
  BY <1>1 DEF Read, QueueOK
<1>4. q[1] = Read(q) + 1
  BY <1>1 DEF QueueOK
<1>5. \A i \in 1..Len(Tail(q)) : Tail(q)[i] = Read(Tail(q)) + i
  <2> SUFFICES ASSUME NEW i \in 1..Len(Tail(q)) PROVE Tail(q)[i] = Read(Tail(q)) + i
    OBVIOUS
  <2>1. Tail(q)[i] = Read(q) + (i + 1)
    BY <1>1, <1>2 DEF QueueOK
  <2> QED BY <1>1, <1>2, <1>3, <2>1
<1>6. QueueOK(Tail(q))
  BY <1>1, <1>2, <1>3, <1>5 DEF QueueOK
<1>7. Head(q) \in 1..Len(msgs) /\ Read(Tail(q)) = Read(q) + 1 /\ Read(q) \in Nat
  BY <1>1, <1>2, <1>3, <1>4
<1> QED BY <1>2, <1>4, <1>6, <1>7 DEF q

\* A message from the queue.
LEMMA ReceiveStep == ASSUME StreamInv, NEW c \in RunClients, Receive(c) PROVE StreamInv'
<1> DEFINE n == Head(chan[c])
<1>1. /\ c \in Clients /\ c \notin Watchers /\ cl[c] \in Client
      /\ cl[c].seen \in Seq(1..MaxMessages + 1) /\ Len(cl[c].seen) \in Nat
  BY Typed, RunStreamAssumption DEF RunClients
<1>2. SeenOK(cl[c]) /\ StationOK(cl[c], chan[c], c \in subs, rec) /\ cl[c].pc = "live" /\ chan[c] # <<>>
  BY DEF Receive, StreamInv, ClientsInv
<1>3. c \in subs /\ rec # "none" /\ LiveOK(cl[c], chan[c])
  BY <1>2 DEF StationOK
<1>4. c \in Creators => cl[c].last = NoId /\ cl[c].from = 0
  BY <1>2 DEF StreamInv, ClientsInv
<1>5. UNCHANGED <<opt, rec, wk, msgs, ms>> /\ dropTask' \in BOOLEAN
  BY DEF Receive, StreamInv, StreamTypeOK
<1>6. /\ n = Read(chan[c]) + 1 /\ n \in 1..Len(msgs) /\ Tail(chan[c]) \in Seq(1..MaxMessages + 1)
      /\ QueueOK(Tail(chan[c])) /\ Read(Tail(chan[c])) = n /\ Read(chan[c]) \in Nat
  BY <1>1, <1>2, <1>3, HeadIsNext
<1>7. CASE msgs[n].kind = "done" /\ Close(c, "closed")
  <2> DEFINE l == [cl[c] EXCEPT !.pc = "closed"]
  <2>1. /\ l \in Client /\ l.pc = "closed" /\ l.from = cl[c].from /\ l.last = cl[c].last /\ l.seen = cl[c].seen
        /\ l.at = cl[c].at
    BY <1>1 DEF Client
  <2>2. cl' = [cl EXCEPT ![c] = l] /\ RemoveQueue(c)
    BY <1>1, <1>7 DEF Close, StreamInv, StreamTypeOK
  <2> HIDE DEF l
  <2>3. SeenOK(l)
    BY <1>2, <2>1 DEF SeenOK
  <2>4. n = Len(msgs) /\ wk = "left"
    BY <1>6, <1>7 DEF StreamInv, MessagesInv
  <2>5. \A m \in 1..Len(msgs) : Owed(l, m) => Has(l, m)
    <3> SUFFICES ASSUME NEW m \in 1..Len(msgs), Owed(l, m) PROVE Has(l, m)
      OBVIOUS
    <3>1. m # n /\ Owed(cl[c], m)
      BY <1>7, <2>1 DEF Owed
    <3>2. m <= Read(chan[c])
      BY <1>6, <2>4, <3>1
    <3> QED BY <1>3, <2>1, <3>1, <3>2 DEF LiveOK, Has
  <2>6. StationOK(l, <<>>, FALSE, rec)
    BY <2>1, <2>4, <2>5 DEF StationOK, ClosedOK
  <2>7. c \in Creators => l.last = NoId /\ l.from = 0
    BY <1>4, <2>1
  <2> QED BY <1>1, <1>5, <2>1, <2>2, <2>3, <2>6, <2>7, ClientCloses
<1>8. CASE /\ msgs[n].kind # "done" /\ cl[c].found
           /\ chan' = [chan EXCEPT ![c] = Tail(@)]
           /\ cl' = [cl EXCEPT ![c].seen = Append(@, n)]
           /\ UNCHANGED <<subs, dropTask>>
  <2> DEFINE seen == Append(cl[c].seen, n)
             l == [cl[c] EXCEPT !.seen = seen]
  <2>1. n \in 1..MaxMessages + 1
    BY <1>6, Typed
  <2>2. /\ seen \in Seq(1..MaxMessages + 1) /\ Len(seen) = Len(cl[c].seen) + 1 /\ seen[Len(cl[c].seen) + 1] = n
        /\ \A i \in 1..Len(cl[c].seen) : seen[i] = cl[c].seen[i]
    BY <1>1, <2>1
  <2>3. cl' = [cl EXCEPT ![c] = l] /\ chan' = [chan EXCEPT ![c] = Tail(chan[c])]
    BY <1>1, <1>8 DEF StreamInv, StreamTypeOK
  <2> HIDE DEF seen
  <2>4. /\ l \in Client /\ l.pc = "live" /\ l.from = cl[c].from /\ l.last = cl[c].last /\ l.seen = seen
        /\ l.at = cl[c].at
    BY <1>1, <1>2, <2>2 DEF Client
  <2> HIDE DEF l, n
  <2>5. SeenOK(l)
    <3>1. \A i \in 1..Len(seen) : seen[i] \in 1..Len(msgs) /\ msgs[seen[i]].kind # "done"
      <4> SUFFICES ASSUME NEW i \in 1..Len(seen) PROVE seen[i] \in 1..Len(msgs) /\ msgs[seen[i]].kind # "done"
        OBVIOUS
      <4>1. CASE i = Len(cl[c].seen) + 1
        BY <1>6, <1>8, <2>2, <4>1
      <4>2. CASE i # Len(cl[c].seen) + 1
        <5>1. i \in 1..Len(cl[c].seen)
          BY <1>1, <2>2, <4>2
        <5> QED BY <1>2, <2>2, <5>1 DEF SeenOK
      <4> QED BY <4>1, <4>2
    <3>2. cl[c].last = NoId => \A i \in 1..Len(seen) : seen[i] = cl[c].from + i
      <4> SUFFICES ASSUME cl[c].last = NoId, NEW i \in 1..Len(seen) PROVE seen[i] = cl[c].from + i
        OBVIOUS
      <4>1. CASE i = Len(cl[c].seen) + 1
        <5>1. cl[c].from + Len(cl[c].seen) = Read(chan[c]) /\ cl[c].from \in Nat
          BY <1>1, <1>3, Typed DEF LiveOK
        <5>2. seen[i] = Read(chan[c]) + 1 /\ Len(cl[c].seen) \in Nat
          BY <1>1, <1>6, <2>2, <4>1
        <5> QED BY <4>1, <5>1, <5>2
      <4>2. CASE i # Len(cl[c].seen) + 1
        BY <1>1, <1>2, <2>2, <4>2 DEF SeenOK
      <4> QED BY <4>1, <4>2
    <3>3. ASSUME NEW i \in 1..(Len(seen) - 1)
          PROVE  seen[i + 1] = seen[i] + 1 \/ (seen[i + 1] <= seen[i] /\ cl[c].last # NoId)
      <4>1. CASE i = Len(cl[c].seen)
        <5>1. cl[c].seen # <<>> /\ seen[i] = cl[c].seen[i] /\ seen[i + 1] = n /\ i \in 1..Len(seen) /\ i + 1 \in 1..Len(seen)
          BY <1>1, <2>2, <4>1
        <5>2. seen[i] \in 1..Len(msgs) /\ seen[i] >= Read(chan[c])
          BY <1>3, <3>1, <4>1, <5>1 DEF LiveOK
        <5>3. CASE cl[c].last = NoId
          <6>1. seen[i] = cl[c].from + i /\ seen[i + 1] = cl[c].from + (i + 1) /\ cl[c].from \in Nat
            BY <1>1, <3>2, <5>1, <5>3, Typed
          <6> QED BY <6>1
        <5>4. CASE cl[c].last # NoId
          <6>1. seen[i] \in Nat /\ Read(chan[c]) \in Nat
            BY <1>6, <5>2, Typed
          <6> QED BY <1>6, <5>1, <5>2, <5>4, <6>1
        <5> QED BY <5>3, <5>4
      <4>2. CASE i # Len(cl[c].seen)
        <5>1. i \in 1..(Len(cl[c].seen) - 1)
          BY <1>1, <2>2, <4>2
        <5>2. seen[i + 1] = cl[c].seen[i + 1] /\ seen[i] = cl[c].seen[i]
          BY <1>1, <2>2, <5>1
        <5> QED BY <1>2, <5>1, <5>2 DEF SeenOK
      <4> QED BY <4>1, <4>2
    <3> QED BY <2>4, <3>1, <3>2, <3>3 DEF SeenOK
  <2>6. LiveOK(l, Tail(chan[c]))
    <3>1. seen[Len(seen)] >= n
      BY <1>1, <1>6, <2>2
    <3>2. cl[c].last = NoId => cl[c].from + Len(seen) = n
      <4>1. cl[c].last = NoId => cl[c].from + Len(cl[c].seen) = Read(chan[c])
        BY <1>3 DEF LiveOK
      <4>2. cl[c].from \in Nat
        BY <1>1, Typed
      <4>3. n = Read(chan[c]) + 1 /\ Len(seen) = Len(cl[c].seen) + 1 /\ Len(cl[c].seen) \in Nat
        BY <1>1, <1>6, <2>2
      <4> QED BY <4>1, <4>2, <4>3
    <3>3. ASSUME NEW m \in 1..Len(msgs), Owed(l, m), m <= n PROVE Has(l, m)
      <4>1. CASE m = n
        <5>1. Len(seen) \in 1..Len(seen) /\ seen[Len(seen)] = m
          BY <1>1, <2>2, <4>1
        <5> QED BY <2>4, <5>1 DEF Has
      <4>2. CASE m # n
        <5>1. Owed(cl[c], m) /\ m <= Read(chan[c])
          BY <1>6, <2>4, <3>3, <4>2 DEF Owed
        <5>2. PICK i \in 1..Len(cl[c].seen) : cl[c].seen[i] = m
          BY <1>3, <5>1 DEF LiveOK, Has
        <5>3. i \in 1..Len(seen) /\ seen[i] = m
          BY <1>1, <2>2, <5>2
        <5> QED BY <2>4, <5>3 DEF Has
      <4> QED BY <4>1, <4>2
    <3> QED BY <1>6, <2>4, <3>1, <3>2, <3>3 DEF LiveOK
  <2>7. StationOK(l, Tail(chan[c]), TRUE, rec')
    BY <1>3, <1>5, <2>4, <2>6 DEF StationOK
  <2>8. c \in Creators => l.last = NoId /\ l.from = 0
    BY <1>4, <2>4
  <2>9. subs' = subs \cup {c}
    BY <1>3, <1>8
  <2> QED BY <1>1, <1>3, <1>5, <1>6, <2>3, <2>4, <2>5, <2>7, <2>8, <2>9, ClientMoves
<1>9. CASE Close(c, "failed")
  <2> DEFINE l == [cl[c] EXCEPT !.pc = "failed"]
  <2>1. /\ l \in Client /\ l.pc = "failed" /\ l.from = cl[c].from /\ l.last = cl[c].last /\ l.seen = cl[c].seen
        /\ l.at = cl[c].at
    BY <1>1 DEF Client
  <2>2. cl' = [cl EXCEPT ![c] = l] /\ RemoveQueue(c)
    BY <1>1, <1>9 DEF Close, StreamInv, StreamTypeOK
  <2> HIDE DEF l
  <2>3. SeenOK(l)
    BY <1>2, <2>1 DEF SeenOK
  <2>4. StationOK(l, <<>>, FALSE, rec)
    BY <2>1 DEF StationOK
  <2>5. c \in Creators => l.last = NoId /\ l.from = 0
    BY <1>4, <2>1
  <2> QED BY <1>1, <1>5, <2>1, <2>2, <2>3, <2>4, <2>5, ClientCloses
<1> QED BY <1>7, <1>8, <1>9 DEF Receive

\* Half a second without a message.
LEMMA IdleCheckStep == ASSUME StreamInv, NEW c \in RunClients, IdleCheck(c) PROVE StreamInv'
<1>1. c \in Clients /\ c \notin Watchers /\ cl[c] \in Client
  BY Typed, RunStreamAssumption DEF RunClients
<1>2. SeenOK(cl[c]) /\ StationOK(cl[c], chan[c], c \in subs, rec) /\ cl[c].pc = "live" /\ chan[c] = <<>>
  BY DEF IdleCheck, StreamInv, ClientsInv
<1>3. c \in subs /\ rec # "none" /\ LiveOK(cl[c], chan[c])
  BY <1>2 DEF StationOK
<1>4. c \in Creators => cl[c].last = NoId /\ cl[c].from = 0
  BY <1>2 DEF StreamInv, ClientsInv
<1>5. UNCHANGED <<opt, rec, wk, msgs, ms, dropTask>> /\ dropTask' \in BOOLEAN
  BY DEF IdleCheck, StreamInv, StreamTypeOK
<1>6. CASE ~ ActiveRun /\ Close(c, "closed")
  <2> DEFINE l == [cl[c] EXCEPT !.pc = "closed"]
  <2>1. /\ l \in Client /\ l.pc = "closed" /\ l.from = cl[c].from /\ l.last = cl[c].last /\ l.seen = cl[c].seen
        /\ l.at = cl[c].at
    BY <1>1 DEF Client
  <2>2. cl' = [cl EXCEPT ![c] = l] /\ RemoveQueue(c)
    BY <1>1, <1>6 DEF Close, StreamInv, StreamTypeOK
  <2> HIDE DEF l
  <2>3. SeenOK(l)
    BY <1>2, <2>1 DEF SeenOK
  <2>4. rec \in {"interrupted", "deleted"} \/ wk \in {"settled", "left"}
    BY <1>3, <1>6 DEF ActiveRun, StreamInv, StreamTypeOK, MessagesInv, Settled
  <2>5. \A m \in 1..Len(msgs) : Owed(l, m) => Has(l, m)
    <3> SUFFICES ASSUME NEW m \in 1..Len(msgs), Owed(l, m) PROVE Has(l, m)
      OBVIOUS
    <3>1. Owed(cl[c], m) /\ m <= Read(chan[c])
      BY <1>2, <2>1, EmptyQueue, Typed DEF Owed
    <3> QED BY <1>3, <2>1, <3>1 DEF LiveOK, Has
  <2>6. StationOK(l, <<>>, FALSE, rec)
    BY <2>1, <2>4, <2>5 DEF StationOK, ClosedOK
  <2>7. c \in Creators => l.last = NoId /\ l.from = 0
    BY <1>4, <2>1
  <2> QED BY <1>1, <1>5, <2>1, <2>2, <2>3, <2>6, <2>7, ClientCloses
<1>7. CASE cl' = [cl EXCEPT ![c].found = TRUE] /\ UNCHANGED <<subs, chan>>
  <2> DEFINE l == [cl[c] EXCEPT !.found = TRUE]
  <2>1. /\ l \in Client /\ l.pc = "live" /\ l.from = cl[c].from /\ l.last = cl[c].last /\ l.seen = cl[c].seen
        /\ l.at = cl[c].at
    BY <1>1, <1>2 DEF Client
  <2>2. cl' = [cl EXCEPT ![c] = l]
    BY <1>1, <1>7 DEF StreamInv, StreamTypeOK
  <2> HIDE DEF l
  <2>3. SeenOK(l)
    BY <1>2, <2>1 DEF SeenOK
  <2>4. LiveOK(l, chan[c])
    BY <1>3, <2>1 DEF LiveOK, Owed, Has
  <2>5. StationOK(l, chan[c], TRUE, rec')
    BY <1>3, <1>5, <2>1, <2>4 DEF StationOK
  <2>6. c \in Creators => l.last = NoId /\ l.from = 0
    BY <1>4, <2>1
  <2> QED BY <1>1, <1>3, <1>5, <1>7, <2>1, <2>2, <2>3, <2>5, <2>6, ClientStays
<1> QED BY <1>6, <1>7 DEF IdleCheck

\* The client disconnects.
LEMMA DisconnectStep == ASSUME StreamInv, NEW c \in RunClients, Disconnect(c) PROVE StreamInv'
<1> DEFINE l == [cl[c] EXCEPT !.pc = "left"]
<1>1. c \in Clients /\ c \notin Watchers /\ cl[c] \in Client
  BY Typed, RunStreamAssumption DEF RunClients
<1>2. /\ l \in Client /\ l.pc = "left" /\ l.from = cl[c].from /\ l.last = cl[c].last /\ l.seen = cl[c].seen
      /\ l.at = cl[c].at
  BY <1>1 DEF Client
<1>3. cl' = [cl EXCEPT ![c] = l] /\ RemoveQueue(c)
  BY <1>1 DEF Disconnect, Close, StreamInv, StreamTypeOK
<1> HIDE DEF l
<1>4. SeenOK(cl[c]) /\ cl[c].pc # "idle"
  BY DEF Disconnect, StreamInv, ClientsInv
<1>5. SeenOK(l)
  BY <1>2, <1>4 DEF SeenOK
<1>6. StationOK(l, <<>>, FALSE, rec)
  BY <1>2 DEF StationOK
<1>7. c \in Creators => l.last = NoId /\ l.from = 0
  BY <1>2, <1>4 DEF StreamInv, ClientsInv
<1>8. UNCHANGED <<opt, rec, wk, msgs, ms>> /\ dropTask' \in BOOLEAN
  BY DEF Disconnect, StreamInv, StreamTypeOK
<1> QED BY <1>1, <1>2, <1>3, <1>5, <1>6, <1>7, <1>8, ClientCloses

(***************************************************************************)
(* The steps of the watchers of the thread                                 *)
(***************************************************************************)
\* What is stored behind an id are positions in the order of publication.
LEMMA RestoredType ==
  ASSUME StreamInv, NEW last \in 0..NoId
  PROVE  Restored(last) \in Seq(1..MaxMessages + 1) /\ (last = NoId => Restored(last) = <<>>)
<1> DEFINE later == {n \in 1..Len(Stored) : Stored[n].id > last}
           Rank(n) == Cardinality({m \in later : m <= n})
           ranks == 1..Cardinality(later)
           rank == [n \in later |-> Rank(n)]
<1>1. Len(Stored) \in Nat /\ Len(Stored) <= MaxMessages + 1 /\ MaxMessages \in Nat
  BY Typed, StoredIs
<1>2. IsFiniteSet(later) /\ Cardinality(later) \in Nat
  <2>1. IsFiniteSet(1..Len(Stored))
    BY <1>1, FS_Interval
  <2>2. IsFiniteSet(later)
    BY <2>1, FS_Subset
  <2> QED BY <2>2, FS_CardinalityType
<1>3. \A n \in later : n \in Nat /\ n \in 1..MaxMessages + 1
  BY <1>1
<1> HIDE DEF later
<1>4. \A n \in later : /\ IsFiniteSet({m \in later : m <= n}) /\ Rank(n) \in Nat
                       /\ Rank(n) <= Cardinality(later)
  <2> SUFFICES ASSUME NEW n \in later
               PROVE  /\ IsFiniteSet({m \in later : m <= n}) /\ Rank(n) \in Nat
                      /\ Rank(n) <= Cardinality(later)
    OBVIOUS
  <2>1. {m \in later : m <= n} \subseteq later
    OBVIOUS
  <2> QED BY <1>2, <2>1, FS_Subset, FS_CardinalityType
<1>5. \A n \in later : Rank(n) \in ranks
  <2> SUFFICES ASSUME NEW n \in later PROVE Rank(n) # 0
    BY <1>2, <1>4
  <2>1. n \in {m \in later : m <= n}
    BY <1>3
  <2> QED BY <1>4, <2>1, FS_EmptySet
<1>6. \A m, n \in later : m < n => Rank(m) < Rank(n)
  <2> SUFFICES ASSUME NEW m \in later, NEW n \in later, m < n PROVE Rank(m) < Rank(n)
    OBVIOUS
  <2>1. {k \in later : k <= m} \subseteq {k \in later : k <= n} /\ {k \in later : k <= m} # {k \in later : k <= n}
    BY <1>3
  <2>2. Rank(m) <= Rank(n) /\ Rank(m) # Rank(n)
    BY <1>4, <2>1, FS_Subset
  <2> QED BY <1>4, <2>2
<1>7. rank \in Injection(later, ranks)
  <2>1. rank \in [later -> ranks]
    BY <1>5
  <2>2. ASSUME NEW m \in later, NEW n \in later, rank[m] = rank[n] PROVE m = n
    <3>1. Rank(m) = Rank(n) /\ Rank(m) \in Nat /\ Rank(n) \in Nat /\ m \in Nat /\ n \in Nat
      BY <1>3, <1>4, <2>2
    <3>2. ~ (Rank(m) < Rank(n)) /\ ~ (Rank(n) < Rank(m))
      BY <3>1
    <3>3. ~ (m < n) /\ ~ (n < m)
      BY <1>6, <3>2
    <3> QED BY <3>1, <3>3
  <2> QED BY <2>1, <2>2 DEF Injection, IsInjective
<1>8. IsFiniteSet(ranks) /\ Cardinality(ranks) = Cardinality(later)
  BY <1>2, FS_Interval
<1>9. \A i \in ranks : \E n \in later : Rank(n) = i
  <2>1. rank \in Surjection(later, ranks)
    BY <1>2, <1>7, <1>8, FS_Injection
  <2> QED BY <2>1 DEF Surjection
<1> DEFINE Position(i) == CHOOSE n \in later : Rank(n) = i
           restored == [i \in ranks |-> Position(i)]
<1>10. \A i \in ranks : Position(i) \in 1..MaxMessages + 1
  BY <1>3, <1>9
<1>11. restored \in Seq(1..MaxMessages + 1)
  <2>1. restored \in [ranks -> 1..MaxMessages + 1]
    BY <1>10
  <2> HIDE DEF restored
  <2>2. [ranks -> 1..MaxMessages + 1] \subseteq Seq(1..MaxMessages + 1)
    BY <1>2, SeqDef
  <2> QED BY <2>1, <2>2
<1>12. CASE last = NoId
  <2>1. Restored(last) = <<>>
    BY <1>12 DEF Restored
  <2> QED BY <2>1
<1>13. CASE last # NoId
  <2>1. Restored(last) = restored
    BY <1>13 DEF Restored, later
  <2> QED BY <1>11, <1>13, <2>1
<1> QED BY <1>12, <1>13

\* A connection begins to watch the thread.
LEMMA WatchThreadStep == ASSUME StreamInv, NEW c \in Watchers, WatchThread(c) PROVE StreamInv'
<1>1. c \in Clients /\ c \notin RunClients /\ c \notin Creators /\ c \notin Joiners /\ cl[c] \in Client
  BY Typed, RunStreamAssumption DEF RunClients
<1>2. PICK last \in {0, NoId} :
             /\ cl' = [cl EXCEPT ![c].pc = "replay", ![c].last = last, ![c].from = Len(msgs)]
             /\ chan' = [chan EXCEPT ![c] = Restored(last)]
  BY DEF WatchThread
<1> DEFINE l == [cl[c] EXCEPT !.pc = "replay", !.last = last, !.from = Len(msgs)]
<1>3. last \in 0..NoId /\ Len(msgs) \in 0..MaxMessages + 1
  BY RunStreamAssumption, Typed DEF NoId
<1>4. /\ l \in Client /\ l.pc = "replay" /\ l.from = Len(msgs) /\ l.last = last /\ l.seen = cl[c].seen
      /\ l.at = cl[c].at
  BY <1>1, <1>3 DEF Client
<1>5. cl' = [cl EXCEPT ![c] = l]
  BY <1>1, <1>2 DEF StreamInv, StreamTypeOK
<1> HIDE DEF l
<1>6. cl[c].seen = <<>> /\ c \notin subs
  BY <1>1 DEF WatchThread, Appears, StreamInv, ClientsInv, WatcherOK
<1>7. Restored(last) \in Seq(1..MaxMessages + 1) /\ (last = NoId => Restored(last) = <<>>)
  BY <1>3, RestoredType
<1>8. WatcherOK(l, Restored(last), FALSE)
  BY <1>4, <1>6, <1>7 DEF WatcherOK
<1>9. UNCHANGED <<opt, rec, wk, msgs, ms>> /\ dropTask' \in BOOLEAN /\ subs' = subs \ {c}
  BY <1>6 DEF WatchThread, StreamInv, StreamTypeOK
<1> QED BY <1>1, <1>2, <1>4, <1>5, <1>7, <1>8, <1>9, ClientMoves

\* A message is handed out.
LEMMA HandOutStep == ASSUME StreamInv, NEW c \in Watchers, HandOut(c) PROVE StreamInv'
<1> DEFINE n == Head(chan[c])
           seen == Append(cl[c].seen, n)
           l == [cl[c] EXCEPT !.seen = seen]
<1>1. /\ c \in Clients /\ c \notin RunClients /\ c \notin Creators /\ c \notin Joiners /\ cl[c] \in Client
      /\ cl[c].seen \in Seq(1..MaxMessages + 1) /\ Len(cl[c].seen) \in Nat /\ chan[c] \in Seq(1..MaxMessages + 1)
  BY Typed, RunStreamAssumption DEF RunClients
<1>2. chan[c] # <<>> /\ cl[c].pc \in {"replay", "live"} /\ WatcherOK(cl[c], chan[c], c \in subs)
  BY DEF HandOut, StreamInv, ClientsInv
<1>3. n \in 1..MaxMessages + 1 /\ Tail(chan[c]) \in Seq(1..MaxMessages + 1)
  <2>1. chan[c] \in Seq(1..MaxMessages + 1) /\ chan[c] # <<>>
    BY <1>1, <1>2
  <2> QED BY <2>1, HeadTailProperties
<1>4. /\ seen \in Seq(1..MaxMessages + 1) /\ Len(seen) = Len(cl[c].seen) + 1 /\ seen[Len(cl[c].seen) + 1] = n
      /\ \A i \in 1..Len(cl[c].seen) : seen[i] = cl[c].seen[i]
  BY <1>1, <1>3
<1>5. cl' = [cl EXCEPT ![c] = l] /\ chan' = [chan EXCEPT ![c] = Tail(chan[c])]
  BY <1>1 DEF HandOut, StreamInv, StreamTypeOK
<1> HIDE DEF seen
<1>6. /\ l \in Client /\ l.pc = cl[c].pc /\ l.from = cl[c].from /\ l.last = cl[c].last /\ l.seen = seen
      /\ l.at = cl[c].at
  BY <1>1, <1>4 DEF Client
<1> HIDE DEF l, n
<1>7. c \in subs => QueueOK(Tail(chan[c])) /\ n = Read(chan[c]) + 1 /\ Read(Tail(chan[c])) = n /\ Read(chan[c]) \in Nat
  BY <1>1, <1>2, HeadIsNext DEF n
<1>8. WatcherOK(l, Tail(chan[c]), c \in subs)
  <2>1. CASE cl[c].last # NoId
    BY <1>2, <1>6, <2>1 DEF WatcherOK
  <2>2. CASE cl[c].last = NoId
    <3>1. cl[c].pc = "live" /\ c \in subs
      BY <1>2, <2>2 DEF WatcherOK
    <3>2. cl[c].from + Len(cl[c].seen) = Read(chan[c]) /\ \A i \in 1..Len(cl[c].seen) : cl[c].seen[i] = cl[c].from + i
      BY <1>2, <2>2, <3>1 DEF WatcherOK
    <3>3. cl[c].from \in Nat /\ Len(cl[c].seen) \in Nat /\ Read(chan[c]) \in Nat /\ n = Read(chan[c]) + 1
      BY <1>1, <1>7, <3>1, Typed
    <3>4. cl[c].from + Len(seen) = n
      BY <1>4, <3>2, <3>3
    <3>5. \A i \in 1..Len(seen) : seen[i] = cl[c].from + i
      <4> SUFFICES ASSUME NEW i \in 1..Len(seen) PROVE seen[i] = cl[c].from + i
        OBVIOUS
      <4>1. CASE i = Len(cl[c].seen) + 1
        BY <1>4, <3>4, <4>1
      <4>2. CASE i # Len(cl[c].seen) + 1
        <5>1. i \in 1..Len(cl[c].seen)
          BY <1>4, <3>3, <4>2
        <5> QED BY <1>4, <3>2, <5>1
      <4> QED BY <4>1, <4>2
    <3> QED BY <1>2, <1>6, <1>7, <2>2, <3>1, <3>4, <3>5 DEF WatcherOK
  <2> QED BY <2>1, <2>2
<1>9. UNCHANGED <<opt, rec, wk, msgs, ms, subs>> /\ dropTask' \in BOOLEAN
  BY DEF HandOut, StreamInv, StreamTypeOK
<1>10. CASE c \in subs
  <2>1. WatcherOK(l, Tail(chan[c]), TRUE) /\ subs' = subs \cup {c}
    BY <1>8, <1>9, <1>10 DEF WatcherOK
  <2> QED BY <1>1, <1>3, <1>5, <1>6, <1>7, <1>9, <1>10, <2>1, ClientMoves
<1>11. CASE c \notin subs
  <2>1. WatcherOK(l, Tail(chan[c]), FALSE) /\ subs' = subs \ {c}
    BY <1>8, <1>9, <1>11 DEF WatcherOK
  <2> QED BY <1>1, <1>3, <1>5, <1>6, <1>9, <2>1, ClientMoves
<1> QED BY <1>10, <1>11

\* A turn of the loop subscribes.
LEMMA SubscribeUnseenStep == ASSUME StreamInv, NEW c \in Watchers, SubscribeUnseen(c) PROVE StreamInv'
<1> DEFINE l == [cl[c] EXCEPT !.pc = "live", !.from = Len(msgs)]
<1>1. c \in Clients /\ c \notin RunClients /\ c \notin Creators /\ c \notin Joiners /\ cl[c] \in Client
  BY Typed, RunStreamAssumption DEF RunClients
<1>2. Len(msgs) \in 0..MaxMessages + 1
  BY Typed
<1>3. /\ l \in Client /\ l.pc = "live" /\ l.from = Len(msgs) /\ l.last = cl[c].last /\ l.seen = cl[c].seen
      /\ l.at = cl[c].at
  BY <1>1, <1>2 DEF Client
<1>4. cl' = [cl EXCEPT ![c] = l] /\ chan' = [chan EXCEPT ![c] = <<>>]
  BY <1>1 DEF SubscribeUnseen, StreamInv, StreamTypeOK
<1> HIDE DEF l
<1>5. WatcherOK(cl[c], chan[c], c \in subs) /\ cl[c].pc = "replay"
  BY DEF SubscribeUnseen, StreamInv, ClientsInv
<1>6. WatcherOK(l, <<>>, TRUE)
  BY <1>3, <1>5, EmptyQueue, Typed DEF WatcherOK
<1>7. UNCHANGED <<opt, rec, wk, msgs, ms>> /\ dropTask' \in BOOLEAN /\ subs' = subs \cup {c}
  BY DEF SubscribeUnseen, StreamInv, StreamTypeOK
<1> QED BY <1>1, <1>3, <1>4, <1>6, <1>7, EmptyQueue, ClientMoves

\* The connection is closed.
LEMMA StopWatchingStep == ASSUME StreamInv, NEW c \in Watchers, StopWatching(c) PROVE StreamInv'
<1> DEFINE l == [cl[c] EXCEPT !.pc = "left"]
<1>1. c \in Clients /\ c \notin RunClients /\ c \notin Creators /\ c \notin Joiners /\ cl[c] \in Client
  BY Typed, RunStreamAssumption DEF RunClients
<1>2. /\ l \in Client /\ l.pc = "left" /\ l.from = cl[c].from /\ l.last = cl[c].last /\ l.seen = cl[c].seen
      /\ l.at = cl[c].at
  BY <1>1 DEF Client
<1>3. cl' = [cl EXCEPT ![c] = l] /\ RemoveQueue(c)
  BY <1>1 DEF StopWatching, Close, StreamInv, StreamTypeOK
<1> HIDE DEF l
<1>4. WatcherOK(cl[c], chan[c], c \in subs)
  BY DEF StreamInv, ClientsInv
<1>5. WatcherOK(l, <<>>, FALSE)
  BY <1>2, <1>4 DEF WatcherOK
<1>6. UNCHANGED <<opt, rec, wk, msgs, ms>> /\ dropTask' \in BOOLEAN
  BY DEF StopWatching, StreamInv, StreamTypeOK
<1> QED BY <1>1, <1>2, <1>3, <1>5, <1>6, ClientCloses

(***************************************************************************)
(* The theorems                                                            *)
(***************************************************************************)
\* The invariant holds at first.
LEMMA StreamStart == StreamInit => StreamInv
<1> SUFFICES ASSUME StreamInit PROVE StreamInv
  OBVIOUS
<1> DEFINE l == [pc |-> "idle", last |-> NoId, at |-> 0, from |-> 0, found |-> FALSE, seen |-> <<>>]
<1>1. NoId \in Nat /\ MaxMessages \in Nat /\ 1 \in 0..MaxMillis
  BY RunStreamAssumption DEF NoId
<1>2. l \in Client /\ <<>> \in Seq(1..MaxMessages + 1)
  BY <1>1 DEF Client
<1>3. StreamTypeOK
  <2>1. msgs \in Seq(Message) /\ Len(msgs) <= MaxMessages + 1
    BY <1>1 DEF StreamInit
  <2>2. chan \in [Clients -> Seq(1..MaxMessages + 1)]
    BY <1>2 DEF StreamInit
  <2>3. cl \in [Clients -> Client]
    <3>1. cl = [c \in Clients |-> l]
      BY DEF StreamInit
    <3> HIDE DEF l
    <3> QED BY <1>2, <3>1
  <2> QED BY <1>1, <2>1, <2>2, <2>3 DEF StreamInit, StreamTypeOK
<1>4. MessagesInv
  BY <1>1 DEF StreamInit, MessagesInv, Settled
<1>5. RunClients \subseteq Clients /\ Creators \subseteq Clients /\ Joiners \subseteq Clients /\ Watchers \subseteq Clients
  BY DEF RunClients, Clients
<1>6. ClientsInv
  BY <1>5 DEF StreamInit, ClientsInv, SeenOK, StationOK, WatcherOK
<1> QED BY <1>3, <1>4, <1>6 DEF StreamInv

\* Every step preserves the invariant.
LEMMA StreamStep == StreamInv /\ [StreamNext]_streamVars => StreamInv'
<1> SUFFICES ASSUME StreamInv, [StreamNext]_streamVars PROVE StreamInv'
  OBVIOUS
<1>1. CASE StartRun \/ SettleRun \/ CancelRun \/ DeleteRecord \/ CancelTask \/ NextMillisecond
  BY <1>1, RecordSteps
<1>2. CASE Publish
  <2>1. PICK kind \in Kinds : Put(kind)
    BY <1>2 DEF Publish
  <2>2. kind # "done"
    BY RunStreamAssumption
  <2> QED BY <1>2, <2>1, <2>2, Puts DEF Publish
<1>3. CASE SignalDone
  BY <1>3, Puts DEF SignalDone
<1>4. ASSUME NEW c \in Creators, SubscribeFirst(c) \/ CreateThenJoin(c) \/ CreationFails(c) PROVE StreamInv'
  BY <1>4, SubscribeFirstStep, CreateStep, CreationFailsStep
<1>5. ASSUME NEW c \in Joiners, SubscribeLate(c) PROVE StreamInv'
  BY <1>5, SubscribeLateStep
<1>6. ASSUME NEW c \in RunClients, Join(c) \/ Replay(c) \/ Receive(c) \/ IdleCheck(c) \/ Disconnect(c) PROVE StreamInv'
  BY <1>6, JoinStep, ReplayStep, ReceiveStep, IdleCheckStep, DisconnectStep
<1>7. ASSUME NEW c \in Watchers, WatchThread(c) \/ HandOut(c) \/ SubscribeUnseen(c) \/ StopWatching(c) PROVE StreamInv'
  BY <1>7, WatchThreadStep, HandOutStep, SubscribeUnseenStep, StopWatchingStep
<1>8. CASE UNCHANGED streamVars
  <2>1. StreamTypeOK' /\ MessagesInv'
    BY <1>8 DEF streamVars, StreamInv, StreamTypeOK, MessagesInv, Settled
  <2> QED BY <1>8, <2>1, RecordMoves DEF streamVars
<1> QED BY <1>1, <1>2, <1>3, <1>4, <1>5, <1>6, <1>7, <1>8 DEF StreamNext

\* The invariant holds always.
LEMMA StreamInvAlways == StreamSpec => []StreamInv
BY StreamStart, StreamStep, PTL DEF StreamSpec

\* The state of the streams has its types: in particular no queue, replay or position ever
\* names a message beyond the last one.
THEOREM StreamTypes == StreamSpec => []StreamTypeOK
<1>1. StreamInv => StreamTypeOK
  BY DEF StreamInv
<1> QED BY <1>1, StreamInvAlways, PTL

\* What a client is sent has no hole: the queue takes over where the replay ends, whatever
\* is published, cancelled or deleted between the subscription and the first message.
THEOREM NoHoleAlways == StreamSpec => []NoHole
<1>1. ASSUME StreamInv PROVE NoHole
  <2>1. ASSUME NEW c \in RunClients, NEW i \in 1..(Len(cl[c].seen) - 1)
        PROVE  cl[c].seen[i + 1] = cl[c].seen[i] + 1 \/ (cl[c].seen[i + 1] <= cl[c].seen[i] /\ cl[c].last # NoId)
    BY <1>1 DEF StreamInv, ClientsInv, SeenOK
  <2>2. ASSUME NEW c \in Watchers, cl[c].last = NoId, NEW i \in 1..(Len(cl[c].seen) - 1)
        PROVE  cl[c].seen[i + 1] = cl[c].seen[i] + 1
    <3>1. Len(cl[c].seen) \in Nat /\ cl[c].from \in Nat
      BY <1>1, Typed
    <3>2. \A k \in 1..Len(cl[c].seen) : cl[c].seen[k] = cl[c].from + k
      BY <1>1, <2>2 DEF StreamInv, ClientsInv, WatcherOK
    <3>3. i \in 1..Len(cl[c].seen) /\ i + 1 \in 1..Len(cl[c].seen)
      BY <3>1
    <3>4. cl[c].seen[i] = cl[c].from + i /\ cl[c].seen[i + 1] = cl[c].from + (i + 1)
      BY <3>2, <3>3
    <3> QED BY <3>1, <3>3, <3>4
  <2> QED BY <2>1, <2>2 DEF NoHole
<1> QED BY <1>1, StreamInvAlways, PTL

\* A stream that ended by itself, of a run that was neither cancelled nor deleted, held
\* every message that was due to its client.
THEOREM CompleteAtEndAlways == StreamSpec => []CompleteAtEnd
<1>1. ASSUME StreamInv PROVE CompleteAtEnd
  <2> SUFFICES ASSUME NEW c \in RunClients, cl[c].pc = "closed", Settled, NEW n \in Due(c)
               PROVE  \E i \in 1..Len(cl[c].seen) : cl[c].seen[i] = n
    BY DEF CompleteAtEnd
  <2>1. n \in 1..Len(msgs) /\ Owed(cl[c], n)
    BY DEF Due, Owed
  <2>2. ClosedOK(cl[c], rec)
    BY <1>1 DEF StreamInv, ClientsInv, StationOK
  <2>3. Has(cl[c], n)
    BY <2>1, <2>2 DEF ClosedOK, Settled
  <2> QED BY <2>3 DEF Has
<1> QED BY <1>1, StreamInvAlways, PTL

\* A request that waits for a run that ended with an error answers with the error.
THEOREM WaitersLearnOfErrorsAlways == StreamSpec => []WaitersLearnOfErrors
<1>1. ASSUME StreamInv PROVE WaitersLearnOfErrors
  <2> SUFFICES ASSUME NEW c \in Creators, cl[c].pc = "closed", rec = "error"
               PROVE  Answer(cl[c].seen) = "error"
    BY DEF WaitersLearnOfErrors
  <2> DEFINE seen == cl[c].seen
             kind(i) == msgs[seen[i]].kind
             telling == {i \in 1..Len(seen) : kind(i) \in {"values", "interrupt", "error"}}
             final == CHOOSE i \in telling : \A j \in telling : j <= i
             sawError == \E i \in telling : kind(i) = "error"
  <2>1. c \in RunClients /\ Len(seen) \in Nat /\ cl[c].last = NoId /\ cl[c].from = 0 /\ Len(msgs) \in Nat
    BY <1>1, Typed DEF StreamInv, ClientsInv
  <2>2. \A i \in 1..Len(seen) : seen[i] = i /\ seen[i] \in 1..Len(msgs) /\ kind(i) # "done"
    BY <1>1, <2>1 DEF StreamInv, ClientsInv, SeenOK
  <2>3. PICK n \in 1..Len(msgs) : /\ msgs[n].kind = "error"
                                  /\ IF wk = "left" THEN Len(msgs) = n + 1 ELSE Len(msgs) = n
    BY <1>1 DEF StreamInv, MessagesInv
  <2>4. wk = "left" => msgs[Len(msgs)].kind = "done"
    BY <1>1 DEF StreamInv, MessagesInv
  <2>5. PICK i \in 1..Len(seen) : seen[i] = n
    <3>1. Owed(cl[c], n)
      BY <2>1, <2>3 DEF Owed
    <3>2. ClosedOK(cl[c], rec)
      BY <1>1, <2>1 DEF StreamInv, ClientsInv, StationOK
    <3> QED BY <3>1, <3>2 DEF ClosedOK, Has
  <2>6. i = n /\ kind(i) = "error" /\ i \in telling
    BY <2>2, <2>3, <2>5
  <2>7. \A j \in telling : j <= i
    BY <2>1, <2>2, <2>3, <2>4, <2>6
  <2>8. i \in Int /\ \A j \in telling : j \in Int
    BY <2>1
  <2>9. final = i
    <3> HIDE DEF telling
    <3>1. final \in telling /\ i <= final
      BY <2>6, <2>7
    <3> HIDE DEF final
    <3> QED BY <2>7, <2>8, <3>1
  <2>10. telling # {} /\ sawError /\ kind(final) = "error"
    BY <2>6, <2>9
  <2> QED BY <2>10 DEF Answer
<1> QED BY <1>1, StreamInvAlways, PTL

=============================================================================
