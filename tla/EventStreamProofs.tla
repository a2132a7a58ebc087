-------------------------- MODULE EventStreamProofs --------------------------
(***************************************************************************)
(* Proofs about the event stream: the channel, the backlog and the         *)
(* forwarder of a subscription are one FIFO queue, and a synchronised      *)
(* client misses no change.                                                *)
(***************************************************************************)
EXTENDS EventStream, SequenceTheorems, TLAPS

-----------------------------------------------------------------------------
(* Sequences.                                                              *)

Has(s, x) == \E i \in DOMAIN s : s[i] = x

LEMMA HasAppend ==
  ASSUME NEW S, NEW s \in Seq(S), NEW e \in S, NEW x
  PROVE  Has(Append(s, e), x) <=> Has(s, x) \/ x = e
<1>1. /\ Append(s, e) \in Seq(S) /\ Len(Append(s, e)) = Len(s) + 1
      /\ \A i \in 1..Len(s) : Append(s, e)[i] = s[i]
      /\ Append(s, e)[Len(s) + 1] = e
  BY AppendProperties
<1>2. DOMAIN s = 1..Len(s) /\ DOMAIN Append(s, e) = 1..Len(s) + 1 /\ Len(s) \in Nat
  BY <1>1, LenProperties
<1>3. \A i \in 1..Len(s) + 1 : i \in 1..Len(s) \/ i = Len(s) + 1
  BY <1>2
<1>4. 1..Len(s) \subseteq 1..Len(s) + 1 /\ Len(s) + 1 \in 1..Len(s) + 1
  BY <1>2
<1> QED
  BY <1>1, <1>2, <1>3, <1>4 DEF Has

LEMMA HasTail ==
  ASSUME NEW S, NEW s \in Seq(S), s # <<>>, NEW x
  PROVE  Has(s, x) <=> x = Head(s) \/ Has(Tail(s), x)
<1>1. /\ Tail(s) \in Seq(S) /\ Len(Tail(s)) = Len(s) - 1
      /\ \A i \in 1..Len(Tail(s)) : Tail(s)[i] = s[i + 1]
      /\ Len(s) \in Nat \ {0} /\ Head(s) = s[1]
  BY HeadTailProperties, EmptySeq
<1>2. DOMAIN s = 1..Len(s) /\ DOMAIN Tail(s) = 1..Len(s) - 1
  BY <1>1, LenProperties
<1>3. \A i \in 1..Len(s) : i = 1 \/ i - 1 \in 1..Len(s) - 1
  BY <1>1
<1>4. 1 \in 1..Len(s) /\ \A i \in 1..Len(s) - 1 : i + 1 \in 1..Len(s)
  BY <1>1
<1>5. \A i \in 1..Len(s) : i # 1 => Tail(s)[i - 1] = s[i]
  BY <1>1, <1>3
<1> QED
  BY <1>1, <1>2, <1>3, <1>4, <1>5 DEF Has

LEMMA HasConcat ==
  ASSUME NEW S, NEW s \in Seq(S), NEW t \in Seq(S), NEW x
  PROVE  Has(s \o t, x) <=> Has(s, x) \/ Has(t, x)
<1>1. /\ s \o t \in Seq(S) /\ Len(s \o t) = Len(s) + Len(t)
      /\ \A i \in 1..Len(s) + Len(t) :
           (s \o t)[i] = IF i <= Len(s) THEN s[i] ELSE t[i - Len(s)]
      /\ Len(s) \in Nat /\ Len(t) \in Nat
  BY ConcatProperties, LenProperties
<1>2. /\ DOMAIN s = 1..Len(s) /\ DOMAIN t = 1..Len(t)
      /\ DOMAIN (s \o t) = 1..Len(s) + Len(t)
  BY <1>1, LenProperties
<1>3. \A i \in 1..Len(s) : i \in 1..Len(s) + Len(t) /\ (s \o t)[i] = s[i]
  BY <1>1
<1>4. \A i \in 1..Len(t) : i + Len(s) \in 1..Len(s) + Len(t) /\ (s \o t)[i + Len(s)] = t[i]
  BY <1>1
<1>5. \A i \in 1..Len(s) + Len(t) : i \in 1..Len(s) \/ i - Len(s) \in 1..Len(t)
  BY <1>1
<1>6. \A i \in 1..Len(s) + Len(t) :
        i \in 1..Len(s) \/ (i - Len(s) \in 1..Len(t) /\ (s \o t)[i] = t[i - Len(s)])
  BY <1>1, <1>5
<1> QED
  BY <1>2, <1>3, <1>4, <1>6 DEF Has

\* What the bus holds: a queue made of three parts.
LEMMA PutAtTheEnd ==
  ASSUME NEW S, NEW o \in Seq(S), NEW m \in Seq(S), NEW b \in Seq(S), NEW e \in S
  PROVE  (o \o m) \o Append(b, e) = Append((o \o m) \o b, e)
<1>1. o \o m \in Seq(S) /\ <<e>> \in Seq(S)
  BY ConcatProperties
<1>2. (o \o m) \o b \in Seq(S)
  BY <1>1, ConcatProperties
<1>3. Append(b, e) = b \o <<e>> /\ Append((o \o m) \o b, e) = ((o \o m) \o b) \o <<e>>
  BY <1>2, AppendIsConcat
<1> QED
  BY <1>1, <1>3, ConcatAssociative

LEMMA GetFromTheFront ==
  ASSUME NEW S, NEW o \in Seq(S), NEW b \in Seq(S), o # <<>>
  PROVE  /\ o \o b # <<>> /\ Head(o \o b) = Head(o)
         /\ Tail(o \o b) = Tail(o) \o b
<1>1. /\ o \o b \in Seq(S) /\ Len(o \o b) = Len(o) + Len(b)
      /\ \A i \in 1..Len(o) + Len(b) :
           (o \o b)[i] = IF i <= Len(o) THEN o[i] ELSE b[i - Len(o)]
      /\ Len(o) \in Nat \ {0} /\ Len(b) \in Nat
  BY ConcatProperties, LenProperties, EmptySeq
<1>2. o \o b # <<>>
  BY <1>1, EmptySeq
<1>3. Head(o \o b) = Head(o)
  BY <1>1, <1>2
<1>4. /\ Tail(o) \in Seq(S) /\ Len(Tail(o)) = Len(o) - 1
      /\ \A i \in 1..Len(o) - 1 : Tail(o)[i] = o[i + 1]
  BY HeadTailProperties
<1>5. /\ Tail(o \o b) \in Seq(S) /\ Len(Tail(o \o b)) = Len(o) + Len(b) - 1
      /\ \A i \in 1..Len(o) + Len(b) - 1 : Tail(o \o b)[i] = (o \o b)[i + 1]
  BY <1>1, <1>2, HeadTailProperties
<1>6. /\ Tail(o) \o b \in Seq(S) /\ Len(Tail(o) \o b) = Len(o) - 1 + Len(b)
      /\ \A i \in 1..Len(o) - 1 + Len(b) :
           (Tail(o) \o b)[i] = IF i <= Len(o) - 1 THEN Tail(o)[i] ELSE b[i - (Len(o) - 1)]
  BY <1>4, ConcatProperties
<1>7. ASSUME NEW i \in 1..Len(o) + Len(b) - 1
      PROVE  Tail(o \o b)[i] = (Tail(o) \o b)[i]
  <2>1. i + 1 \in 1..Len(o) + Len(b) /\ i + 1 - Len(o) = i - (Len(o) - 1)
    BY <1>1
  <2>2. CASE i <= Len(o) - 1
    BY <1>1, <1>4, <1>5, <1>6, <2>1, <2>2
  <2>3. CASE ~(i <= Len(o) - 1)
    BY <1>1, <1>5, <1>6, <2>1, <2>3
  <2> QED
    BY <2>2, <2>3
<1>8. Tail(o \o b) = Tail(o) \o b
  BY <1>1, <1>5, <1>6, <1>7, SeqEqual
<1> QED
  BY <1>2, <1>3, <1>8

-----------------------------------------------------------------------------
(* The bus.                                                                *)

BusTyped ==
  /\ outbox \in Seq(Changes) /\ backlog \in Seq(Changes) /\ inbox \in Seq(Changes)
  /\ forwarder \in {"next", "wait", "push", "delivered"}
  /\ forwarder = "push" => flight \in Changes

Middle == IF forwarder = "push" THEN <<flight>> ELSE <<>>

LEMMA MiddleTyped == BusTyped => Middle \in Seq(Changes)
  BY EmptySeq DEF BusTyped, Middle

\* Actions that leave the bus and what came out of it as they are.
LEMMA BusTypedStep == ASSUME BusTyped, [StreamNext]_streamVars PROVE BusTyped'
<1>1. ASSUME NEW c \in Changes, Publish(c)
      PROVE  BusTyped'
  <2>1. Append(outbox, c) \in Seq(Changes) /\ Append(backlog, c) \in Seq(Changes)
    BY AppendProperties DEF BusTyped
  <2> QED
    BY <1>1, <2>1 DEF BusTyped, Publish, Queued
<1>2. CASE TakeNext
  <2>1. backlog # <<>> => Head(backlog) \in Changes /\ Tail(backlog) \in Seq(Changes)
    BY HeadTailProperties DEF BusTyped
  <2> QED
    BY <1>2, <2>1 DEF BusTyped, TakeNext
<1>3. CASE Push
  <2>1. Append(outbox, flight) \in Seq(Changes)
    BY <1>3, AppendProperties DEF BusTyped, Push
  <2> QED
    BY <1>3, <2>1 DEF BusTyped, Push
<1>4. CASE Delivered \/ Awake
  BY <1>4 DEF BusTyped, Delivered, Awake
<1>5. CASE Receive
  <2>1. Head(outbox) \in Changes /\ Tail(outbox) \in Seq(Changes)
    BY <1>5, HeadTailProperties DEF BusTyped, Receive
  <2>2. Append(inbox, Head(outbox)) \in Seq(Changes)
    BY <2>1, AppendProperties DEF BusTyped
  <2> QED
    BY <1>5, <2>1, <2>2 DEF BusTyped, Receive
<1>6. CASE RestartServer
  BY <1>6, EmptySeq DEF BusTyped, RestartServer
<1>7. CASE UNCHANGED <<busVars, inbox>>
  BY <1>7 DEF BusTyped, busVars
<1> QED
  BY <1>1, <1>2, <1>3, <1>4, <1>5, <1>6, <1>7
  DEF StreamNext, ServerStep, Insert, LookUpTargets, Forwarded, Deliver, Replay, WritePump, Write,
      Snapshot, Connect, Sync, Disconnect, InsertFails, streamVars, busVars

\* Every step of the bus is a step of the queue it promises, or none.
LEMMA BusStep ==
  ASSUME BusTyped, BusTyped', [StreamNext]_streamVars
  PROVE  [Queue!QueueNext]_(Queue!queueVars)
<1> USE DEF Queue!QueueNext, Queue!queueVars, Queue!Put, Queue!Get, Queue!Lose
<1>0. /\ outbox \in Seq(Changes) /\ backlog \in Seq(Changes) /\ Middle \in Seq(Changes)
      /\ Pending = (outbox \o Middle) \o backlog
  BY MiddleTyped DEF BusTyped, Pending, Middle
<1>1. ASSUME NEW c \in Changes, Publish(c)
      PROVE  [Queue!QueueNext]_(Queue!queueVars)
  <2>1. CASE GoesDirectly /\ outbox' = Append(outbox, c) /\ UNCHANGED backlog
    <3>1. Middle = <<>> /\ backlog = <<>> /\ Middle' = <<>>
      BY <1>1, <2>1 DEF GoesDirectly, Middle, Publish
    <3>2. Append(outbox, c) \in Seq(Changes)
      BY <1>0, AppendProperties
    <3>3. Pending = outbox
      BY <1>0, <3>1, ConcatEmptySeq
    <3>4. Pending' = Append(outbox, c) \o <<>> \o <<>>
      BY <2>1, <3>1 DEF Pending, Middle
    <3>5. Pending' = Append(Pending, c)
      BY <3>2, <3>3, <3>4, ConcatEmptySeq
    <3> QED
      BY <1>1, <3>5 DEF Publish
  <2>2. CASE Queued(c)
    <3>1. Pending' = (outbox \o Middle) \o Append(backlog, c)
      BY <1>1, <2>2 DEF Queued, Publish, Pending, Middle
    <3>2. Pending' = Append(Pending, c)
      BY <1>0, <3>1, PutAtTheEnd
    <3> QED
      BY <1>1, <3>2 DEF Publish
  <2>3. CASE UNCHANGED <<outbox, backlog>>
    BY <1>1, <2>3 DEF Publish, Pending
  <2> QED
    BY <1>1, <2>1, <2>2, <2>3 DEF Publish
<1>2. CASE TakeNext
  <2>1. CASE backlog # <<>>
    <3>1. /\ Middle = <<>> /\ Middle' = <<Head(backlog)>> /\ backlog' = Tail(backlog)
          /\ UNCHANGED <<outbox, inbox>>
      BY <1>2, <2>1 DEF TakeNext, Middle
    <3>2. /\ Head(backlog) \in Changes /\ Tail(backlog) \in Seq(Changes)
          /\ <<Head(backlog)>> \in Seq(Changes)
      BY <1>0, <2>1, HeadTailProperties
    <3>3. <<Head(backlog)>> \o Tail(backlog) = backlog
      BY <1>0, <2>1, <3>2
    <3>4. Pending' = (outbox \o <<Head(backlog)>>) \o Tail(backlog)
      BY <3>1 DEF Pending, Middle
    <3>5. Pending' = outbox \o backlog
      BY <1>0, <3>2, <3>3, <3>4, ConcatAssociative, SMTT(30)
    <3>6. Pending = outbox \o backlog
      BY <1>0, <3>1, ConcatEmptySeq
    <3> QED
      BY <3>1, <3>5, <3>6
  <2>2. CASE backlog = <<>>
    BY <1>2, <2>2 DEF TakeNext, Pending
  <2> QED
    BY <2>1, <2>2
<1>3. CASE Push
  <2>1. /\ flight \in Changes /\ Middle = <<flight>> /\ Middle' = <<>>
        /\ outbox' = Append(outbox, flight) /\ UNCHANGED <<backlog, inbox>>
    BY <1>3 DEF Push, Middle, BusTyped
  <2>2. Append(outbox, flight) = outbox \o <<flight>> /\ Append(outbox, flight) \in Seq(Changes)
    BY <1>0, <2>1, AppendIsConcat, AppendProperties
  <2>3. Pending' = (Append(outbox, flight) \o <<>>) \o backlog
    BY <2>1 DEF Pending, Middle
  <2>4. Pending' = Append(outbox, flight) \o backlog
    BY <2>2, <2>3, ConcatEmptySeq
  <2> QED
    BY <1>0, <2>1, <2>2, <2>4
<1>4. CASE Delivered \/ Awake
  BY <1>4 DEF Delivered, Awake, Pending
<1>5. CASE Receive
  <2>1. /\ outbox # <<>> /\ outbox' = Tail(outbox) /\ inbox' = Append(inbox, Head(outbox))
        /\ Tail(outbox) \in Seq(Changes)
        /\ UNCHANGED <<backlog, flight, forwarder>>
    BY <1>0, <1>5, HeadTailProperties DEF Receive
  <2>2. outbox \o Middle # <<>> /\ Head(outbox \o Middle) = Head(outbox)
        /\ Tail(outbox \o Middle) = Tail(outbox) \o Middle /\ outbox \o Middle \in Seq(Changes)
    BY <1>0, <2>1, GetFromTheFront, ConcatProperties
  <2> DEFINE front == outbox \o Middle
  <2>a. /\ front \in Seq(Changes) /\ front # <<>> /\ Head(front) = Head(outbox)
        /\ Tail(front) = Tail(outbox) \o Middle /\ Pending = front \o backlog
    BY <1>0, <2>2
  <2> HIDE DEF front
  <2>b. /\ front \o backlog # <<>> /\ Head(front \o backlog) = Head(front)
        /\ Tail(front \o backlog) = Tail(front) \o backlog
    BY <1>0, <2>a, GetFromTheFront
  <2>3. /\ Pending # <<>> /\ Head(Pending) = Head(outbox)
        /\ Tail(Pending) = (Tail(outbox) \o Middle) \o backlog
    BY <2>a, <2>b
  <2>4. Pending' = (Tail(outbox) \o Middle) \o backlog
    BY <2>1 DEF Pending, Middle
  <2> QED
    BY <2>1, <2>3, <2>4
<1>6. CASE RestartServer
  <2>1. Pending' = <<>> \o <<>> \o <<>> /\ inbox' = inbox
    BY <1>6 DEF RestartServer, Pending
  <2>2. Pending' = <<>>
    BY <2>1, ConcatEmptySeq, EmptySeq
  <2> QED
    BY <2>1, <2>2
<1>7. CASE UNCHANGED <<busVars, inbox>>
  BY <1>7 DEF busVars, Pending
<1> QED
  BY <1>1, <1>2, <1>3, <1>4, <1>5, <1>6, <1>7
  DEF StreamNext, ServerStep, Insert, LookUpTargets, Forwarded, Deliver, Replay, WritePump, Write,
      Snapshot, Connect, Sync, Disconnect, InsertFails, streamVars, busVars

LEMMA BusGood == StreamInit => BusTyped /\ Queue!QueueInit
<1> SUFFICES ASSUME StreamInit
             PROVE  BusTyped /\ Queue!QueueInit
  OBVIOUS
<1>1. BusTyped
  BY EmptySeq DEF StreamInit, BusTyped
<1>2. Pending = <<>> \o <<>> \o <<>>
  BY DEF StreamInit, Pending
<1>3. Pending = <<>> /\ inbox = <<>>
  BY <1>2, ConcatEmptySeq, EmptySeq DEF StreamInit
<1> QED
  BY <1>1, <1>3 DEF Queue!QueueInit

\* The subscription implements the queue the bus promises: an event never overtakes
\* another, whether it takes the direct way or the backlog, and none is lost or doubled
\* (event/bus.go, enqueue and run).
THEOREM BusIsAQueue == StreamSpec => BusIsFifo
<1>1. StreamInit /\ [][StreamNext]_streamVars => []BusTyped
  BY BusGood, BusTypedStep, PTL
<1> QED
  BY <1>1, BusGood, BusStep, PTL DEF StreamSpec, BusIsFifo, Queue!QueueSpec

-----------------------------------------------------------------------------
(* What a client has, and what is on its way to it.                        *)

Dones == {Done(n) : n \in Nat}
Items == {Item(e) : e \in Changes}
Messages == Dones \cup Items

LEMMA DoneKind ==
  ASSUME NEW n
  PROVE  Done(n).done /\ Done(n).last = n
  BY Zenon DEF Done

LEMMA ItemKind ==
  ASSUME NEW e
  PROVE  ~Item(e).done /\ Item(e).event = e
  BY Zenon DEF Item

LEMMA MessageKinds ==
  ASSUME NEW m \in Messages
  PROVE  \/ m.done /\ m.last \in Nat /\ (\A e : m # Item(e))
         \/ ~m.done /\ m.event \in Changes /\ m = Item(m.event)
<1>1. ASSUME NEW n \in Nat, m = Done(n)
      PROVE  m.done /\ m.last \in Nat /\ (\A e : m # Item(e))
  <2>1. m.done /\ m.last = n
    BY <1>1, DoneKind
  <2>2. \A e : ~Item(e).done
    BY ItemKind
  <2>3. ASSUME NEW e, m = Item(e) PROVE FALSE
    BY <2>1, <2>2, <2>3, Zenon
  <2> QED
    BY <2>1, <2>3
<1>2. ASSUME NEW e \in Changes, m = Item(e)
      PROVE  ~m.done /\ m.event \in Changes /\ m = Item(m.event)
  <2>1. Item(e).event = e /\ ~Item(e).done
    BY ItemKind
  <2>2. ~m.done
    BY <1>2, <2>1, Zenon
  <2>3. m.event = e
    BY <1>2, <2>1
  <2> QED
    BY <1>2, <2>2, <2>3
<1> QED
  BY <1>1, <1>2 DEF Messages, Dones, Items

LEMMA ItemsDiffer == ASSUME NEW e, NEW f, Item(e) = Item(f) PROVE e = f
<1>1. Item(e).event = e /\ Item(f).event = f
  BY ItemKind
<1> QED
  BY <1>1

LEMMA TheyAreMessages ==
  /\ \A n \in Nat : Done(n) \in Messages
  /\ \A e \in Changes : Item(e) \in Messages
  BY DEF Messages, Dones, Items

\* c is a connection, v the view of its client, A the events the aggregator is about
\* to hand to c.
ConnTyped(c) == /\ DOMAIN c = {"open", "send", "replay", "syncing"}
                /\ c.send \in Seq(Messages) /\ c.replay \in Seq(Messages)

ViewTyped(v) == /\ DOMAIN v = {"known", "cursor", "loaded", "synced"}
                /\ v.cursor \in Nat

\* The client knows the log up to its cursor.
ViewSound(log, c, v) ==
  /\ v.loaded => v.cursor <= Len(log) /\ (\A j \in 1..v.cursor : log[j] \in v.known)
  /\ c.open => v.loaded

Sent(c, v, e) == \/ e \in v.known
                 \/ Has(c.send, Item(e))
                 \/ Has(c.replay, Item(e))

\* Once the replay was cut out of the log, no event of the log can be missed.
LogReaches(log, c, v, A) ==
  c.open /\ c.syncing => \A j \in 1..Len(log) : log[j] \in A \/ Sent(c, v, log[j])

SyncedSound(c, v) == c.open /\ v.synced => c.syncing /\ c.replay = <<>>

\* sync.done is the last message of a replay.
DoneIsLast(c) ==
  /\ c.replay # <<>> =>
       /\ c.syncing
       /\ \A i \in 1..Len(c.replay) : c.replay[i].done <=> i = Len(c.replay)
  /\ \A i \in 1..Len(c.send) : c.send[i].done => c.syncing /\ c.replay = <<>>

\* What sync.done claims is true when the client reads it.
ReplaySound(log, c, v) ==
  \A i \in 1..Len(c.replay) : c.replay[i].done =>
    /\ c.replay[i].last <= Len(log)
    /\ \A j \in 1..c.replay[i].last : Sent(c, v, log[j])

SendSound(log, c, v) ==
  \A i \in 1..Len(c.send) : c.send[i].done =>
    /\ c.send[i].last <= Len(log)
    /\ \A j \in 1..c.send[i].last :
         log[j] \in v.known \/ \E h \in 1..i - 1 : c.send[h] = Item(log[j])

ClientSound(log, c, v, A) ==
  /\ ViewSound(log, c, v)
  /\ LogReaches(log, c, v, A)
  /\ SyncedSound(c, v)
  /\ DoneIsLast(c)
  /\ ReplaySound(log, c, v)
  /\ SendSound(log, c, v)

\* Another set of events at the aggregator.
LEMMA SoundElsewhere ==
  ASSUME NEW log, NEW c, NEW v, NEW A, NEW B, ClientSound(log, c, v, A),
         c.open => \A j \in 1..Len(log) : log[j] \in A => log[j] \in B
  PROVE  ClientSound(log, c, v, B)
  BY DEF ClientSound, LogReaches

\* The log grows by the event the aggregator is going to publish.
LEMMA SoundAfterInsert ==
  ASSUME NEW log \in Seq(Changes), NEW e \in Changes, NEW c, NEW v, ConnTyped(c), ViewTyped(v),
         ClientSound(log, c, v, {})
  PROVE  ClientSound(Append(log, e), c, v, {e})
<1> DEFINE log2 == Append(log, e)
<1>1. /\ log2 \in Seq(Changes) /\ Len(log2) = Len(log) + 1 /\ Len(log) \in Nat
      /\ \A i \in 1..Len(log) : log2[i] = log[i]
      /\ log2[Len(log) + 1] = e
  BY AppendProperties, LenProperties
<1> HIDE DEF log2
<1>2. \A n \in Nat : n <= Len(log) => n <= Len(log2) /\ \A j \in 1..n : log2[j] = log[j]
  BY <1>1
<1>3. ViewSound(log2, c, v)
  BY <1>2 DEF ViewSound, ClientSound, ViewTyped
<1>4. LogReaches(log2, c, v, {e})
  <2>1. \A j \in 1..Len(log2) : j \in 1..Len(log) \/ j = Len(log) + 1
    BY <1>1
  <2> QED
    BY <1>1, <2>1 DEF LogReaches, ClientSound
<1>5. ReplaySound(log2, c, v)
  <2>1. ASSUME NEW i \in 1..Len(c.replay), c.replay[i].done
        PROVE  c.replay[i].last \in Nat
    BY <2>1, MessageKinds, ElementOfSeq DEF ConnTyped
  <2> QED
    BY <1>2, <2>1 DEF ReplaySound, ClientSound
<1>6. SendSound(log2, c, v)
  <2>1. ASSUME NEW i \in 1..Len(c.send), c.send[i].done
        PROVE  c.send[i].last \in Nat
    BY <2>1, MessageKinds, ElementOfSeq DEF ConnTyped
  <2> QED
    BY <1>2, <2>1 DEF SendSound, ClientSound
<1> QED
  BY <1>3, <1>4, <1>5, <1>6 DEF ClientSound, log2

\* One more message in the send buffer.
LEMMA SendGrows ==
  ASSUME NEW log \in Seq(Changes), NEW c, NEW c2, NEW v, NEW m \in Messages, ConnTyped(c),
         c2.send = Append(c.send, m), SendSound(log, c, v),
         m.done => /\ m.last <= Len(log)
                   /\ \A j \in 1..m.last : log[j] \in v.known \/ Has(c.send, Item(log[j]))
  PROVE  SendSound(log, c2, v)
<1>1. /\ Len(c2.send) = Len(c.send) + 1 /\ Len(c.send) \in Nat
      /\ \A i \in 1..Len(c.send) : c2.send[i] = c.send[i]
      /\ c2.send[Len(c.send) + 1] = m
  BY AppendProperties, LenProperties DEF ConnTyped
<1>2. ASSUME NEW i \in 1..Len(c2.send), c2.send[i].done
      PROVE  /\ c2.send[i].last <= Len(log)
             /\ \A j \in 1..c2.send[i].last :
                  log[j] \in v.known \/ \E h \in 1..i - 1 : c2.send[h] = Item(log[j])
  <2>1. CASE i \in 1..Len(c.send)
    <3>1. c2.send[i] = c.send[i] /\ \A h \in 1..i - 1 : c2.send[h] = c.send[h]
      BY <1>1, <2>1
    <3>2. c.send[i].done
      BY <1>2, <3>1, Zenon
    <3>3. /\ c.send[i].last <= Len(log)
          /\ \A j \in 1..c.send[i].last :
               log[j] \in v.known \/ \E h \in 1..i - 1 : c.send[h] = Item(log[j])
      BY <2>1, <3>2 DEF SendSound
    <3> QED
      BY <3>1, <3>3
  <2>2. CASE i = Len(c.send) + 1
    <3>1. c2.send[i] = m
      BY <1>1, <2>2
    <3>2. m.done
      BY <1>2, <3>1, Zenon
    <3>3. \A j \in 1..m.last : log[j] \in v.known \/ Has(c.send, Item(log[j]))
      BY <3>2
    <3>4. \A x : Has(c.send, x) => \E h \in 1..i - 1 : c2.send[h] = x
      <4>1. i - 1 = Len(c.send) /\ DOMAIN c.send = 1..Len(c.send)
        BY <1>1, <2>2, LenProperties DEF ConnTyped
      <4> QED
        BY <1>1, <4>1 DEF Has
    <3> QED
      BY <3>1, <3>2, <3>3, <3>4
  <2> QED
    BY <1>1, <2>1, <2>2
<1> QED
  BY <1>2 DEF SendSound

\* The aggregator fills the buffer of a connection.
LEMMA SoundAfterDelivery ==
  ASSUME NEW log \in Seq(Changes), NEW c, NEW c2, NEW v, NEW A, NEW e \in Changes, ConnTyped(c),
         c2.send = Append(c.send, Item(e)), c2.replay = c.replay,
         c2.open <=> c.open, c2.syncing <=> c.syncing,
         ClientSound(log, c, v, A)
  PROVE  ClientSound(log, c2, v, A \ {e})
<1>1. Item(e) \in Messages /\ ~Item(e).done
  BY TheyAreMessages, ItemKind
<1>2. \A x : Has(c2.send, x) <=> Has(c.send, x) \/ x = Item(e)
  BY <1>1, HasAppend DEF ConnTyped
<1>3. \A f : Sent(c, v, f) \/ f = e => Sent(c2, v, f)
  BY <1>2 DEF Sent
<1>4. ViewSound(log, c2, v)
  BY DEF ViewSound, ClientSound
<1>5. LogReaches(log, c2, v, A \ {e})
  BY <1>3 DEF LogReaches, ClientSound
<1>6. SyncedSound(c2, v)
  BY DEF SyncedSound, ClientSound
<1>7. DoneIsLast(c2)
  <2>1. /\ Len(c2.send) = Len(c.send) + 1 /\ Len(c.send) \in Nat
        /\ \A i \in 1..Len(c.send) : c2.send[i] = c.send[i]
        /\ c2.send[Len(c.send) + 1] = Item(e)
    BY <1>1, AppendProperties, LenProperties DEF ConnTyped
  <2>2. ASSUME NEW i \in 1..Len(c2.send), c2.send[i].done
        PROVE  i \in 1..Len(c.send) /\ c.send[i].done
    <3>1. i \in 1..Len(c.send) \/ c2.send[i] = Item(e)
      BY <2>1
    <3>2. i \in 1..Len(c.send)
      BY <1>1, <2>2, <3>1, Zenon
    <3> QED
      BY <2>1, <2>2, <3>2, Zenon
  <2> QED
    BY <2>2 DEF DoneIsLast, ClientSound
<1>8. ReplaySound(log, c2, v)
  BY <1>3 DEF ReplaySound, ClientSound
<1>9. SendSound(log, c2, v)
  BY <1>1, SendGrows DEF ClientSound
<1> QED
  BY <1>4, <1>5, <1>6, <1>7, <1>8, <1>9 DEF ClientSound

\* A message of the replay goes through the same buffer.
LEMMA SoundAfterReplay ==
  ASSUME NEW log \in Seq(Changes), NEW c, NEW c2, NEW v, NEW A, ConnTyped(c),
         c.replay # <<>>, c2.send = Append(c.send, Head(c.replay)), c2.replay = Tail(c.replay),
         c2.open <=> c.open, c2.syncing <=> c.syncing,
         ClientSound(log, c, v, A)
  PROVE  ClientSound(log, c2, v, A)
<1> DEFINE m == Head(c.replay)
<1>1. /\ m \in Messages /\ m = c.replay[1] /\ Len(c.replay) \in Nat \ {0}
      /\ Tail(c.replay) \in Seq(Messages) /\ Len(c2.replay) = Len(c.replay) - 1
      /\ \A i \in 1..Len(c.replay) - 1 : c2.replay[i] = c.replay[i + 1]
  BY HeadTailProperties, EmptySeq DEF ConnTyped
<1>2. \A x : Has(c2.send, x) <=> Has(c.send, x) \/ x = m
  BY <1>1, HasAppend DEF ConnTyped
<1>3. \A x : Has(c.replay, x) <=> x = m \/ Has(c2.replay, x)
  BY HasTail DEF ConnTyped
<1>4. \A f : Sent(c, v, f) => Sent(c2, v, f)
  BY <1>2, <1>3 DEF Sent
<1>5. ViewSound(log, c2, v)
  BY DEF ViewSound, ClientSound
<1>6. LogReaches(log, c2, v, A)
  BY <1>4 DEF LogReaches, ClientSound
<1>7. SyncedSound(c2, v)
  BY DEF SyncedSound, ClientSound
<1>8. c.syncing /\ \A i \in 1..Len(c.replay) : c.replay[i].done <=> i = Len(c.replay)
  BY DEF ClientSound, DoneIsLast
<1>9. m.done <=> Len(c.replay) = 1
  <2>1. 1 \in 1..Len(c.replay)
    BY <1>1
  <2>2. c.replay[1].done <=> 1 = Len(c.replay)
    BY <1>8, <2>1
  <2> QED
    BY <1>1, <2>2
<1>10. m.done => c2.replay = <<>>
  <2>1. c2.replay \in Seq(Messages) /\ (Len(c.replay) = 1 => Len(c2.replay) = 0)
    BY <1>1
  <2>2. Len(c2.replay) = 0 => c2.replay = <<>>
    BY <2>1, EmptySeq
  <2> QED
    BY <1>9, <2>1, <2>2
<1>11. \A i \in 1..Len(c2.replay) : i + 1 \in 1..Len(c.replay) /\ c2.replay[i] = c.replay[i + 1]
  BY <1>1
<1>12. \A i \in 1..Len(c2.replay) : c2.replay[i].done <=> i = Len(c2.replay)
  <2> TAKE i \in 1..Len(c2.replay)
  <2>1. c.replay[i + 1].done <=> i + 1 = Len(c.replay)
    BY <1>8, <1>11
  <2>2. i + 1 = Len(c.replay) <=> i = Len(c2.replay)
    BY <1>1
  <2>3. c2.replay[i] = c.replay[i + 1]
    BY <1>11
  <2> QED
    BY <2>1, <2>2, <2>3, Zenon
<1>13. \A i \in 1..Len(c.send) : ~c.send[i].done
  BY DEF ClientSound, DoneIsLast
<1>14. DoneIsLast(c2)
  <2>1. /\ Len(c2.send) = Len(c.send) + 1 /\ Len(c.send) \in Nat
        /\ \A i \in 1..Len(c.send) : c2.send[i] = c.send[i]
        /\ c2.send[Len(c.send) + 1] = m
    BY <1>1, AppendProperties, LenProperties DEF ConnTyped
  <2>2. ASSUME NEW i \in 1..Len(c2.send), c2.send[i].done
        PROVE  m.done
    <3>1. i \in 1..Len(c.send) \/ c2.send[i] = m
      BY <2>1
    <3>2. i \in 1..Len(c.send) => c2.send[i] = c.send[i]
      BY <2>1
    <3> QED
      BY <1>13, <2>2, <3>1, <3>2, Zenon
  <2> QED
    BY <1>8, <1>10, <1>12, <2>2 DEF DoneIsLast
<1>15. ReplaySound(log, c2, v)
  <2>1. ASSUME NEW i \in 1..Len(c2.replay), c2.replay[i].done
        PROVE  /\ c2.replay[i].last <= Len(log)
               /\ \A j \in 1..c2.replay[i].last : Sent(c2, v, log[j])
    <3>1. i + 1 \in 1..Len(c.replay) /\ c2.replay[i] = c.replay[i + 1]
      BY <1>11
    <3>2. c.replay[i + 1].done
      BY <2>1, <3>1, Zenon
    <3>3. /\ c.replay[i + 1].last <= Len(log)
          /\ \A j \in 1..c.replay[i + 1].last : Sent(c, v, log[j])
      BY <3>1, <3>2 DEF ReplaySound, ClientSound
    <3> QED
      BY <1>4, <3>1, <3>3
  <2> QED
    BY <2>1 DEF ReplaySound
<1>16. SendSound(log, c2, v)
  <2>1. ASSUME m.done
        PROVE  /\ m.last <= Len(log)
               /\ \A j \in 1..m.last : log[j] \in v.known \/ Has(c.send, Item(log[j]))
    <3>1. 1 \in 1..Len(c.replay) /\ c.replay[1].done
      BY <1>1, <2>1
    <3>2. m.last <= Len(log) /\ \A j \in 1..m.last : Sent(c, v, log[j])
      BY <1>1, <3>1 DEF ReplaySound, ClientSound
    <3>3. \A e : m # Item(e)
      BY <1>1, <2>1, MessageKinds
    <3>4. \A e : ~Has(c2.replay, Item(e))
      BY <1>10, <2>1, EmptySeq DEF Has
    <3>5. \A e : ~Has(c.replay, Item(e))
      BY <1>3, <3>3, <3>4
    <3> QED
      BY <3>2, <3>5 DEF Sent
  <2> QED
    BY <1>1, <2>1, SendGrows DEF ClientSound
<1> QED
  BY <1>5, <1>6, <1>7, <1>14, <1>15, <1>16 DEF ClientSound

\* The client reads a message.
LEMMA SoundAfterReading ==
  ASSUME NEW log \in Seq(Changes), NEW c, NEW c2, NEW v, NEW v2, NEW A, ConnTyped(c), ViewTyped(v),
         c.open, c.send # <<>>, c2.send = Tail(c.send), c2.replay = c.replay,
         c2.open <=> c.open, c2.syncing <=> c.syncing,
         v2.loaded <=> v.loaded,
         \/ /\ Head(c.send).done
            /\ v2.cursor = Head(c.send).last /\ v2.known = v.known
         \/ /\ ~Head(c.send).done
            /\ v2.cursor = v.cursor /\ v2.known = v.known \cup {Head(c.send).event}
            /\ v2.synced <=> v.synced,
         ClientSound(log, c, v, A)
  PROVE  ClientSound(log, c2, v2, A)
<1> DEFINE m == Head(c.send)
<1>1. /\ m \in Messages /\ m = c.send[1] /\ Len(c.send) \in Nat \ {0}
      /\ Tail(c.send) \in Seq(Messages) /\ Len(c2.send) = Len(c.send) - 1
      /\ \A i \in 1..Len(c.send) - 1 : c2.send[i] = c.send[i + 1]
  BY HeadTailProperties, EmptySeq DEF ConnTyped
<1>2. \A x : Has(c.send, x) <=> x = m \/ Has(c2.send, x)
  BY HasTail DEF ConnTyped
<1>3. \A e : e \in v.known \/ m = Item(e) => e \in v2.known
  <2> TAKE e
  <2>1. m = Item(e) => ~m.done /\ m.event = e
    BY ItemKind, Zenon
  <2> QED
    BY <2>1
<1>4. \A f : Sent(c, v, f) => Sent(c2, v2, f)
  BY <1>2, <1>3 DEF Sent
<1>5. m.done => /\ m.last \in Nat /\ m.last <= Len(log)
                /\ \A j \in 1..m.last : log[j] \in v.known
  <2> SUFFICES ASSUME m.done
               PROVE  /\ m.last \in Nat /\ m.last <= Len(log)
                      /\ \A j \in 1..m.last : log[j] \in v.known
    OBVIOUS
  <2>1. 1 \in 1..Len(c.send) /\ c.send[1].done
    BY <1>1
  <2>2. /\ c.send[1].last <= Len(log)
        /\ \A j \in 1..c.send[1].last :
             log[j] \in v.known \/ \E h \in 1..1 - 1 : c.send[h] = Item(log[j])
    BY <2>1 DEF SendSound, ClientSound
  <2>3. 1..1 - 1 = {}
    OBVIOUS
  <2> QED
    BY <1>1, <2>2, <2>3, MessageKinds
<1>6. ViewSound(log, c2, v2)
  <2>1. v2.loaded => v2.cursor <= Len(log) /\ (\A j \in 1..v2.cursor : log[j] \in v2.known)
    BY <1>3, <1>5 DEF ViewSound, ClientSound
  <2> QED
    BY <2>1 DEF ViewSound, ClientSound
<1>7. LogReaches(log, c2, v2, A)
  BY <1>4 DEF LogReaches, ClientSound
<1>8. m.done => c.syncing /\ c.replay = <<>>
  <2>1. 1 \in 1..Len(c.send) /\ (m.done <=> c.send[1].done)
    BY <1>1
  <2> QED
    BY <2>1 DEF DoneIsLast, ClientSound
<1>9. SyncedSound(c2, v2)
  BY <1>8 DEF SyncedSound, ClientSound
<1>10. \A i \in 1..Len(c2.send) : i + 1 \in 1..Len(c.send) /\ c2.send[i] = c.send[i + 1]
  BY <1>1
<1>11. DoneIsLast(c2)
  <2>1. ASSUME NEW i \in 1..Len(c2.send), c2.send[i].done
        PROVE  c.syncing /\ c.replay = <<>>
    <3>1. i + 1 \in 1..Len(c.send) /\ c2.send[i] = c.send[i + 1]
      BY <1>10
    <3>2. c.send[i + 1].done
      BY <2>1, <3>1, Zenon
    <3> QED
      BY <3>1, <3>2 DEF DoneIsLast, ClientSound
  <2> QED
    BY <2>1 DEF DoneIsLast, ClientSound
<1>12. ReplaySound(log, c2, v2)
  BY <1>4 DEF ReplaySound, ClientSound
<1>13. SendSound(log, c2, v2)
  <2>1. ASSUME NEW i \in 1..Len(c2.send), c2.send[i].done
        PROVE  /\ c2.send[i].last <= Len(log)
               /\ \A j \in 1..c2.send[i].last :
                    log[j] \in v2.known \/ \E h \in 1..i - 1 : c2.send[h] = Item(log[j])
    <3>1. i + 1 \in 1..Len(c.send) /\ c2.send[i] = c.send[i + 1]
      BY <1>10
    <3>2. c.send[i + 1].done
      BY <2>1, <3>1, Zenon
    <3>3. /\ c.send[i + 1].last <= Len(log)
          /\ \A j \in 1..c.send[i + 1].last :
               log[j] \in v.known \/ \E h \in 1..(i + 1) - 1 : c.send[h] = Item(log[j])
      BY <3>1, <3>2 DEF SendSound, ClientSound
    <3>4. ASSUME NEW x, NEW h \in 1..(i + 1) - 1, c.send[h] = x
          PROVE  x = m \/ \E g \in 1..i - 1 : c2.send[g] = x
      <4>1. CASE h = 1
        BY <1>1, <3>4, <4>1
      <4>2. CASE h # 1
        <5>1. h - 1 \in 1..i - 1 /\ h - 1 \in 1..Len(c.send) - 1
          BY <1>1, <4>2
        <5>2. c2.send[h - 1] = c.send[h]
          BY <1>1, <5>1
        <5> QED
          BY <3>4, <5>1, <5>2
      <4> QED
        BY <4>1, <4>2
    <3>5. \A j \in 1..c.send[i + 1].last :
            log[j] \in v2.known \/ \E g \in 1..i - 1 : c2.send[g] = Item(log[j])
      BY <1>3, <3>3, <3>4
    <3> QED
      BY <3>1, <3>3, <3>5
  <2> QED
    BY <2>1 DEF SendSound
<1> QED
  BY <1>6, <1>7, <1>9, <1>11, <1>12, <1>13 DEF ClientSound

\* The replay is cut out of the log.
LEMMA SoundAfterSync ==
  ASSUME NEW log \in Seq(Changes), NEW c, NEW c2, NEW v, NEW A, ConnTyped(c), ViewTyped(v),
         c.open, ~c.syncing, ~v.synced, c2.open, c2.syncing, c2.send = c.send,
         c2.replay \in Seq(Messages), Len(c2.replay) = Len(log) - v.cursor + 1,
         \A i \in 1..Len(log) - v.cursor : c2.replay[i] = Item(log[v.cursor + i]),
         c2.replay[Len(log) - v.cursor + 1] = Done(Len(log)),
         ClientSound(log, c, v, A)
  PROVE  ClientSound(log, c2, v, A)
<1> DEFINE n == Len(log) - v.cursor
<1>1. /\ Len(log) \in Nat /\ v.cursor \in Nat /\ v.cursor <= Len(log)
      /\ \A j \in 1..v.cursor : log[j] \in v.known
  BY LenProperties DEF ClientSound, ViewSound, ViewTyped
<1>2. n \in Nat /\ DOMAIN c2.replay = 1..n + 1
  BY <1>1, LenProperties
<1>3. \A j \in 1..Len(log) : Sent(c2, v, log[j])
  <2> TAKE j \in 1..Len(log)
  <2>1. CASE j <= v.cursor
    BY <1>1, <2>1 DEF Sent
  <2>2. CASE ~(j <= v.cursor)
    <3>1. j - v.cursor \in 1..n /\ j - v.cursor \in 1..n + 1 /\ v.cursor + (j - v.cursor) = j
      BY <1>1, <2>2
    <3>2. c2.replay[j - v.cursor] = Item(log[j])
      BY <3>1
    <3> QED
      BY <1>2, <3>1, <3>2 DEF Sent, Has
  <2> QED
    BY <2>1, <2>2
<1>4. \A i \in 1..n + 1 : c2.replay[i].done <=> i = n + 1
  <2> TAKE i \in 1..n + 1
  <2>1. CASE i = n + 1
    BY <2>1, DoneKind, Zenon
  <2>2. CASE i # n + 1
    <3>1. i \in 1..n
      BY <1>2, <2>2
    <3>2. c2.replay[i] = Item(log[v.cursor + i])
      BY <3>1
    <3> QED
      BY <2>2, <3>2, ItemKind, Zenon
  <2> QED
    BY <2>1, <2>2
<1>5. ViewSound(log, c2, v)
  BY DEF ViewSound, ClientSound
<1>6. LogReaches(log, c2, v, A)
  BY <1>3 DEF LogReaches
<1>7. SyncedSound(c2, v)
  BY DEF SyncedSound
<1>8. \A i \in 1..Len(c.send) : ~c.send[i].done
  BY DEF DoneIsLast, ClientSound
<1>9. DoneIsLast(c2)
  BY <1>4, <1>8 DEF DoneIsLast
<1>10. ReplaySound(log, c2, v)
  <2>1. c2.replay[n + 1].last = Len(log)
    BY DoneKind
  <2>2. ASSUME NEW i \in 1..Len(c2.replay), c2.replay[i].done
        PROVE  i = n + 1
    BY <1>4, <2>2
  <2> QED
    BY <1>1, <1>3, <2>1, <2>2 DEF ReplaySound
<1>11. SendSound(log, c2, v)
  BY <1>8 DEF SendSound
<1> QED
  BY <1>5, <1>6, <1>7, <1>9, <1>10, <1>11 DEF ClientSound

\* A closed connection.
LEMMA SoundWhenClosed ==
  ASSUME NEW log, NEW c, NEW v, NEW A,
         ~c.open, c.send = <<>>, c.replay = <<>>, ViewSound(log, c, v)
  PROVE  ClientSound(log, c, v, A)
<1>1. Len(c.send) = 0 /\ Len(c.replay) = 0
  OBVIOUS
<1> QED
  BY <1>1 DEF ClientSound, LogReaches, SyncedSound, DoneIsLast, ReplaySound, SendSound

-----------------------------------------------------------------------------
(* The states of the stream.                                               *)

StreamTyped ==
  /\ DOMAIN change = Changes
  /\ eventLog \in Seq(Changes)
  /\ DOMAIN agg = {"step", "event", "targets"}
  /\ agg.step \in {"receive", "insert", "publish", "deliver"}
  /\ agg.step # "receive" => agg.event \in Changes
  /\ DOMAIN conn = Clients /\ DOMAIN view = Clients
  /\ \A k \in Clients : ConnTyped(conn[k]) /\ ViewTyped(view[k])

\* A closed connection holds nothing, and its client is not synchronised.
ClosedSound(c, v) == ~c.open => c.send = <<>> /\ c.replay = <<>> /\ ~v.synced

ClosedAreEmpty == \A k \in Clients : ClosedSound(conn[k], view[k])

InBus(c) == \/ Has(outbox, c)
            \/ forwarder = "push" /\ flight = c
            \/ Has(backlog, c)

\* Only a change that was written has an event anywhere, and the log has no traces.
WrittenFirst ==
  /\ \A c : InBus(c) => c \in Changes /\ change[c] # "idle"
  /\ agg.step # "receive" => change[agg.event] # "idle"
  /\ \A i \in 1..Len(eventLog) : eventLog[i] \notin Traces /\ change[eventLog[i]] # "idle"

\* A published event is on the bus, with the aggregator or in the log.
PublishedKept ==
  \A c \in Changes \ Traces : change[c] = "published" =>
    InBus(c) \/ (agg.step = "insert" /\ agg.event = c) \/ Has(eventLog, c)

Coming(k) == IF agg.step = "publish" \/ (agg.step = "deliver" /\ k \in agg.targets)
             THEN {agg.event} ELSE {}

ClientsSound == \A k \in Clients : ClientSound(eventLog, conn[k], view[k], Coming(k))

StreamInv == /\ BusTyped /\ StreamTyped /\ ClosedAreEmpty
             /\ WrittenFirst /\ PublishedKept /\ ClientsSound

\* The actions of the bus.
BusMoves == \/ \E c \in Changes : Write(c) \/ Publish(c)
            \/ TakeNext \/ Push \/ Delivered \/ Awake

LEMMA BusMovesOnly == BusMoves => UNCHANGED <<inbox, agg, eventLog, conn, view>>
  BY DEF BusMoves, Write, Publish, TakeNext, Push, Delivered, Awake

-----------------------------------------------------------------------------
(* Types and closed connections.                                           *)

\* What a connection may turn into.
LEMMA ConnGrows ==
  ASSUME NEW c, ConnTyped(c), NEW m \in Messages
  PROVE  /\ [c EXCEPT !.send = Append(@, m)].send = Append(c.send, m)
         /\ ConnTyped([c EXCEPT !.send = Append(@, m)])
<1>1. Append(c.send, m) \in Seq(Messages)
  BY AppendProperties DEF ConnTyped
<1> QED
  BY <1>1 DEF ConnTyped

LEMMA ClosedTyped == ConnTyped(Closed) /\ ConnTyped([Closed EXCEPT !.open = TRUE])
<1>1. <<>> \in Seq(Messages)
  BY EmptySeq
<1> QED
  BY <1>1 DEF Closed, ConnTyped

LEMMA ReplayTyped ==
  ASSUME StreamTyped, NEW k \in Clients, Sync(k), view[k].cursor <= Len(eventLog)
  PROVE  /\ conn'[k].replay \in Seq(Messages)
         /\ Len(conn'[k].replay) = Len(eventLog) - view[k].cursor + 1
         /\ \A i \in 1..Len(eventLog) - view[k].cursor :
              conn'[k].replay[i] = Item(eventLog[view[k].cursor + i])
         /\ conn'[k].replay[Len(eventLog) - view[k].cursor + 1] = Done(Len(eventLog))
<1> DEFINE from == view[k].cursor
           n == Len(eventLog) - from
           missing == Replayed(from)
           items == [i \in DOMAIN missing |-> Item(missing[i])]
           last == Done(Len(eventLog))
<1>1. from \in Nat /\ Len(eventLog) \in Nat /\ eventLog \in Seq(Changes) /\ n \in Nat
  BY LenProperties DEF StreamTyped, ViewTyped
<1>2. /\ missing \in Seq(Changes) /\ Len(missing) = n
      /\ \A i \in 1..n : missing[i] = eventLog[from + i]
  <2>1. \A i \in from + 1..Len(eventLog) : eventLog[i] \in Changes
    BY <1>1, ElementOfSeq
  <2>2. /\ SubSeq(eventLog, from + 1, Len(eventLog)) \in Seq(Changes)
        /\ Len(SubSeq(eventLog, from + 1, Len(eventLog))) =
             IF from + 1 <= Len(eventLog) THEN Len(eventLog) - (from + 1) + 1 ELSE 0
        /\ \A i \in 1..Len(eventLog) - (from + 1) + 1 :
             SubSeq(eventLog, from + 1, Len(eventLog))[i] = eventLog[from + 1 + i - 1]
    <3>1. from + 1 \in Int /\ Len(eventLog) \in Int
      BY <1>1
    <3> HIDE DEF from
    <3> QED
      BY <2>1, <3>1, SubSeqProperties
  <2>3. /\ Len(eventLog) - (from + 1) + 1 = n
        /\ \A i \in 1..n : from + 1 + i - 1 = from + i
        /\ (IF from + 1 <= Len(eventLog) THEN Len(eventLog) - (from + 1) + 1 ELSE 0) = n
    BY <1>1
  <2> QED
    BY <2>1, <2>2, <2>3 DEF Replayed
<1>3. DOMAIN missing = 1..n
  BY <1>2, LenProperties
<1>4. /\ items \in Seq(Messages) /\ Len(items) = n
      /\ \A i \in 1..n : items[i] = Item(eventLog[from + i])
  <2>1. \A i \in 1..n : missing[i] \in Changes
    BY <1>2, ElementOfSeq
  <2>2. \A i \in 1..n : Item(missing[i]) \in Messages
    BY <2>1, TheyAreMessages
  <2>3. items = [i \in 1..n |-> Item(missing[i])]
    BY <1>3
  <2> HIDE DEF items, missing, n
  <2>4. items \in [1..n -> Messages]
    BY <2>2, <2>3
  <2>5. items \in Seq(Messages)
    BY <1>1, <2>4, IsASeq
  <2>6. Len(items) = n
    BY <1>1, <2>3, <2>5, LenProperties
  <2> QED
    BY <1>2, <2>3, <2>5, <2>6
<1>5. last \in Messages
  BY <1>1, TheyAreMessages
<1>6. conn'[k].replay = items \o <<last>>
  BY DEF Sync, StreamTyped, ConnTyped
<1> HIDE DEF items, missing, last
<1>7. items \o <<last>> = Append(items, last)
  BY <1>4, <1>5, AppendIsConcat
<1>8. /\ Append(items, last) \in Seq(Messages) /\ Len(Append(items, last)) = n + 1
      /\ \A i \in 1..n : Append(items, last)[i] = items[i]
      /\ Append(items, last)[n + 1] = last
  BY <1>4, <1>5, AppendProperties
<1> QED
  BY <1>4, <1>6, <1>7, <1>8 DEF last

LEMMA StreamTypedStep ==
  ASSUME BusTyped, StreamTyped, ClosedAreEmpty, ClientsSound, [StreamNext]_streamVars
  PROVE  StreamTyped' /\ ClosedAreEmpty'
<1> USE DEF StreamTyped, ClosedAreEmpty
<1>1. CASE BusMoves
  <2>1. DOMAIN change' = Changes
    BY <1>1 DEF BusMoves, Write, Publish, TakeNext, Push, Delivered, Awake
  <2> QED
    BY <1>1, <2>1, BusMovesOnly
<1>2. CASE Receive
  <2>1. Head(outbox) \in Changes
    BY <1>2, HeadTailProperties DEF BusTyped, Receive
  <2> QED
    BY <1>2, <2>1 DEF Receive
<1>3. CASE Insert
  <2>1. agg.event \in Changes
    BY <1>3 DEF Insert
  <2>2. eventLog' \in Seq(Changes)
    BY <1>3, <2>1, AppendProperties DEF Insert
  <2> QED
    BY <1>3, <2>1, <2>2 DEF Insert
<1>4. CASE InsertFails \/ LookUpTargets \/ Forwarded
  <2>1. CASE InsertFails
    <3>1. DOMAIN change' = Changes
      BY <2>1 DEF InsertFails
    <3> QED
      BY <2>1, <3>1 DEF InsertFails, Idle
  <2>2. CASE LookUpTargets
    BY <2>2 DEF LookUpTargets
  <2>3. CASE Forwarded
    BY <2>3 DEF Forwarded, Idle
  <2> QED
    BY <1>4, <2>1, <2>2, <2>3
<1>5. ASSUME NEW k \in Clients, Deliver(k)
      PROVE  StreamTyped' /\ ClosedAreEmpty'
  <2>1. Item(agg.event) \in Messages
    BY <1>5, TheyAreMessages DEF Deliver
  <2>2. ConnTyped(conn'[k]) /\ ClosedSound(conn'[k], view[k])
    BY <1>5, <2>1, ConnGrows, ZenonT(40) DEF Deliver, ClosedSound, ConnTyped
  <2>3. DOMAIN conn' = Clients /\ \A j \in Clients \ {k} : conn'[j] = conn[j]
    BY <1>5 DEF Deliver
  <2> QED
    BY <1>5, <2>2, <2>3 DEF Deliver
<1>6. ASSUME NEW k \in Clients, Replay(k)
      PROVE  StreamTyped' /\ ClosedAreEmpty'
  <2>1. Head(conn[k].replay) \in Messages /\ Tail(conn[k].replay) \in Seq(Messages)
    BY <1>6, HeadTailProperties DEF Replay, ConnTyped
  <2>2. Append(conn[k].send, Head(conn[k].replay)) \in Seq(Messages)
    BY <2>1, AppendProperties DEF ConnTyped
  <2>3. ConnTyped(conn'[k]) /\ ClosedSound(conn'[k], view[k])
    BY <1>6, <2>1, <2>2 DEF Replay, ClosedSound, ConnTyped
  <2>4. DOMAIN conn' = Clients /\ \A j \in Clients \ {k} : conn'[j] = conn[j]
    BY <1>6 DEF Replay
  <2> QED
    BY <1>6, <2>3, <2>4 DEF Replay
<1>7. ASSUME NEW k \in Clients, WritePump(k)
      PROVE  StreamTyped' /\ ClosedAreEmpty'
  <2> DEFINE m == Head(conn[k].send)
  <2>1. m \in Messages /\ Tail(conn[k].send) \in Seq(Messages)
    BY <1>7, HeadTailProperties DEF WritePump, ConnTyped
  <2>2. ConnTyped(conn'[k]) /\ conn'[k].open
    BY <1>7, <2>1 DEF WritePump, ConnTyped
  <2>3. ViewTyped(view'[k])
    <3>1. CASE m.done
      <4>1. m.last \in Nat
        BY <2>1, <3>1, MessageKinds
      <4>2. view' = [view EXCEPT ![k].synced = TRUE, ![k].cursor = m.last]
        BY <1>7, <3>1 DEF WritePump
      <4> QED
        BY <4>1, <4>2 DEF ViewTyped
    <3>2. CASE ~m.done
      <4>1. view' = [view EXCEPT ![k].known = @ \cup {m.event}]
        BY <1>7, <3>2 DEF WritePump
      <4> QED
        BY <4>1 DEF ViewTyped
    <3> QED
      BY <3>1, <3>2
  <2>4. /\ DOMAIN conn' = Clients /\ \A j \in Clients \ {k} : conn'[j] = conn[j]
        /\ DOMAIN view' = Clients /\ \A j \in Clients \ {k} : view'[j] = view[j]
    BY <1>7 DEF WritePump
  <2> QED
    BY <1>7, <2>2, <2>3, <2>4 DEF WritePump, ClosedSound
<1>8. ASSUME NEW k \in Clients, Snapshot(k)
      PROVE  StreamTyped' /\ ClosedAreEmpty'
  <2>1. Len(eventLog) \in Nat
    BY LenProperties
  <2>2. view'[k] = [known |-> {c \in Changes : change[c] # "idle"},
                    cursor |-> Len(eventLog), loaded |-> TRUE, synced |-> FALSE]
    BY <1>8 DEF Snapshot
  <2>3. ViewTyped(view'[k]) /\ view'[k].synced = FALSE
    BY <2>1, <2>2 DEF ViewTyped
  <2>4. DOMAIN view' = Clients /\ \A j \in Clients \ {k} : view'[j] = view[j]
    BY <1>8 DEF Snapshot
  <2> QED
    BY <1>8, <2>3, <2>4 DEF Snapshot, ClosedSound
<1>9. ASSUME NEW k \in Clients, Connect(k)
      PROVE  StreamTyped' /\ ClosedAreEmpty'
  <2>1. ConnTyped(conn'[k]) /\ conn'[k].open
    <3>1. conn'[k] = [Closed EXCEPT !.open = TRUE]
      BY <1>9 DEF Connect
    <3>2. [Closed EXCEPT !.open = TRUE].open = TRUE
      BY DEF Closed
    <3> QED
      BY <3>1, <3>2, ClosedTyped
  <2>2. DOMAIN conn' = Clients /\ \A j \in Clients \ {k} : conn'[j] = conn[j]
    BY <1>9 DEF Connect
  <2> QED
    BY <1>9, <2>1, <2>2 DEF Connect, ClosedSound
<1>10. ASSUME NEW k \in Clients, Sync(k)
       PROVE  StreamTyped' /\ ClosedAreEmpty'
  <2>1. view[k].cursor <= Len(eventLog)
    BY <1>10 DEF ClientsSound, ClientSound, ViewSound, Sync
  <2>2. conn'[k].replay \in Seq(Messages)
    BY <1>10, <2>1, ReplayTyped
  <2>3. ConnTyped(conn'[k]) /\ conn'[k].open
    BY <1>10, <2>2 DEF Sync, ConnTyped
  <2>4. DOMAIN conn' = Clients /\ \A j \in Clients \ {k} : conn'[j] = conn[j]
    BY <1>10 DEF Sync
  <2> QED
    BY <1>10, <2>3, <2>4 DEF Sync, ClosedSound
<1>11. ASSUME NEW k \in Clients, Disconnect(k)
       PROVE  StreamTyped' /\ ClosedAreEmpty'
  <2>1. conn'[k] = Closed /\ Closed.send = <<>> /\ Closed.replay = <<>>
    BY <1>11 DEF Disconnect, Closed
  <2>2. ViewTyped(view'[k]) /\ view'[k].synced = FALSE
    BY <1>11 DEF Disconnect, ViewTyped
  <2>3. /\ DOMAIN conn' = Clients /\ \A j \in Clients \ {k} : conn'[j] = conn[j]
        /\ DOMAIN view' = Clients /\ \A j \in Clients \ {k} : view'[j] = view[j]
    BY <1>11 DEF Disconnect
  <2> QED
    BY <1>11, <2>1, <2>2, <2>3, ClosedTyped DEF Disconnect, ClosedSound
<1>12. CASE RestartServer
  <2>1. \A k \in Clients : conn'[k] = Closed /\ Closed.send = <<>> /\ Closed.replay = <<>>
    BY <1>12 DEF RestartServer, Closed
  <2>2. \A k \in Clients : ViewTyped(view'[k]) /\ view'[k].synced = FALSE
    BY <1>12 DEF RestartServer, ViewTyped
  <2>3. DOMAIN conn' = Clients /\ DOMAIN view' = Clients /\ DOMAIN change' = Changes
    BY <1>12 DEF RestartServer
  <2> QED
    BY <1>12, <2>1, <2>2, <2>3, ClosedTyped DEF RestartServer, ClosedSound, Idle
<1>13. CASE UNCHANGED streamVars
  BY <1>13 DEF streamVars
<1> QED
  BY <1>1, <1>2, <1>3, <1>4, <1>5, <1>6, <1>7, <1>8, <1>9, <1>10, <1>11, <1>12, <1>13
  DEF StreamNext, ServerStep, BusMoves

-----------------------------------------------------------------------------
(* Where an event is.                                                      *)

\* What a step of the bus does to the events it holds.
LEMMA BusHolds ==
  ASSUME BusTyped, DOMAIN change = Changes, BusMoves, NEW x
  PROVE  /\ InBus(x) => InBus(x)'
         /\ InBus(x)' => InBus(x) \/ (x \in Changes /\ change'[x] # "idle" /\ change[x] = "written")
<1> USE DEF InBus, BusTyped
<1>1. ASSUME NEW c \in Changes, Write(c)
      PROVE  InBus(x)' <=> InBus(x)
  BY <1>1 DEF Write, busVars
<1>2. ASSUME NEW c \in Changes, Publish(c)
      PROVE  /\ InBus(x) => InBus(x)'
             /\ InBus(x)' => InBus(x) \/ x = c
  <2>1. /\ Has(Append(outbox, c), x) <=> Has(outbox, x) \/ x = c
        /\ Has(Append(backlog, c), x) <=> Has(backlog, x) \/ x = c
    BY HasAppend
  <2> QED
    BY <1>2, <2>1 DEF Publish, Queued
<1>3. ASSUME NEW c \in Changes, Publish(c), InBus(x)', ~InBus(x)
      PROVE  x = c /\ change[c] = "written" /\ change'[c] # "idle"
  <2>1. x = c /\ change[c] = "written"
    BY <1>2, <1>3 DEF Publish
  <2> QED
    BY <1>3, <2>1 DEF Publish
<1>4. CASE TakeNext
  <2>1. backlog # <<>> => (Has(backlog, x) <=> x = Head(backlog) \/ Has(Tail(backlog), x))
    BY HasTail
  <2>2. CASE backlog # <<>>
    BY <1>4, <2>1, <2>2 DEF TakeNext
  <2>3. CASE backlog = <<>>
    BY <1>4, <2>3 DEF TakeNext
  <2> QED
    BY <2>2, <2>3
<1>5. CASE Push
  <2>1. Has(Append(outbox, flight), x) <=> Has(outbox, x) \/ x = flight
    BY <1>5, HasAppend DEF Push
  <2> QED
    BY <1>5, <2>1 DEF Push
<1>6. CASE Delivered \/ Awake
  BY <1>6 DEF Delivered, Awake
<1> QED
  BY <1>1, <1>2, <1>3, <1>4, <1>5, <1>6 DEF BusMoves

LEMMA ReceiveHolds ==
  ASSUME BusTyped, Receive, NEW x
  PROVE  InBus(x) <=> InBus(x)' \/ x = Head(outbox)
<1>1. Has(outbox, x) <=> x = Head(outbox) \/ Has(Tail(outbox), x)
  BY HasTail DEF Receive, BusTyped
<1> QED
  BY <1>1 DEF Receive, InBus

\* A change never becomes idle again.
LEMMA WrittenStays ==
  ASSUME StreamTyped, [StreamNext]_streamVars, NEW c \in Changes, change[c] # "idle"
  PROVE  change'[c] # "idle"
<1> USE DEF StreamTyped
<1>1. ASSUME NEW d \in Changes, Write(d) \/ Publish(d)
      PROVE  change'[c] # "idle"
  BY <1>1 DEF Write, Publish
<1>2. CASE InsertFails
  BY <1>2 DEF InsertFails
<1>3. CASE RestartServer
  BY <1>3 DEF RestartServer
<1>4. CASE UNCHANGED change
  BY <1>4
<1> QED
  BY <1>1, <1>2, <1>3, <1>4
  DEF StreamNext, ServerStep, TakeNext, Push, Delivered, Awake, Receive, Insert, LookUpTargets,
      Forwarded, Deliver, Replay, WritePump, Snapshot, Connect, Sync, Disconnect, streamVars

LEMMA WrittenFirstStep ==
  ASSUME BusTyped, StreamTyped, WrittenFirst, [StreamNext]_streamVars
  PROVE  WrittenFirst'
<1> USE DEF WrittenFirst
<1>0. \A c \in Changes : change[c] # "idle" => change'[c] # "idle"
  BY WrittenStays
<1>1. \A i \in 1..Len(eventLog) : eventLog[i] \in Changes
  BY ElementOfSeq DEF StreamTyped
<1>2. agg.step # "receive" => agg.event \in Changes
  BY DEF StreamTyped
<1>3. CASE BusMoves
  <2>1. UNCHANGED <<agg, eventLog>>
    BY <1>3, BusMovesOnly
  <2>2. \A c : InBus(c)' => c \in Changes /\ change'[c] # "idle"
    BY <1>0, <1>3, BusHolds DEF StreamTyped
  <2> QED
    BY <1>0, <1>1, <1>2, <2>1, <2>2
<1>4. CASE Receive
  <2>1. agg'.event = Head(outbox) /\ InBus(Head(outbox)) /\ UNCHANGED <<change, eventLog>>
    BY <1>4, ReceiveHolds DEF Receive, StreamTyped
  <2>2. \A c : InBus(c)' => InBus(c)
    BY <1>4, ReceiveHolds
  <2> QED
    BY <2>1, <2>2
<1>5. CASE Insert
  <2>1. UNCHANGED <<change, busVars>> /\ agg'.event = agg.event /\ agg.step = "insert"
    BY <1>5 DEF Insert, StreamTyped
  <2>2. \A c : InBus(c)' <=> InBus(c)
    BY <2>1 DEF InBus, busVars
  <2>3. CASE agg.event \in Traces
    BY <1>5, <2>1, <2>2, <2>3 DEF Insert
  <2>4. CASE agg.event \notin Traces
    <3>1. eventLog' = Append(eventLog, agg.event)
      BY <1>5, <2>4 DEF Insert
    <3>2. /\ Len(eventLog') = Len(eventLog) + 1 /\ Len(eventLog) \in Nat
          /\ \A i \in 1..Len(eventLog) : eventLog'[i] = eventLog[i]
          /\ eventLog'[Len(eventLog) + 1] = agg.event
      BY <1>2, <2>1, <3>1, AppendProperties, LenProperties DEF StreamTyped
    <3>3. \A i \in 1..Len(eventLog') : i \in 1..Len(eventLog) \/ i = Len(eventLog) + 1
      BY <3>2
    <3>4. \A i \in 1..Len(eventLog') : eventLog'[i] \notin Traces /\ change[eventLog'[i]] # "idle"
      BY <2>1, <2>4, <3>2, <3>3
    <3> QED
      BY <2>1, <2>2, <3>4
  <2> QED
    BY <2>3, <2>4
<1>6. CASE RestartServer
  <2>1. \A c : ~InBus(c)'
    <3>1. \A c : ~Has(<<>>, c)
      BY EmptySeq DEF Has
    <3> QED
      BY <1>6, <3>1 DEF RestartServer, InBus
  <2>2. agg'.step = "receive" /\ UNCHANGED eventLog
    BY <1>6 DEF RestartServer, Idle
  <2> QED
    BY <1>0, <1>1, <2>1, <2>2
<1>7. CASE /\ UNCHANGED <<busVars, eventLog>>
           /\ agg'.step # "receive" => agg.step # "receive" /\ agg'.event = agg.event
  <2>1. \A c : InBus(c)' <=> InBus(c)
    BY <1>7 DEF InBus, busVars
  <2> QED
    BY <1>0, <1>1, <1>2, <1>7, <2>1
<1>8. ASSUME NEW k \in Clients, Deliver(k)
      PROVE  UNCHANGED <<busVars, eventLog>> /\ agg.step # "receive" /\ agg'.event = agg.event
  BY <1>8 DEF Deliver, StreamTyped
<1>9. CASE LookUpTargets
  <2>1. UNCHANGED <<busVars, eventLog>> /\ agg.step # "receive" /\ agg'.event = agg.event
    BY <1>9 DEF LookUpTargets, StreamTyped
  <2> QED
    BY <1>7, <2>1
<1>10. CASE InsertFails \/ Forwarded
  <2>1. UNCHANGED <<busVars, eventLog>> /\ agg'.step = "receive"
    BY <1>10 DEF InsertFails, Forwarded, Idle
  <2> QED
    BY <1>7, <2>1
<1>11. CASE UNCHANGED <<busVars, eventLog, agg>>
  BY <1>7, <1>11
<1> QED
  BY <1>3, <1>4, <1>5, <1>6, <1>7, <1>8, <1>9, <1>10, <1>11
  DEF StreamNext, ServerStep, BusMoves, Replay, WritePump, Snapshot, Connect, Sync, Disconnect,
      streamVars

LEMMA PublishedKeptStep ==
  ASSUME BusTyped, StreamTyped, PublishedKept, [StreamNext]_streamVars
  PROVE  PublishedKept'
<1> USE DEF PublishedKept
<1>1. ASSUME NEW c \in Changes \ Traces, change'[c] = "published"
      PROVE  InBus(c)' \/ (agg'.step = "insert" /\ agg'.event = c) \/ Has(eventLog, c)'
  <2> DEFINE Before == InBus(c) \/ (agg.step = "insert" /\ agg.event = c) \/ Has(eventLog, c)
             After == InBus(c)' \/ (agg'.step = "insert" /\ agg'.event = c) \/ Has(eventLog, c)'
  <2>1. change[c] = "published" => Before
    OBVIOUS
  <2> HIDE DEF Before
  <2>2. CASE BusMoves
    <3>1. UNCHANGED <<agg, eventLog>>
      BY <2>2, BusMovesOnly
    <3>2. InBus(c) => InBus(c)'
      BY <2>2, BusHolds DEF StreamTyped
    <3>3. CASE change[c] = "published"
      BY <2>1, <3>1, <3>2, <3>3 DEF Before
    <3>4. CASE change[c] # "published"
      <4>1. ASSUME NEW d \in Changes, Write(d)
            PROVE  FALSE
        BY <1>1, <3>4, <4>1 DEF Write, StreamTyped
      <4>2. ASSUME NEW d \in Changes, Publish(d)
            PROVE  InBus(c)'
        <5>1. d = c
          BY <1>1, <3>4, <4>2 DEF Publish, StreamTyped
        <5>2. CASE outbox' = Append(outbox, c)
          <6>1. Has(Append(outbox, c), c)
            BY HasAppend DEF BusTyped
          <6> QED
            BY <5>2, <6>1 DEF InBus
        <5>3. CASE backlog' = Append(backlog, c)
          <6>1. Has(Append(backlog, c), c)
            BY HasAppend DEF BusTyped
          <6> QED
            BY <5>3, <6>1 DEF InBus
        <5>4. CASE change'[c] = "lost"
          BY <1>1, <5>4
        <5> QED
          BY <4>2, <5>1, <5>2, <5>3, <5>4 DEF Publish, Queued, StreamTyped
      <4>3. CASE TakeNext \/ Push \/ Delivered \/ Awake
        BY <1>1, <3>4, <4>3 DEF TakeNext, Push, Delivered, Awake
      <4> QED
        BY <2>2, <4>1, <4>2, <4>3 DEF BusMoves
    <3> QED
      BY <3>3, <3>4
  <2>3. CASE Receive
    <3>1. InBus(c) => InBus(c)' \/ c = Head(outbox)
      BY <2>3, ReceiveHolds
    <3>2. agg'.step = "insert" /\ agg'.event = Head(outbox) /\ UNCHANGED <<change, eventLog>>
      BY <2>3 DEF Receive, StreamTyped
    <3>3. agg.step = "receive"
      BY <2>3 DEF Receive
    <3> QED
      BY <1>1, <2>1, <3>1, <3>2, <3>3 DEF Before
  <2>4. CASE Insert
    <3>1. UNCHANGED <<change, busVars>> /\ agg.event \in Changes
      BY <2>4 DEF Insert, StreamTyped
    <3>2. InBus(c) <=> InBus(c)'
      BY <3>1 DEF InBus, busVars
    <3>3. agg.event = c \/ Has(eventLog, c) => Has(eventLog, c)'
      <4>1. Has(Append(eventLog, agg.event), c) <=> Has(eventLog, c) \/ c = agg.event
        BY <3>1, HasAppend DEF StreamTyped
      <4>2. agg.event = c => eventLog' = Append(eventLog, agg.event)
        BY <1>1, <2>4 DEF Insert
      <4>3. eventLog' = Append(eventLog, agg.event) \/ eventLog' = eventLog
        BY <2>4 DEF Insert
      <4>4. CASE eventLog' = Append(eventLog, agg.event)
        BY <4>1, <4>4
      <4>5. CASE eventLog' = eventLog
        BY <4>1, <4>2, <4>5
      <4> QED
        BY <4>3, <4>4, <4>5
    <3> QED
      BY <1>1, <2>1, <3>1, <3>2, <3>3 DEF Before
  <2>5. CASE InsertFails
    <3>1. /\ UNCHANGED <<busVars, eventLog>> /\ agg.event \in Changes
          /\ change' = [change EXCEPT ![agg.event] = "lost"]
      BY <2>5 DEF InsertFails, StreamTyped
    <3>2. InBus(c) <=> InBus(c)'
      BY <3>1 DEF InBus, busVars
    <3>3. c # agg.event /\ change[c] = "published"
      BY <1>1, <3>1 DEF StreamTyped
    <3> QED
      BY <2>1, <3>1, <3>2, <3>3 DEF Before
  <2>6. CASE RestartServer
    <3>1. eventLog' = eventLog /\ Has(eventLog, c)
      BY <1>1, <2>6 DEF RestartServer, Has
    <3> QED
      BY <3>1
  <2>7. CASE UNCHANGED <<change, busVars, eventLog>> /\ (agg'.step = agg.step \/ agg.step # "insert")
             /\ (agg'.event = agg.event \/ agg.step # "insert")
    <3>1. InBus(c) <=> InBus(c)'
      BY <2>7 DEF InBus, busVars
    <3> QED
      BY <1>1, <2>1, <2>7, <3>1 DEF Before
  <2>8. ASSUME \/ LookUpTargets \/ Forwarded
               \/ \E k \in Clients : Deliver(k)
        PROVE  UNCHANGED <<change, busVars, eventLog>> /\ agg.step # "insert"
    BY <2>8 DEF LookUpTargets, Forwarded, Deliver
  <2>9. CASE UNCHANGED <<change, busVars, eventLog, agg>>
    BY <2>7, <2>9
  <2> QED
    BY <2>2, <2>3, <2>4, <2>5, <2>6, <2>7, <2>8, <2>9
    DEF StreamNext, ServerStep, BusMoves, Replay, WritePump, Snapshot, Connect, Sync, Disconnect,
        streamVars
<1> QED
  BY <1>1

-----------------------------------------------------------------------------
(* What the clients have.                                                  *)

LEMMA ClientsSoundStep ==
  ASSUME BusTyped, StreamTyped, ClosedAreEmpty, WrittenFirst, ClientsSound,
         [StreamNext]_streamVars
  PROVE  ClientsSound'
<1>0. /\ eventLog \in Seq(Changes)
      /\ \A k \in Clients : /\ ConnTyped(conn[k]) /\ ViewTyped(view[k])
                            /\ ClientSound(eventLog, conn[k], view[k], Coming(k))
                            /\ ClosedSound(conn[k], view[k])
      /\ \A i \in 1..Len(eventLog) : eventLog[i] \notin Traces /\ change[eventLog[i]] # "idle"
  BY DEF StreamTyped, ClientsSound, ClosedAreEmpty, WrittenFirst
\* The log, the connection and the view stay, and no event is taken from the aggregator.
<1>1. ASSUME NEW k \in Clients, eventLog' = eventLog, conn'[k] = conn[k], view'[k] = view[k],
             conn[k].open => \A e \in Coming(k) \ Traces : e \in Coming(k)'
      PROVE  ClientSound(eventLog, conn[k], view[k], Coming(k))'
  <2> DEFINE A == Coming(k)
             B == Coming(k)'
  <2>1. conn[k].open => \A j \in 1..Len(eventLog) : eventLog[j] \in A => eventLog[j] \in B
    BY <1>0, <1>1
  <2> HIDE DEF A, B
  <2>2. ClientSound(eventLog, conn[k], view[k], A)
    BY <1>0 DEF A
  <2>3. ClientSound(eventLog, conn[k], view[k], B)
    BY <2>1, <2>2, SoundElsewhere
  <2> QED
    BY <1>1, <2>3 DEF B
<1>2. CASE UNCHANGED <<eventLog, conn, view>> /\ \A k \in Clients : Coming(k) = {}
  BY <1>1, <1>2 DEF ClientsSound
<1>3. CASE UNCHANGED <<eventLog, conn, view, agg>>
  <2>1. \A k \in Clients : Coming(k)' = Coming(k)
    BY <1>3 DEF Coming
  <2> QED
    BY <1>1, <1>3, <2>1 DEF ClientsSound
<1>4. CASE BusMoves
  BY <1>3, <1>4, BusMovesOnly
<1>5. CASE Receive
  BY <1>2, <1>5 DEF Receive, Coming
<1>6. CASE Insert
  <2>1. (\A k \in Clients : Coming(k) = {}) /\ agg.event \in Changes /\ UNCHANGED <<conn, view>>
    BY <1>6 DEF Insert, Coming, StreamTyped
  <2>2. CASE eventLog' = eventLog
    BY <1>2, <2>1, <2>2
  <2>3. CASE eventLog' = Append(eventLog, agg.event)
    <3>1. \A k \in Clients : Coming(k)' = {agg.event}
      BY <1>6 DEF Insert, Coming, StreamTyped
    <3>2. \A k \in Clients :
            ClientSound(Append(eventLog, agg.event), conn[k], view[k], {agg.event})
      BY <1>0, <2>1, SoundAfterInsert
    <3> QED
      BY <2>1, <2>3, <3>1, <3>2 DEF ClientsSound
  <2> QED
    BY <1>6, <2>2, <2>3 DEF Insert
<1>7. CASE InsertFails
  BY <1>2, <1>7 DEF InsertFails, Coming
<1>8. CASE LookUpTargets
  <2>1. \A k \in Clients : conn[k].open => Coming(k)' = Coming(k)
    BY <1>8 DEF LookUpTargets, Coming, StreamTyped
  <2>2. UNCHANGED <<eventLog, conn, view>>
    BY <1>8 DEF LookUpTargets
  <2> QED
    BY <1>1, <2>1, <2>2 DEF ClientsSound
<1>9. CASE Forwarded
  BY <1>2, <1>9 DEF Forwarded, Coming
<1>10. ASSUME NEW k \in Clients, Deliver(k)
       PROVE  ClientsSound'
  <2> DEFINE e == agg.event
  <2>1. /\ e \in Changes /\ Coming(k) = {e} /\ Coming(k)' = {}
        /\ \A j \in Clients \ {k} : Coming(j)' = Coming(j)
        /\ UNCHANGED <<eventLog, view>>
    BY <1>10 DEF Deliver, Coming, StreamTyped
  <2>2. \A j \in Clients \ {k} : conn'[j] = conn[j]
    BY <1>10 DEF Deliver, StreamTyped
  <2>3. \A j \in Clients \ {k} : ClientSound(eventLog, conn[j], view[j], Coming(j))'
    BY <1>1, <2>1, <2>2
  <2>4. CASE conn' = [conn EXCEPT ![k].send = Append(@, Item(agg.event))]
    <3>1. /\ conn'[k].send = Append(conn[k].send, Item(e)) /\ conn'[k].replay = conn[k].replay
          /\ conn'[k].open <=> conn[k].open
          /\ conn'[k].syncing <=> conn[k].syncing
      BY <1>0, <2>4 DEF StreamTyped, ConnTyped
    <3>2. ClientSound(eventLog, conn'[k], view[k], {e} \ {e})
      BY <1>0, <2>1, <3>1, SoundAfterDelivery
    <3>3. {e} \ {e} = {}
      OBVIOUS
    <3> QED
      BY <2>1, <2>3, <3>2, <3>3 DEF ClientsSound
  <2>5. CASE UNCHANGED conn /\ (~conn[k].open \/ agg.event \in Traces)
    <3>1. ClientSound(eventLog, conn[k], view[k], Coming(k))'
      BY <1>1, <2>1, <2>5
    <3> QED
      BY <2>3, <3>1 DEF ClientsSound
  <2> QED
    BY <1>10, <2>4, <2>5 DEF Deliver
\* One client does something, the aggregator does not.
<1>11. ASSUME NEW k \in Clients, UNCHANGED <<eventLog, agg>>,
              \A j \in Clients \ {k} : conn'[j] = conn[j] /\ view'[j] = view[j],
              ClientSound(eventLog, conn'[k], view'[k], Coming(k))
       PROVE  ClientsSound'
  <2>1. \A j \in Clients : Coming(j)' = Coming(j)
    BY <1>11 DEF Coming
  <2>2. \A j \in Clients \ {k} : ClientSound(eventLog, conn[j], view[j], Coming(j))'
    BY <1>1, <1>11, <2>1
  <2>3. ClientSound(eventLog, conn[k], view[k], Coming(k))'
    BY <1>11, <2>1
  <2> QED
    BY <2>2, <2>3 DEF ClientsSound
<1>12. ASSUME NEW k \in Clients, Replay(k)
       PROVE  ClientsSound'
  <2>1. /\ conn[k].replay # <<>> /\ conn'[k].send = Append(conn[k].send, Head(conn[k].replay))
        /\ conn'[k].replay = Tail(conn[k].replay)
        /\ conn'[k].open <=> conn[k].open
        /\ conn'[k].syncing <=> conn[k].syncing
    BY <1>0, <1>12 DEF Replay, StreamTyped, ConnTyped
  <2>2. ClientSound(eventLog, conn'[k], view[k], Coming(k))
    BY <1>0, <2>1, SoundAfterReplay
  <2>3. /\ \A j \in Clients \ {k} : conn'[j] = conn[j]
        /\ UNCHANGED <<eventLog, agg, view>>
    BY <1>12 DEF Replay, StreamTyped
  <2> QED
    BY <1>11, <2>2, <2>3
<1>13. ASSUME NEW k \in Clients, WritePump(k)
       PROVE  ClientsSound'
  <2> DEFINE m == Head(conn[k].send)
  <2>1. /\ conn[k].open /\ conn[k].send # <<>> /\ conn'[k].send = Tail(conn[k].send)
        /\ conn'[k].replay = conn[k].replay
        /\ conn'[k].open <=> conn[k].open
        /\ conn'[k].syncing <=> conn[k].syncing
    BY <1>0, <1>13 DEF WritePump, StreamTyped, ConnTyped
  <2>2. /\ view'[k].loaded <=> view[k].loaded
        /\ \/ m.done /\ view'[k].cursor = m.last /\ view'[k].known = view[k].known
           \/ /\ ~m.done /\ view'[k].cursor = view[k].cursor
              /\ view'[k].known = view[k].known \cup {m.event}
              /\ view'[k].synced <=> view[k].synced
    <3>1. CASE m.done
      <4>1. view' = [view EXCEPT ![k].synced = TRUE, ![k].cursor = m.last]
        BY <1>13, <3>1 DEF WritePump
      <4> QED
        BY <1>0, <3>1, <4>1 DEF StreamTyped, ViewTyped
    <3>2. CASE ~m.done
      <4>1. view' = [view EXCEPT ![k].known = @ \cup {m.event}]
        BY <1>13, <3>2 DEF WritePump
      <4> QED
        BY <1>0, <3>2, <4>1 DEF StreamTyped, ViewTyped
    <3> QED
      BY <3>1, <3>2
  <2>3. ClientSound(eventLog, conn'[k], view'[k], Coming(k))
    BY <1>0, <2>1, <2>2, SoundAfterReading
  <2>4. /\ \A j \in Clients \ {k} : conn'[j] = conn[j] /\ view'[j] = view[j]
        /\ UNCHANGED <<eventLog, agg>>
    BY <1>13 DEF WritePump, StreamTyped
  <2> QED
    BY <1>11, <2>3, <2>4
<1>14. ASSUME NEW k \in Clients, Snapshot(k)
       PROVE  ClientsSound'
  <2>1. /\ view'[k].loaded /\ view'[k].cursor = Len(eventLog)
        /\ view'[k].known = {c \in Changes : change[c] # "idle"}
        /\ ~conn[k].open /\ conn'[k] = conn[k]
    BY <1>14 DEF Snapshot, StreamTyped
  <2>2. \A j \in 1..Len(eventLog) : eventLog[j] \in Changes
    BY <1>0, ElementOfSeq
  <2>3. Len(eventLog) \in Nat
    BY <1>0, LenProperties
  <2>4. ViewSound(eventLog, conn'[k], view'[k])
    BY <1>0, <2>1, <2>2, <2>3 DEF ViewSound
  <2>5. ClientSound(eventLog, conn'[k], view'[k], Coming(k))
    BY <1>0, <2>1, <2>4, SoundWhenClosed DEF ClosedSound
  <2>6. /\ \A j \in Clients \ {k} : conn'[j] = conn[j] /\ view'[j] = view[j]
        /\ UNCHANGED <<eventLog, agg>>
    BY <1>14 DEF Snapshot, StreamTyped
  <2> QED
    BY <1>11, <2>5, <2>6
<1>15. ASSUME NEW k \in Clients, Connect(k)
       PROVE  ClientsSound'
  <2>1. /\ conn'[k].open /\ conn'[k].send = <<>> /\ conn'[k].replay = <<>>
        /\ ~conn'[k].syncing /\ view[k].loaded /\ ~view[k].synced
    BY <1>0, <1>15 DEF Connect, StreamTyped, Closed, ClosedSound
  <2>2. Len(conn'[k].send) = 0 /\ Len(conn'[k].replay) = 0
    BY <2>1
  <2>3. ViewSound(eventLog, conn'[k], view[k])
    BY <1>0, <2>1 DEF ViewSound, ClientSound
  <2>4. ClientSound(eventLog, conn'[k], view[k], Coming(k))
    BY <2>1, <2>2, <2>3
    DEF ClientSound, LogReaches, SyncedSound, DoneIsLast, ReplaySound, SendSound
  <2>5. /\ \A j \in Clients \ {k} : conn'[j] = conn[j]
        /\ UNCHANGED <<eventLog, agg, view>>
    BY <1>15 DEF Connect, StreamTyped
  <2> QED
    BY <1>11, <2>4, <2>5
<1>16. ASSUME NEW k \in Clients, Sync(k)
       PROVE  ClientsSound'
  <2>1. view[k].cursor <= Len(eventLog)
    BY <1>0, <1>16 DEF Sync, ClientSound, ViewSound
  <2>2. /\ conn'[k].replay \in Seq(Messages)
        /\ Len(conn'[k].replay) = Len(eventLog) - view[k].cursor + 1
        /\ \A i \in 1..Len(eventLog) - view[k].cursor :
             conn'[k].replay[i] = Item(eventLog[view[k].cursor + i])
        /\ conn'[k].replay[Len(eventLog) - view[k].cursor + 1] = Done(Len(eventLog))
    BY <1>16, <2>1, ReplayTyped
  <2>3. /\ conn[k].open /\ ~conn[k].syncing /\ ~view[k].synced
        /\ conn'[k].open /\ conn'[k].syncing /\ conn'[k].send = conn[k].send
    BY <1>0, <1>16 DEF Sync, StreamTyped, ConnTyped
  <2>4. ClientSound(eventLog, conn'[k], view[k], Coming(k))
    BY <1>0, <2>2, <2>3, SoundAfterSync
  <2>5. /\ \A j \in Clients \ {k} : conn'[j] = conn[j]
        /\ UNCHANGED <<eventLog, agg, view>>
    BY <1>16 DEF Sync, StreamTyped
  <2> QED
    BY <1>11, <2>4, <2>5
<1>17. ASSUME NEW k \in Clients, conn'[k] = Closed, view'[k] = [view[k] EXCEPT !.synced = FALSE],
              eventLog' = eventLog, NEW A
       PROVE  ClientSound(eventLog, conn'[k], view'[k], A)
  <2>1. ~conn'[k].open /\ conn'[k].send = <<>> /\ conn'[k].replay = <<>>
    BY <1>17 DEF Closed
  <2>2. /\ view'[k].loaded <=> view[k].loaded
        /\ view'[k].cursor = view[k].cursor /\ view'[k].known = view[k].known
    BY <1>0, <1>17 DEF ViewTyped
  <2>3. ViewSound(eventLog, conn'[k], view'[k])
    BY <1>0, <2>1, <2>2 DEF ClientSound, ViewSound
  <2> QED
    BY <2>1, <2>3, SoundWhenClosed
<1>18. ASSUME NEW k \in Clients, Disconnect(k)
       PROVE  ClientsSound'
  <2>1. /\ conn'[k] = Closed /\ view'[k] = [view[k] EXCEPT !.synced = FALSE]
        /\ \A j \in Clients \ {k} : conn'[j] = conn[j] /\ view'[j] = view[j]
        /\ UNCHANGED <<eventLog, agg>>
    BY <1>18 DEF Disconnect, StreamTyped
  <2> QED
    BY <1>11, <1>17, <2>1
<1>19. CASE RestartServer
  <2>1. \A k \in Clients : conn'[k] = Closed /\ view'[k] = [view[k] EXCEPT !.synced = FALSE]
    BY <1>19 DEF RestartServer
  <2>2. eventLog' = eventLog
    BY <1>19 DEF RestartServer
  <2>3. ASSUME NEW k \in Clients
        PROVE  ClientSound(eventLog, conn[k], view[k], Coming(k))'
    <3> DEFINE B == Coming(k)'
    <3>1. ClientSound(eventLog, conn'[k], view'[k], B)
      <4> HIDE DEF B
      <4> QED
        BY <1>17, <2>1, <2>2
    <3> QED
      BY <2>2, <3>1
  <2> QED
    BY <2>3 DEF ClientsSound
<1>20. CASE UNCHANGED streamVars
  BY <1>3, <1>20 DEF streamVars
<1> QED
  BY <1>4, <1>5, <1>6, <1>7, <1>8, <1>9, <1>10, <1>12, <1>13, <1>14, <1>15, <1>16, <1>18,
     <1>19, <1>20
  DEF StreamNext, ServerStep, BusMoves

LEMMA StreamInitGood == StreamInit => StreamInv
<1> SUFFICES ASSUME StreamInit
             PROVE  StreamInv
  OBVIOUS
<1>1. BusTyped
  BY BusGood
<1>2. \A k \in Clients : conn[k] = Closed /\ ConnTyped(Closed) /\ ~Closed.open
                         /\ Closed.send = <<>> /\ Closed.replay = <<>>
  BY ClosedTyped DEF StreamInit, Closed
<1>3. \A k \in Clients : view[k].cursor = 0 /\ ~view[k].loaded /\ ~view[k].synced
                         /\ ViewTyped(view[k])
  BY DEF StreamInit, ViewTyped
<1>4. StreamTyped /\ agg.step = "receive"
  BY <1>2, <1>3, EmptySeq DEF StreamInit, StreamTyped, Idle
<1>5. ClosedAreEmpty
  BY <1>2, <1>3 DEF ClosedAreEmpty, ClosedSound
<1>6. (\A c : ~InBus(c)) /\ Len(eventLog) = 0
  BY EmptySeq DEF StreamInit, InBus, Has
<1>7. WrittenFirst /\ PublishedKept
  BY <1>4, <1>6 DEF WrittenFirst, PublishedKept, StreamInit
<1>8. \A k \in Clients : ViewSound(eventLog, conn[k], view[k])
  BY <1>2, <1>3 DEF ViewSound
<1>9. ClientsSound
  BY <1>2, <1>8, SoundWhenClosed DEF ClientsSound
<1> QED
  BY <1>1, <1>4, <1>5, <1>7, <1>9 DEF StreamInv

LEMMA StreamInvStep == StreamInv /\ [StreamNext]_streamVars => StreamInv'
  BY BusTypedStep, StreamTypedStep, WrittenFirstStep, PublishedKeptStep, ClientsSoundStep
  DEF StreamInv

LEMMA StreamInvMeans == StreamInv => ViewIsComplete
<1> SUFFICES ASSUME StreamInv, NEW k \in Clients, conn[k].open, view[k].synced,
                    NEW c \in Changes \ (Deltas \cup Traces), change[c] = "published"
             PROVE  c \in view[k].known \/ OnTheWay(k, c)
  BY DEF ViewIsComplete
<1>1. InBus(c) \/ (agg.step = "insert" /\ agg.event = c) \/ Has(eventLog, c)
  BY DEF StreamInv, PublishedKept
<1>2. CASE InBus(c)
  <2>1. /\ outbox \in Seq(Changes) /\ backlog \in Seq(Changes) /\ Middle \in Seq(Changes)
        /\ Pending = (outbox \o Middle) \o backlog /\ outbox \o Middle \in Seq(Changes)
    BY MiddleTyped, ConcatProperties DEF StreamInv, BusTyped, Pending, Middle
  <2>2. Has(Middle, c) <=> forwarder = "push" /\ flight = c
    BY EmptySeq DEF Has, Middle
  <2>3. Has(Pending, c)
    BY <1>2, <2>1, <2>2, HasConcat DEF InBus
  <2> QED
    BY <2>3 DEF OnTheWay, Has
<1>3. CASE agg.step = "insert" /\ agg.event = c
  BY <1>3 DEF OnTheWay
<1>4. CASE Has(eventLog, c)
  <2>1. ClientSound(eventLog, conn[k], view[k], Coming(k)) /\ eventLog \in Seq(Changes)
    BY DEF StreamInv, ClientsSound, StreamTyped
  <2>2. conn[k].syncing /\ conn[k].replay = <<>>
    BY <2>1 DEF ClientSound, SyncedSound
  <2>3. PICK j \in 1..Len(eventLog) : eventLog[j] = c
    BY <1>4, <2>1, LenProperties DEF Has
  <2>4. c \in Coming(k) \/ Sent(conn[k], view[k], c)
    BY <2>1, <2>2, <2>3 DEF ClientSound, LogReaches
  <2>5. ~Has(conn[k].replay, Item(c))
    BY <2>2, EmptySeq DEF Has
  <2> QED
    BY <2>4, <2>5 DEF Coming, Sent, Has, OnTheWay
<1> QED
  BY <1>1, <1>2, <1>3, <1>4

\* A synchronised client misses no change, however Snapshot, subscription, sync and the
\* forwarding of new events interleave (store/studio.go, server/ws/studio.go, sync.go and
\* hub.go, server/aggregate/aggregator.go).
THEOREM ViewsAreComplete == StreamSpec => []ViewIsComplete
<1>1. StreamInit /\ [][StreamNext]_streamVars => []StreamInv
  BY StreamInitGood, StreamInvStep, PTL
<1> QED
  BY <1>1, StreamInvMeans, PTL DEF StreamSpec

=============================================================================
