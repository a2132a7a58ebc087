---------------------------- MODULE EventStream ----------------------------
(***************************************************************************)
(* How a change of a stored resource reaches a Studio client: the event    *)
(* bus (internal/event/bus.go), the aggregator that stores and forwards    *)
(* (internal/server/aggregate), the events of a Project                    *)
(* (internal/store/events.go), the hub and its connections                 *)
(* (internal/server/ws), and the client's Snapshot and sync.               *)
(*                                                                         *)
(* A change c is written to the store and then published as event c.  The  *)
(* resources and the log survive a restart of the Server, the rest does    *)
(* not.                                                                    *)
(***************************************************************************)
EXTENDS Naturals, Sequences, SequencesExt

CONSTANTS Changes,      \* changes of resources, each with its event
          Deltas,       \* those whose event the publisher calls droppable
          Traces,       \* those whose event goes to the trace channel
          Clients,
          NoEvent,
          BusBuffer,    \* subscribeBuffer
          SendBuffer,   \* sendBuffer of a connection
          Faults        \* bound: refused inserts, lost connections and restarts

ASSUME StreamConstants == /\ Deltas \subseteq Changes /\ Traces \subseteq Changes
                          /\ NoEvent \notin Changes
                          /\ {BusBuffer, SendBuffer} \subseteq Nat \ {0}
                          /\ Faults \in Nat

VARIABLES change,     \* how far a change is: idle, written, published, lost
          outbox,     \* out: the channel of the subscription
          backlog,    \* queue
          flight,     \* the event the forwarder holds
          forwarder,  \* where run stands
          wake,       \* the wake channel holds a token
          inbox,      \* the history of what the aggregator received
          agg,        \* the aggregator: step, event, targets
          eventLog,   \* store: the sequenced events of the Project
          conn,       \* a connection: open, send buffer, replay under way
          view,       \* a client: known changes, cursor, synced
          faults

busVars == <<outbox, backlog, flight, forwarder, wake>>
streamVars == <<change, busVars, inbox, agg, eventLog, conn, view, faults>>

Closed == [open |-> FALSE, send |-> <<>>, replay |-> <<>>, syncing |-> FALSE]
Idle == [step |-> "receive", event |-> NoEvent, targets |-> {}]
Done(n) == [done |-> TRUE, last |-> n]
Item(e) == [done |-> FALSE, event |-> e]

StreamInit ==
  /\ change = [c \in Changes |-> "idle"]
  /\ outbox = <<>> /\ backlog = <<>> /\ flight = NoEvent
  /\ forwarder = "next" /\ wake = FALSE
  /\ inbox = <<>>
  /\ agg = Idle
  /\ eventLog = <<>>
  /\ conn = [k \in Clients |-> Closed]
  /\ view = [k \in Clients |-> [known |-> {}, cursor |-> 0, loaded |-> FALSE, synced |-> FALSE]]
  /\ faults = 0

Fault == faults < Faults /\ faults' = faults + 1

-----------------------------------------------------------------------------
(* Publishing and the subscription of the aggregator.                      *)

\* The handler or service commits the change and then publishes its event.
Write(c) ==
  /\ change[c] = "idle"
  /\ change' = [change EXCEPT ![c] = "written"]
  /\ UNCHANGED <<busVars, inbox, agg, eventLog, conn, view, faults>>

BypassesForwarder == backlog = <<>> /\ Len(outbox) < BusBuffer

\* The direct way is open only when nothing is queued or in the forwarder's hands.
GoesDirectly == /\ forwarder \notin {"push", "delivered"}
                /\ backlog = <<>>
                /\ Len(outbox) < BusBuffer

\* A droppable event is refused when the backlog is full.
Refused(c) == c \in Deltas /\ Len(backlog) >= BusBuffer

QueuedSilently(c) == /\ backlog' = Append(backlog, c)
                     /\ UNCHANGED <<outbox, wake>>

\* The event joins the backlog, and the forwarder gets a token.
Queued(c) == /\ backlog' = Append(backlog, c)
             /\ wake' = TRUE
             /\ UNCHANGED outbox

\* publish and enqueue.
Publish(c) ==
  /\ change[c] = "written"
  /\ \/ /\ GoesDirectly
        /\ outbox' = Append(outbox, c)
        /\ change' = [change EXCEPT ![c] = "published"]
        /\ UNCHANGED <<backlog, wake>>
     \/ /\ ~GoesDirectly /\ ~Refused(c)
        /\ Queued(c)
        /\ change' = [change EXCEPT ![c] = "published"]
     \/ /\ ~GoesDirectly /\ Refused(c)
        /\ change' = [change EXCEPT ![c] = "lost"]
        /\ UNCHANGED <<outbox, backlog, wake>>
  /\ UNCHANGED <<flight, forwarder, inbox, agg, eventLog, conn, view, faults>>

\* next: the forwarder takes the head of the backlog, or waits.
TakeNext ==
  /\ forwarder = "next"
  /\ IF backlog # <<>>
     THEN /\ flight' = Head(backlog)
          /\ backlog' = Tail(backlog)
          /\ forwarder' = "push"
     ELSE /\ forwarder' = "wait"
          /\ UNCHANGED <<flight, backlog>>
  /\ UNCHANGED <<change, outbox, wake, inbox, agg, eventLog, conn, view, faults>>

Push ==
  /\ forwarder = "push"
  /\ Len(outbox) < BusBuffer
  /\ outbox' = Append(outbox, flight)
  /\ flight' = NoEvent
  /\ forwarder' = "delivered"
  /\ UNCHANGED <<change, backlog, wake, inbox, agg, eventLog, conn, view, faults>>

Delivered ==
  /\ forwarder = "delivered"
  /\ forwarder' = "next"
  /\ UNCHANGED <<change, outbox, backlog, flight, wake, inbox, agg, eventLog, conn, view, faults>>

Awake ==
  /\ forwarder = "wait"
  /\ wake
  /\ wake' = FALSE
  /\ forwarder' = "next"
  /\ UNCHANGED <<change, outbox, backlog, flight, inbox, agg, eventLog, conn, view, faults>>

-----------------------------------------------------------------------------
(* The aggregator: one event at a time, stored before it is forwarded.     *)

Receive ==
  /\ agg.step = "receive"
  /\ outbox # <<>>
  /\ agg' = [agg EXCEPT !.step = "insert", !.event = Head(outbox)]
  /\ inbox' = Append(inbox, Head(outbox))
  /\ outbox' = Tail(outbox)
  /\ UNCHANGED <<change, backlog, flight, forwarder, wake, eventLog, conn, view, faults>>

\* InsertProjectEvent gives the event the next sequence; a trace event has none.
Insert ==
  /\ agg.step = "insert"
  /\ eventLog' = IF agg.event \in Traces THEN eventLog ELSE Append(eventLog, agg.event)
  /\ agg' = [agg EXCEPT !.step = "publish"]
  /\ UNCHANGED <<change, busVars, inbox, conn, view, faults>>

\* An event that cannot be stored is not forwarded either.
InsertFails ==
  /\ agg.step = "insert"
  /\ Fault
  /\ change' = [change EXCEPT ![agg.event] = "lost"]
  /\ agg' = Idle
  /\ UNCHANGED <<busVars, inbox, eventLog, conn, view>>

\* Hub.Publish looks up the connections of the Project under its lock ...
LookUpTargets ==
  /\ agg.step = "publish"
  /\ agg' = [agg EXCEPT !.step = "deliver", !.targets = {k \in Clients : conn[k].open}]
  /\ UNCHANGED <<change, busVars, inbox, eventLog, conn, view, faults>>

\* ... and fills their buffers one by one: it waits for room, except that a
\* trace event is dropped, and gives up on a connection that closed.
Deliver(k) ==
  /\ agg.step = "deliver"
  /\ k \in agg.targets
  /\ \/ /\ conn[k].open /\ Len(conn[k].send) < SendBuffer
        /\ conn' = [conn EXCEPT ![k].send = Append(@, Item(agg.event))]
     \/ /\ ~conn[k].open \/ (agg.event \in Traces /\ Len(conn[k].send) >= SendBuffer)
        /\ UNCHANGED conn
  /\ agg' = [agg EXCEPT !.targets = @ \ {k}]
  /\ UNCHANGED <<change, busVars, inbox, eventLog, view, faults>>

Forwarded ==
  /\ agg.step = "deliver"
  /\ agg.targets = {}
  /\ agg' = Idle
  /\ UNCHANGED <<change, busVars, inbox, eventLog, conn, view, faults>>

-----------------------------------------------------------------------------
(* A client: Snapshot, connection, sync.                                   *)

\* BuildStudioSnapshot reads resources and the last sequence in one transaction.
Snapshot(k) ==
  /\ ~conn[k].open
  /\ ~view[k].loaded
  /\ view' = [view EXCEPT ![k] = [known |-> {c \in Changes : change[c] # "idle"},
                                  cursor |-> Len(eventLog), loaded |-> TRUE, synced |-> FALSE]]
  /\ UNCHANGED <<change, busVars, inbox, agg, eventLog, conn, faults>>

\* ServeHTTP subscribes the connection before anything is read from it.
Connect(k) ==
  /\ view[k].loaded
  /\ ~conn[k].open
  /\ conn' = [conn EXCEPT ![k] = [Closed EXCEPT !.open = TRUE]]
  /\ UNCHANGED <<change, busVars, inbox, agg, eventLog, view, faults>>

ReplayedTooLate(from) == SubSeq(eventLog, from + 2, Len(eventLog))

\* ListProjectEventsAfter.
Replayed(from) == SubSeq(eventLog, from + 1, Len(eventLog))

\* handleProjectSync: the missing events, then sync.done, through the same buffer
\* the hub fills.
Sync(k) ==
  /\ conn[k].open
  /\ ~conn[k].syncing
  /\ ~view[k].synced
  /\ conn' = [conn EXCEPT ![k].syncing = TRUE,
                          ![k].replay = [i \in DOMAIN Replayed(view[k].cursor) |->
                                            Item(Replayed(view[k].cursor)[i])]
                                        \o <<Done(Len(eventLog))>>]
  /\ UNCHANGED <<change, busVars, inbox, agg, eventLog, view, faults>>

Replay(k) ==
  /\ conn[k].open
  /\ conn[k].replay # <<>>
  /\ Len(conn[k].send) < SendBuffer
  /\ conn' = [conn EXCEPT ![k].send = Append(@, Head(conn[k].replay)),
                          ![k].replay = Tail(@)]
  /\ UNCHANGED <<change, busVars, inbox, agg, eventLog, view, faults>>

\* writePump; the client takes sync.done as the position it is complete up to.
WritePump(k) ==
  /\ conn[k].open
  /\ conn[k].send # <<>>
  /\ LET m == Head(conn[k].send) IN
       view' = IF m.done THEN [view EXCEPT ![k].synced = TRUE, ![k].cursor = m.last]
                         ELSE [view EXCEPT ![k].known = @ \cup {m.event}]
  /\ conn' = [conn EXCEPT ![k].send = Tail(@)]
  /\ UNCHANGED <<change, busVars, inbox, agg, eventLog, faults>>

\* A failed write, a missing pong or a closed socket: close and Unsubscribe.
Disconnect(k) ==
  /\ conn[k].open
  /\ Fault
  /\ conn' = [conn EXCEPT ![k] = Closed]
  /\ view' = [view EXCEPT ![k].synced = FALSE]
  /\ UNCHANGED <<change, busVars, inbox, agg, eventLog>>

\* The Server restarts: the log stays, the bus and the connections do not.
RestartServer ==
  /\ Fault
  /\ change' = [c \in Changes |->
                  IF change[c] = "idle" \/ \E i \in DOMAIN eventLog : eventLog[i] = c
                  THEN change[c] ELSE "lost"]
  /\ outbox' = <<>> /\ backlog' = <<>> /\ flight' = NoEvent
  /\ forwarder' = "next" /\ wake' = FALSE
  /\ agg' = Idle
  /\ conn' = [k \in Clients |-> Closed]
  /\ view' = [k \in Clients |-> [view[k] EXCEPT !.synced = FALSE]]
  /\ UNCHANGED <<inbox, eventLog>>

ServerStep ==
  \/ TakeNext \/ Push \/ Delivered \/ Awake
  \/ Receive \/ Insert \/ LookUpTargets \/ Forwarded
  \/ \E k \in Clients : Deliver(k) \/ Replay(k) \/ WritePump(k)

StreamNext ==
  \/ ServerStep
  \/ \E c \in Changes : Write(c) \/ Publish(c)
  \/ \E k \in Clients : Snapshot(k) \/ Connect(k) \/ Sync(k) \/ Disconnect(k)
  \/ InsertFails \/ RestartServer

StreamSpec == StreamInit /\ [][StreamNext]_streamVars

\* The goroutines of the Server run, and writePump writes or times out.
StreamFairness ==
  /\ WF_streamVars(TakeNext) /\ WF_streamVars(Push)
  /\ WF_streamVars(Delivered) /\ WF_streamVars(Awake)
  /\ WF_streamVars(Receive) /\ WF_streamVars(Insert \/ LookUpTargets \/ Forwarded)
  /\ \A k \in Clients : /\ SF_streamVars(Deliver(k)) /\ WF_streamVars(WritePump(k))
                        /\ WF_streamVars(Replay(k))

StreamFairSpec == StreamSpec /\ StreamFairness

-----------------------------------------------------------------------------
(* What makes it correct.                                                  *)

\* What the bus holds for the aggregator, oldest first.
Pending == outbox \o (IF forwarder = "push" THEN <<flight>> ELSE <<>>) \o backlog

Queue == INSTANCE EventQueue
           WITH Events <- Changes, pending <- Pending, received <- inbox

\* The channel, the backlog and the forwarder together are one FIFO queue: an
\* event never overtakes another between the direct way and the backlog of
\* enqueue, and none is lost or doubled.
BusIsFifo == Queue!QueueSpec

OnTheWay(k, c) ==
  \/ \E i \in DOMAIN Pending : Pending[i] = c
  \/ agg.event = c /\ agg.step \in {"insert", "publish"}
  \/ agg.event = c /\ agg.step = "deliver" /\ k \in agg.targets
  \/ \E i \in DOMAIN conn[k].send : conn[k].send[i] = Item(c)

\* A synchronised client misses no change: it was in the Snapshot, has arrived or
\* is on the way, however Snapshot, subscription, sync and the forwarding of new
\* events interleave.  Given up are the events lost before they were stored,
\* deltas and traces.
ViewIsComplete ==
  \A k \in Clients : conn[k].open /\ view[k].synced =>
    \A c \in Changes \ (Deltas \cup Traces) :
      change[c] = "published" => c \in view[k].known \/ OnTheWay(k, c)

\* A published event is stored, or lost in a restart or to a failing insert: a
\* client that is slow to read does not stop the aggregator for good.
EventsAreStored ==
  \A c \in Changes \ Traces :
    change[c] = "published" ~> change[c] = "lost" \/ \E i \in DOMAIN eventLog : eventLog[i] = c
=============================================================================
