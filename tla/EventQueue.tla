----------------------------- MODULE EventQueue -----------------------------
(***************************************************************************)
(* What the event bus promises to one subscriber (internal/event): the     *)
(* events it accepted come out once each, in the order it accepted them.   *)
(* Only an event whose publisher called it droppable may be refused.       *)
(***************************************************************************)
EXTENDS Sequences

CONSTANT Events

VARIABLES pending,    \* accepted, not yet received
          received    \* what the subscriber got

queueVars == <<pending, received>>

QueueInit == pending = <<>> /\ received = <<>>

Put(e) == /\ pending' = Append(pending, e)
          /\ UNCHANGED received

Get == /\ pending # <<>>
       /\ pending' = Tail(pending)
       /\ received' = Append(received, Head(pending))

\* The process ends: what is still pending is lost.
Lose == pending' = <<>> /\ UNCHANGED received

QueueNext == Get \/ Lose \/ \E e \in Events : Put(e)

QueueSpec == QueueInit /\ [][QueueNext]_queueVars
=============================================================================
