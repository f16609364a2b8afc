----------------------------- MODULE BoundedQueue -----------------------------
(***************************************************************************)
(* What the PCM ring promises: a queue of at most Capacity frames.  Frames *)
(* go in together at one end, and the oldest come out at the other.        *)
(***************************************************************************)
EXTENDS Integers, Sequences

CONSTANT Capacity

VARIABLES queue, out

queueVars == <<queue, out>>

QueueInit == queue = <<>> /\ out = <<>>

\* Some frames are added behind what is queued, within the capacity.
Put ==
  /\ Len(queue') =< Capacity
  /\ Len(queue) < Len(queue')
  /\ SubSeq(queue', 1, Len(queue)) = queue
  /\ UNCHANGED out

\* The first of the queued frames are handed out.
Get ==
  \E count \in 1..Len(queue) :
    /\ out' = out \o SubSeq(queue, 1, count)
    /\ queue' = SubSeq(queue, count + 1, Len(queue))

QueueNext == Put \/ Get

QueueSpec == QueueInit /\ [][QueueNext]_queueVars
=============================================================================
