---------------------------- MODULE InputPromise ----------------------------
(***************************************************************************)
(* What the input path promises whatever the network does, with no         *)
(* network, no window and no retransmission in sight: the host acts on an  *)
(* event the client offered at most once and never after a later release;  *)
(* it adopts held sets the client published, always a newer one; and it    *)
(* may let go of everything on its own.                                    *)
(***************************************************************************)
EXTENDS InputProtocol

VARIABLES offered,    \* events the client has made
          published,  \* snapshots the client has made
          injected,   \* ids of the events acted on
          barrier,    \* id of the last release acted on, or -1
          adopted,    \* generation last adopted, or -1
          held        \* what the host holds

vars == <<offered, published, injected, barrier, adopted, held>>

Init ==
  /\ offered = {} /\ published = {} /\ injected = {} /\ held = {}
  /\ barrier = -1 /\ adopted = -1

\* Events are offered one by one, each under an id of its own.
Offer(m) ==
  /\ \A n \in offered : n.id # m.id
  /\ offered' = offered \cup {m}
  /\ UNCHANGED <<published, injected, barrier, adopted, held>>

\* Snapshots are published in order, and a generation names one held set.
Publish(s) ==
  /\ \A t \in published :
       t.generation =< s.generation /\ (t.generation = s.generation => t = s)
  /\ published' = published \cup {s}
  /\ UNCHANGED <<offered, injected, barrier, adopted, held>>

Effect(m) ==
  CASE m.kind = "control" -> IF m.down THEN held \cup {m.control} ELSE held \ {m.control}
    [] m.kind = "release" -> {}
    [] OTHER -> held

Inject(m) ==
  /\ m \in offered
  /\ m.id \notin injected /\ m.id >= barrier
  /\ injected' = injected \cup {m.id}
  /\ held' = Effect(m)
  /\ barrier' = IF m.kind = "release" THEN m.id ELSE barrier
  /\ UNCHANGED <<offered, published, adopted>>

Adopt(s) ==
  /\ s \in published
  /\ s.generation > adopted
  /\ adopted' = s.generation
  /\ held' = s.held
  /\ UNCHANGED <<offered, published, injected, barrier>>

LetGo ==
  /\ held' = {}
  /\ UNCHANGED <<offered, published, injected, barrier, adopted>>

Next ==
  \/ \E m \in Reliable : Offer(m)
  \/ \E s \in Snapshot : Publish(s)
  \/ \E m \in offered : Inject(m)
  \/ \E s \in published : Adopt(s)
  \/ LetGo

Spec == Init /\ [][Next]_vars
=============================================================================
