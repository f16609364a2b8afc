------------------------------ MODULE InputLink ------------------------------
(***************************************************************************)
(* A client's reliable send state and the host's state machine joined by   *)
(* the two UDP directions between them, for one session.                   *)
(*                                                                         *)
(* A datagram once sent may arrive at any later time, any number of times, *)
(* or never: `network` and `acks` only grow, a loss is a datagram nobody   *)
(* ever delivers.  A send the socket refuses is the same thing.            *)
(***************************************************************************)
EXTENDS ReliableClient, HostState, Sequences

CONSTANTS MaxEvents,    \* bound: reliable events the client sends
          MaxExpiries   \* bound: times the host gives the client up

\* Each event changes the held set at most once.
ASSUME LinkAssumption == /\ MaxEvents \in Nat /\ MaxExpiries \in Nat
                         /\ 0..MaxEvents \subseteq Generations

VARIABLES network,        \* datagrams the client has sent
          acks,           \* acknowledgements the host has sent
          generationAt,   \* history: the generation each event left behind
          expiries        \* history: expiries so far

linkVars == <<network, acks, generationAt, expiries>>
vars == <<clientVars, hostVars, linkVars>>

Init ==
  /\ ClientInit /\ HostInit
  /\ network = {} /\ acks = {}
  /\ generationAt = <<>>
  /\ expiries = 0

(***************************************************************************)
(* The client: the event path, then the pump.                              *)
(***************************************************************************)
SendEvent(m) ==
  /\ nextId < MaxEvents
  /\ SendControl(m) \/ SendWheel(m) \/ SendRelease(m)
  /\ network' = network \cup {m}
  /\ generationAt' = Append(generationAt, clientGeneration')
  /\ UNCHANGED <<hostVars, acks, expiries>>

PumpEvent(p) ==
  /\ \/ Retransmit(p) /\ network' = network \cup {p.message}
     \/ Abandon(p) /\ UNCHANGED network
  /\ UNCHANGED <<hostVars, acks, generationAt, expiries>>

SendSnapshot ==
  /\ network' = network \cup {CurrentSnapshot}
  /\ UNCHANGED <<clientVars, hostVars, acks, generationAt, expiries>>

SendBeat ==
  /\ network' = network \cup {[kind |-> "beat"]}
  /\ UNCHANGED <<clientVars, hostVars, acks, generationAt, expiries>>

ReceiveAck(a) ==
  /\ a \in acks
  /\ TakeAck(a)
  /\ UNCHANGED <<hostVars, linkVars>>

(***************************************************************************)
(* The host: apply a datagram and answer it, or give the client up.        *)
(***************************************************************************)
Deliver(m) ==
  /\ m \in network
  /\ Receive(session, m)
  /\ acks' = IF OwesAck(m) /\ HasTop(dedup') THEN acks \cup {Acknowledgement(dedup')}
             ELSE acks
  /\ UNCHANGED <<clientVars, network, generationAt, expiries>>

GiveUp ==
  /\ expiries < MaxExpiries
  /\ expiries' = expiries + 1
  /\ Expire
  /\ UNCHANGED <<clientVars, network, acks, generationAt>>

Next ==
  \/ \E m \in Reliable : SendEvent(m)
  \/ \E p \in pending : PumpEvent(p)
  \/ SendSnapshot \/ SendBeat
  \/ \E a \in acks : ReceiveAck(a)
  \/ \E m \in network : Deliver(m)
  \/ GiveUp

Spec == Init /\ [][Next]_vars

(***************************************************************************)
(* The pump runs on every turn of the client's loop until nothing is due,  *)
(* so an event that stays outstanding keeps being offered to it; and       *)
(* snapshots are sent for as long as the session lasts, so a link that     *)
(* carries some of them delivers the latest one sooner or later.           *)
(***************************************************************************)
PumpId(id) == \E p \in pending : p.message.id = id /\ PumpEvent(p)

Fairness ==
  /\ \A id \in EventIds : WF_vars(PumpId(id))
  /\ WF_vars(SendSnapshot)
  /\ WF_vars(CurrentSnapshot \in network /\ Deliver(CurrentSnapshot))

FairSpec == Spec /\ Fairness
-----------------------------------------------------------------------------
LinkTypeOK ==
  /\ ClientTypeOK /\ HostTypeOK
  /\ network \in SUBSET Message
  /\ acks \in SUBSET [top : Nat, missing : SUBSET Nat]
  /\ generationAt \in Seq(Nat) /\ Len(generationAt) = nextId
  /\ expiries \in 0..MaxExpiries

\* A generation names one held set: two snapshots of one generation agree,
\* and the client's own held set is the one its current generation names.
\* Without it the host's comparison of generations would compare nothing.
GenerationNamesHeldSet ==
  \A s \in network \cap Snapshot :
    /\ s.generation =< clientGeneration
    /\ s.generation = clientGeneration => s.held = down
    /\ \A t \in network \cap Snapshot : s.generation = t.generation => s.held = t.held

\* The top of an acknowledgement is an event the client sent and the host has
\* settled, for as long as the acknowledgement is in flight; and what the host
\* would report missing now is something it has not injected.
AcksAreGrounded ==
  /\ \A a \in acks : a.top < nextId /\ Knows(dedup, a.top)
  /\ HasTop(dedup) => \A id \in Missing(dedup) : injections[id] = 0

\* The link keeps the promise of InputPromise through loss, duplication and
\* reordering: retransmissions, acknowledgements and the window are invisible.
Promise == INSTANCE InputPromise WITH
  offered <- network \cap Reliable, published <- network \cap Snapshot,
  injected <- {id \in EventIds : injections[id] > 0}, adopted <- generation

KeepsPromise == Promise!Spec

\* No event stays outstanding for ever: the ladder ends in an acknowledgement
\* or in an abandonment, even if nothing sent ever arrives.
LadderEnds ==
  \A id \in EventIds : id \in Outstanding ~> id \notin Outstanding

\* The client has sent its last event.
Quiet == nextId = MaxEvents

\* Once the release that ends a capture has been applied, the host ends up
\* holding nothing for good, whatever is still in the network: late presses
\* stop at the barrier and the last snapshot outranks every earlier one.
ReleaseSettles ==
  (Quiet /\ barrier = nextId - 1) ~> [](held = {})

\* Once every event has reached the host, in whatever order, one snapshot newer
\* than the last it applied makes it hold what the client holds, for good, if
\* the host falls into no further silence.
FreshSnapshotRepairs ==
  (/\ Quiet /\ expiries = MaxExpiries
   /\ generation < clientGeneration /\ \A id \in 0..(nextId - 1) : Knows(dedup, id))
    ~> [](held = down)
-----------------------------------------------------------------------------
(* What the comments claim and the code does not do. *)

\* "The snapshot is the repair of last resort" (reliable.rs): a client that has
\* let go of everything and gone quiet does not leave a key down for good.
SnapshotIsLastResort == (Quiet /\ down = {}) ~> held = {}

\* "Nothing logically before [the release] may recreate held state, however
\* late it arrives" (state.rs): a snapshot older than the last applied
\* ReleaseAll presses nothing.
NothingBeforeBarrierRecreates ==
  [][(generation' # generation /\ barrier # None /\ generation' < generationAt[barrier + 1])
       => held' \subseteq held]_vars

\* "Events an acknowledgement showed the host had applied" (reliable.rs): an
\* event the client has retired as acknowledged is not new to the host.
AcknowledgedWereApplied == \A id \in acknowledged : Knows(dedup, id)
=============================================================================
