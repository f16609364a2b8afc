------------------------------ MODULE HostState ------------------------------
(***************************************************************************)
(* The host's model of the client's keyboard and mouse, and the receive    *)
(* loop around it: what each datagram does to what is held, to the         *)
(* deduplication window and to the release barrier, what the operating     *)
(* system is told, and the sweep after a client's silence.                 *)
(*                                                                         *)
(* `told` and `injections` are history: what the emitted actions add up to *)
(* at the operating system, and how often each event id was injected.      *)
(***************************************************************************)
EXTENDS InputProtocol, Dedup

CONSTANT Sessions     \* session identifiers minted by the control plane

VARIABLES session,     \* the one session whose datagrams may reach the OS
          held,        \* controls the host believes are down
          barrier,     \* id of the last applied ReleaseAll, or None
          dedup,       \* the deduplication window
          generation,  \* generation of the last applied snapshot, or None
          live,        \* whether a datagram has arrived since the last expiry
          told,        \* controls the OS has been told are down
          injections   \* [EventIds -> Nat], injections of each id

hostVars == <<session, held, barrier, dedup, generation, live, told, injections>>

\* The session is opened by the control plane before any datagram.
HostInit ==
  /\ session \in Sessions
  /\ held = {} /\ told = {}
  /\ barrier = None /\ generation = None
  /\ dedup = EmptyDedup
  /\ live = FALSE
  /\ injections = [id \in EventIds |-> 0]

Injected(id) == injections' = [injections EXCEPT ![id] = @ + 1]

\* Defects: the barrier is not consulted, or is off by one.
IsSuperseded_Never(id) == FALSE
IsSuperseded_Short(id) == barrier # None /\ id < barrier - 1

\* A reliable id that precedes the last ReleaseAll, and one never seen before.
IsSuperseded(id) == barrier # None /\ id < barrier
IsFresh(id)      == ~IsSuperseded(id) /\ ~Knows(dedup, id)

\* Defect: the belief is cleared and the OS is not told.
Sweep_Silent == held' = {} /\ UNCHANGED told

\* Release everything held and tell the OS so.
Sweep == held' = {} /\ told' = told \ held

(***************************************************************************)
(* One disjunct per outcome of HostState::apply.                           *)
(***************************************************************************)
\* Recorded so that it is acknowledged, never applied.
Supersede(m) ==
  /\ IsSuperseded(m.id)
  /\ dedup' = Mark(dedup, m.id)
  /\ UNCHANGED <<held, barrier, generation, told, injections>>

Duplicate(m) ==
  /\ ~IsSuperseded(m.id) /\ Knows(dedup, m.id)
  /\ UNCHANGED <<held, barrier, dedup, generation, told, injections>>

ApplyControl(m) ==
  /\ m.kind = "control" /\ IsFresh(m.id)
  /\ dedup' = Mark(dedup, m.id)
  /\ held' = IF m.down THEN held \cup {m.control} ELSE held \ {m.control}
  /\ told' = IF m.down THEN told \cup {m.control} ELSE told \ {m.control}
  /\ Injected(m.id)
  /\ UNCHANGED <<barrier, generation>>

ApplyWheel(m) ==
  /\ m.kind = "wheel" /\ IsFresh(m.id)
  /\ dedup' = Mark(dedup, m.id)
  /\ Injected(m.id)
  /\ UNCHANGED <<held, barrier, generation, told>>

ApplyRelease(m) ==
  /\ m.kind = "release" /\ IsFresh(m.id)
  /\ dedup' = Mark(dedup, m.id)
  /\ barrier' = m.id
  /\ Sweep
  /\ Injected(m.id)
  /\ UNCHANGED generation

\* A gamepad attach or detach has its id recorded and is then ignored.
IgnorePad(m) ==
  /\ m.kind = "pad" /\ IsFresh(m.id)
  /\ dedup' = Mark(dedup, m.id)
  /\ UNCHANGED <<held, barrier, generation, told, injections>>

\* Defects: any generation is applied, or only presses are reconciled.
ApplySnapshot_AnyGeneration(m) ==
  /\ m.kind = "snapshot"
  /\ generation' = m.generation
  /\ told' = (told \cup (m.held \ held)) \ (held \ m.held)
  /\ held' = m.held
  /\ UNCHANGED <<barrier, dedup, injections>>

ApplySnapshot_PressOnly(m) ==
  /\ m.kind = "snapshot"
  /\ generation = None \/ m.generation > generation
  /\ generation' = m.generation
  /\ told' = told \cup m.held
  /\ held' = held \cup m.held
  /\ UNCHANGED <<barrier, dedup, injections>>

ApplySnapshot(m) ==
  /\ m.kind = "snapshot"
  /\ generation = None \/ m.generation > generation
  /\ generation' = m.generation
  /\ told' = (told \cup (m.held \ held)) \ (held \ m.held)
  /\ held' = m.held
  /\ UNCHANGED <<barrier, dedup, injections>>

StaleSnapshot(m) ==
  /\ m.kind = "snapshot"
  /\ generation # None /\ m.generation =< generation
  /\ UNCHANGED <<held, barrier, dedup, generation, told, injections>>

NoState(m) ==
  /\ m.kind \in {"beat", "other"}
  /\ UNCHANGED <<held, barrier, dedup, generation, told, injections>>

ApplyEvent(m) ==
  /\ m \in Reliable
  /\ \/ Supersede(m) \/ Duplicate(m)
     \/ ApplyControl(m) \/ ApplyWheel(m) \/ ApplyRelease(m) \/ IgnorePad(m)

Apply(m) == ApplyEvent(m) \/ ApplySnapshot(m) \/ StaleSnapshot(m) \/ NoState(m)

\* Whether the loop answers with an acknowledgement: for a reliable event that
\* was applied, a duplicate or superseded, but not for one that was ignored.
OwesAck(m) == m \in Reliable /\ ~(m.kind = "pad" /\ IsFresh(m.id))

(***************************************************************************)
(* The receive loop.                                                       *)
(***************************************************************************)
\* A datagram of another session is inert, and no evidence of liveness.
Receive(s, m) ==
  /\ UNCHANGED session
  /\ IF s = session THEN Apply(m) /\ live' = TRUE
     ELSE UNCHANGED <<held, barrier, dedup, generation, live, told, injections>>

\* The client has been silent for longer than the host waits.
Expire ==
  /\ live
  /\ live' = FALSE
  /\ Sweep
  /\ UNCHANGED <<session, barrier, dedup, generation, injections>>

\* A new session displaces the old one and starts empty.
BeginSession(s) ==
  /\ s # session
  /\ session' = s
  /\ Sweep
  /\ barrier' = None /\ generation' = None
  /\ dedup' = EmptyDedup
  /\ injections' = [id \in EventIds |-> 0]
  /\ UNCHANGED live

HostNext ==
  \/ \E s \in Sessions, m \in Message : Receive(s, m)
  \/ \E s \in Sessions : BeginSession(s)
  \/ Expire

HostSpec == HostInit /\ [][HostNext]_hostVars
-----------------------------------------------------------------------------
HostTypeOK ==
  /\ session \in Sessions
  /\ held \in SUBSET Controls
  /\ told \in SUBSET Controls
  /\ barrier \in EventIds \cup {None}
  /\ generation \in Generations \cup {None}
  /\ dedup \in DedupType
  /\ live \in BOOLEAN
  /\ injections \in [EventIds -> Nat]

\* What the emitted actions leave held at the OS is what the host believes is
\* held, after any mix of events, snapshots, sweeps and session changes: a
\* control the host forgets without telling the OS is one nothing releases.
OsAgrees == told = held

\* Within a session no event is injected twice, however often it is delivered
\* and however far the window has slid in between.
AtMostOnce == \A id \in EventIds : injections[id] =< 1

\* A step of the session never injects an id below the barrier: an event the
\* ReleaseAll superseded stays out however late it first arrives.
SupersededStaysOut ==
  [][session' = session =>
       \A id \in EventIds : id < barrier => injections'[id] = injections[id]]_hostVars

\* The barrier only rises within a session, so a late copy of an older
\* ReleaseAll cannot lower it and let superseded events back in.
BarrierRises == [][session' = session => barrier' >= barrier]_hostVars

\* The id of every event injected, superseded or ignored stays known for the
\* rest of the session: the window never forgets in the direction that would
\* press a key twice.
NeverForgets ==
  [][session' = session =>
       \A id \in EventIds : Knows(dedup, id) => Knows(dedup', id)]_hostVars
=============================================================================
