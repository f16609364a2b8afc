--------------------------- MODULE ReliableClient ---------------------------
(***************************************************************************)
(* The client's reliable send state: the id counter, the events sent and   *)
(* not yet settled, and what a snapshot would say.                         *)
(*                                                                         *)
(* Deadlines are abstracted: any outstanding event may be due whenever the *)
(* pump runs, and a snapshot may be due at any time, which covers every    *)
(* schedule the backoff and the two cadences produce.  The counts of       *)
(* settled events are kept as the sets of ids they count, and the          *)
(* generation as an unbounded number (u32, wrapping, in the code).         *)
(***************************************************************************)
EXTENDS InputProtocol

CONSTANTS AckReach,            \* WINDOW_WIDTH: ids below the top an ack settles
          MaxRetransmissions   \* MAX_RETRANSMISSIONS

ASSUME ClientAssumption == AckReach \in Nat /\ MaxRetransmissions \in Nat

VARIABLES nextId,             \* ids minted so far
          pending,            \* [message, attempts] sent and not settled
          down,               \* controls the client believes are held
          clientGeneration,   \* rises whenever `down` changes
          acknowledged,       \* ids an acknowledgement showed applied
          abandoned           \* ids given up on

clientVars == <<nextId, pending, down, clientGeneration, acknowledged, abandoned>>

Pending == [message : Reliable, attempts : 0..MaxRetransmissions]

ClientInit ==
  /\ nextId = 0
  /\ pending = {} /\ acknowledged = {} /\ abandoned = {}
  /\ down = {} /\ clientGeneration = 0

\* Fold a new held set in; the generation rises only if it differs.
Hold(controls) ==
  /\ down' = controls
  /\ clientGeneration' = IF controls = down THEN clientGeneration ELSE clientGeneration + 1

\* Mint the next id for a message and remember it until it is settled.
Track(m) ==
  /\ m.id = nextId
  /\ nextId' = nextId + 1
  /\ pending' = pending \cup {[message |-> m, attempts |-> 0]}
  /\ UNCHANGED <<acknowledged, abandoned>>

\* A key or a button going down or up.
SendControl(m) ==
  /\ m.kind = "control"
  /\ Hold(IF m.down THEN down \cup {m.control} ELSE down \ {m.control})
  /\ Track(m)

SendWheel(m) ==
  /\ m.kind = "wheel"
  /\ Track(m)
  /\ UNCHANGED <<down, clientGeneration>>

\* Defect: the held set is dropped without a new generation.
SendRelease_NoBump(m) ==
  /\ m.kind = "release"
  /\ down' = {}
  /\ Track(m)
  /\ UNCHANGED clientGeneration

SendRelease(m) ==
  /\ m.kind = "release"
  /\ Hold({})
  /\ Track(m)

\* Defect: the attempts are not counted.
Retransmit_Uncounted(p) ==
  /\ p \in pending
  /\ p.attempts < MaxRetransmissions
  /\ UNCHANGED clientVars

\* An outstanding event whose deadline passed, with attempts left.
Retransmit(p) ==
  /\ p \in pending
  /\ p.attempts < MaxRetransmissions
  /\ pending' = (pending \ {p}) \cup {[p EXCEPT !.attempts = @ + 1]}
  /\ UNCHANGED <<nextId, down, clientGeneration, acknowledged, abandoned>>

\* An outstanding event whose deadline passed with its attempts used.
Abandon(p) ==
  /\ p \in pending
  /\ p.attempts >= MaxRetransmissions
  /\ pending' = pending \ {p}
  /\ abandoned' = abandoned \cup {p.message.id}
  /\ UNCHANGED <<nextId, down, clientGeneration, acknowledged>>

(***************************************************************************)
(* What one acknowledgement says about one outstanding id.                 *)
(***************************************************************************)
OutOfReach(a, id)   == id + AckReach < a.top
ShownApplied(a, id) == id =< a.top /\ ~OutOfReach(a, id) /\ id \notin a.missing

\* Defect: an event carried out of reach is forgotten without being counted.
TakeAck_Forgetful(a) ==
  LET applied == {p \in pending : ShownApplied(a, p.message.id)}
      gone    == {p \in pending : OutOfReach(a, p.message.id)}
  IN  /\ pending' = pending \ (applied \cup gone)
      /\ acknowledged' = acknowledged \cup {p.message.id : p \in applied}
      /\ UNCHANGED <<nextId, down, clientGeneration, abandoned>>

TakeAck(a) ==
  LET applied == {p \in pending : ShownApplied(a, p.message.id)}
      gone    == {p \in pending : OutOfReach(a, p.message.id)}
  IN  /\ pending' = pending \ (applied \cup gone)
      /\ acknowledged' = acknowledged \cup {p.message.id : p \in applied}
      /\ abandoned' = abandoned \cup {p.message.id : p \in gone}
      /\ UNCHANGED <<nextId, down, clientGeneration>>

\* The snapshot the client would send now.
CurrentSnapshot ==
  [kind |-> "snapshot", generation |-> clientGeneration, held |-> down]
-----------------------------------------------------------------------------
ClientTypeOK ==
  /\ nextId \in Nat
  /\ pending \in SUBSET Pending
  /\ down \in SUBSET Controls
  /\ clientGeneration \in Nat
  /\ acknowledged \in SUBSET EventIds
  /\ abandoned \in SUBSET EventIds

Outstanding == {p.message.id : p \in pending}

\* Every reliable event sent is in exactly one of three places: still
\* outstanding (once), acknowledged, or abandoned.  This is the identity the
\* run's report closes its counts on.
EveryEventAccounted ==
  /\ 0..(nextId - 1) = Outstanding \cup acknowledged \cup abandoned
  /\ Outstanding \cap acknowledged = {}
  /\ Outstanding \cap abandoned = {}
  /\ acknowledged \cap abandoned = {}
  /\ \A p, q \in pending : p.message.id = q.message.id => p = q
=============================================================================
