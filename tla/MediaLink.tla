------------------------------ MODULE MediaLink ------------------------------
(***************************************************************************)
(* The video stream: the packetizer (crates/transport/src/h264.rs), a      *)
(* network that loses, repeats and reorders, and the depacketizer.         *)
(*                                                                         *)
(* Access units are numbered in the order they are sent and a unit's       *)
(* number stands for its timestamp.  A unit's shape gives the part that    *)
(* each of its packets plays; how bytes become packets is PictureBytes.    *)
(* The stream stays within half a circle of sequence numbers, so a delayed *)
(* packet is never mistaken for a new one, and starts anywhere on it.      *)
(***************************************************************************)
EXTENDS Depacketizer

CONSTANTS Shapes,     \* the shapes a unit may have
          Starts,     \* the sequence numbers a stream may start with
          MaxPackets  \* bound: packets of the stream

Roles == {"whole", "start", "middle", "end"}
Begins == {"whole", "start"}
Ends == {"whole", "end"}

\* The packets of a unit's NAL units: each one by itself, or a start and an
\* end with any number of middles between them.
Fragmented(shape) ==
  /\ shape \in Seq(Roles) /\ shape # <<>>
  /\ shape[1] \in Begins /\ shape[Len(shape)] \in Ends
  /\ \A i \in 1..(Len(shape) - 1) : shape[i] \in Ends <=> shape[i + 1] \in Begins

ASSUME LinkAssumption ==
  /\ \A shape \in Shapes : Fragmented(shape)
  /\ Starts \subseteq 0..(SeqModulus - 1)
  /\ MaxPackets \in Nat /\ 2 * MaxPackets <= SeqModulus

VARIABLES stream,  \* the packets sent
          base     \* the first sequence number

vars == <<stream, base, receiverVars>>

Init ==
  /\ stream = <<>> /\ base \in Starts
  /\ ReceiverInit

NextUnit == IF stream = <<>> THEN 1 ELSE stream[Len(stream)].unit + 1

\* Packetizer::packetize: one timestamp, consecutive numbers, and the marker
\* on the last packet of the last NAL unit only.
Packets(shape) ==
  [i \in DOMAIN shape |->
     [unit |-> NextUnit, at |-> Len(stream) + i,
      seq |-> (base + Len(stream) + i - 1) % SeqModulus,
      role |-> shape[i], marker |-> i = Len(shape)]]

SendUnit ==
  \E shape \in Shapes :
    /\ Len(stream) + Len(shape) <= MaxPackets
    /\ stream' = stream \o Packets(shape)
    /\ UNCHANGED <<base, receiverVars>>

\* A packet may arrive late, again, or never.
Deliver == \E i \in DOMAIN stream : Push(stream[i]) /\ UNCHANGED <<stream, base>>

Next == SendUnit \/ Deliver \/ (Resume /\ UNCHANGED <<stream, base>>)

Spec == Init /\ [][Next]_vars

(***************************************************************************)
(* What the stream has passed.                                             *)
(***************************************************************************)
\* The place in the stream where the receiver joined it, and the unit there.
JoinedAt == assembled[1]
JoinedUnit == stream[JoinedAt].unit

\* Numbers passed by the cursor since the join.
Passed == (cursor - (base + JoinedAt - 1)) % SeqModulus

Seen(at) == \E i \in DOMAIN assembled : assembled[i] = at

\* The place is where a unit begins.
UnitBegins(at) == at = 1 \/ stream[at - 1].marker

\* The data is the stream from one place to another.
IsRun(data, from, to) ==
  /\ Len(data) = to + 1 - from
  /\ \A i \in DOMAIN data : data[i] = from + i - 1

\* The unit has more packets before the place than the ceiling allows.
TooBig(unit, before) ==
  \E from \in DOMAIN stream :
    stream[from].unit = unit /\ before - from > MaxPieces

(***************************************************************************)
(* Properties.                                                             *)
(***************************************************************************)
\* The receiver holds no more than its bounds allow whatever arrives: a ring
\* of Window packets, READY_CAPACITY units less the one just handed over, and
\* one unit under its ceiling (reassembly.rs, "Memory is a constant").
Places == 1..MaxPackets
Units == [unit : Nat, data : Seq(Places)]
Assemblers ==
  [state : {"idle", "active", "discarding"}, unit : Nat, damaged : BOOLEAN,
   pending : BOOLEAN, open : Nat, skipping : BOOLEAN, buffer : Seq(Places),
   ready : Seq(Units), dropped : Nat, crowded : Nat, oversized : Nat]

InRing(e) == e = None \/ \E i \in DOMAIN stream : e = stream[i]

ReceiverTypeOK ==
  /\ joined \in BOOLEAN /\ gap \in BOOLEAN /\ stopped \in BOOLEAN
  /\ cursor \in 0..(SeqModulus - 1) /\ lost \in Nat /\ left \in 0..(Window + 1)
  /\ progress \in {"rest", "sweep", "drain"}
  /\ DOMAIN reorder = 0..(Window - 1)
  /\ \A i \in 0..(Window - 1) : InRing(reorder[i]) /\ (reorder[i] # None => Slot(reorder[i].seq) = i)
  /\ IF progress = "sweep" THEN \E i \in DOMAIN stream : target = stream[i] ELSE target = None
  /\ asm \in Assemblers
  /\ Len(asm.buffer) <= MaxPieces /\ asm.open \in 0..Len(asm.buffer)
  /\ Len(asm.ready) <= ReadyCapacity /\ (progress = "rest" => Len(asm.ready) < ReadyCapacity)
  /\ handed \in Seq(Units) /\ assembled \in Seq(Places)

\* A unit handed on is a run of whole NAL units up to the unit's last packet:
\* never half a NAL unit, never a hole between two, never a missing end.
IsTail(unit) ==
  \E to \in DOMAIN stream : \E from \in 1..to :
    /\ IsRun(unit.data, from, to)
    /\ stream[from].role \in Begins /\ stream[to].marker
    /\ \A k \in from..to : stream[k].unit = unit.unit

\* And units are handed on in the order sent and none twice, also across the
\* wrap.
HandsOnTails ==
  /\ \A i \in DOMAIN handed : IsTail(handed[i])
  /\ \A i, j \in DOMAIN handed : i < j => handed[i].unit < handed[j].unit

\* A hole inside one unit, or between two, keeps the unit it touches from the
\* decoder: what is handed on without its beginning is a unit in which the
\* stream was joined, or one whose hole began before it, where the assembler
\* was still busy with its predecessor (or had just given up on its size).
HoleWasBefore(unit, from) ==
  \A first \in DOMAIN stream :
    (stream[first].unit = unit /\ UnitBegins(first)) =>
      \/ from = first
      \/ unit = JoinedUnit
      \/ ~Seen(first - 1)
      \/ TooBig(unit - 1, first)

ConfinedHolesAreDropped ==
  \A i \in DOMAIN handed : HoleWasBefore(handed[i].unit, handed[i].data[1])

\* What waits in the ring waits for a hole: everything buffered is ahead of
\* the cursor and within the window (reassembly.rs:310), as long as the ready
\* queue has never filled up in the middle of a drain.
RingIsAhead ==
  (progress = "rest" /\ ~stopped) =>
    \A i \in DOMAIN reorder :
      reorder[i] # None => Distance(reorder[i].seq, cursor) \in 1..Window

\* What loss, repeats and reordering leave of a stream is sound: the decoder is
\* handed only tails of units, nothing with a hole the assembler could see, and
\* no packet is left waiting for a hole that is not there.
ReceiverSound == HandsOnTails /\ ConfinedHolesAreDropped /\ RingIsAhead

\* The assembler sees every packet at most once and in the order sent, and
\* the loss reported is exactly what it was never shown.
LossCounted ==
  joined =>
    /\ \A i, j \in DOMAIN assembled : i < j => assembled[i] < assembled[j]
    /\ lost = Passed - Len(assembled)

\* Reordering within the window and repeats never cost a unit: one is dropped
\* only after a loss, for its size, for want of room, or because the stream
\* was joined inside it.
DropsHaveACause ==
  (asm.dropped > 0 /\ lost = 0)
    => asm.oversized > 0 \/ asm.crowded > 0 \/ ~UnitBegins(JoinedAt)

\* Late packets, repeats and jumps of the window are not loss: they disturb
\* neither the count a reader takes for the link's loss (stats.rs) nor the
\* units on their way to the decoder.
LossIsExact == LossCounted /\ DropsHaveACause

\* "A damaged access unit is dropped, never handed on" (reassembly.rs:17), of
\* every unit but the one in which the stream was joined.
HolesAreNotHandedOn ==
  \A i \in DOMAIN handed :
    \/ handed[i].unit = JoinedUnit
    \/ UnitBegins(handed[i].data[1])
==============================================================================
