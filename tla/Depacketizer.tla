---------------------------- MODULE Depacketizer -----------------------------
(***************************************************************************)
(* Datagrams back into access units (crates/transport/src/reassembly.rs):  *)
(* a ring of datagrams that came early, a cursor on the next number to be  *)
(* taken in order, and an assembler that collects one access unit.         *)
(*                                                                         *)
(* A packet tells its place in the stream (at), the wire's view of it      *)
(* (seq), the unit it belongs to (the RTP timestamp), the part it plays    *)
(* (a NAL unit whole, or the start, middle or end of a fragmented one) and *)
(* the marker.  A payload is named by the place of its packet, so "bytes"  *)
(* are counted in payloads.  Foreign and malformed datagrams only bump a   *)
(* counter in accept and are left out, as is the jitter and wait           *)
(* bookkeeping.                                                            *)
(*                                                                         *)
(* A push that moves the cursor takes one step for each turn of the loops  *)
(* of force_forward and drain, and no other push begins before it returns. *)
(***************************************************************************)
EXTENDS Integers, Sequences

CONSTANTS SeqModulus,     \* size of the circle of sequence numbers, 2^16
          Window,         \* reorder window, a power of two
          ReadyCapacity,  \* READY_CAPACITY
          MaxPieces,      \* max_access_unit_bytes
          None            \* an empty slot of the ring

ASSUME DepacketizerAssumption ==
  /\ SeqModulus \in Nat /\ Window \in Nat \ {0} /\ ReadyCapacity \in Nat \ {0}
  /\ MaxPieces \in Nat
  /\ \E half \in 1..SeqModulus : SeqModulus = 2 * half /\ Window < half
  /\ SeqModulus % Window = 0

VARIABLES joined,     \* ssrc is known: the first packet has come
          cursor,     \* the next sequence number to be processed in order
          reorder,    \* Ring: early packets by sequence number
          asm,        \* Assembler, the finished units, and what it counts
          lost,       \* stats.lost
          progress,   \* where a push is: at rest, sweeping forward, draining
          target,     \* the packet force_forward makes way for
          left,       \* turns its sweep has left
          gap,        \* its flag: numbers written off, and not yet marked
          handed,     \* units push has returned
          assembled,  \* history: the places taken by the assembler
          stopped     \* history: a drain has stopped at a full queue

ringVars == <<joined, cursor, reorder, lost>>
sweepVars == <<target, left, gap>>
receiverVars == <<ringVars, sweepVars, asm, progress, handed, assembled, stopped>>

Following(seq) == (seq + 1) % SeqModulus

\* Defect: a plain difference, which calls 0 older than the last number.
Distance_Plain(seq, earlier) == seq - earlier

\* SequenceNumber::distance_from, the signed distance on the circle.
Distance(seq, earlier) ==
  LET ahead == (seq - earlier) % SeqModulus
  IN IF 2 * ahead < SeqModulus THEN ahead ELSE ahead - SeqModulus

(***************************************************************************)
(* The assembler.                                                          *)
(***************************************************************************)
NewAssembler ==
  [state |-> "idle", unit |-> 0, damaged |-> FALSE, pending |-> FALSE,
   open |-> 0, skipping |-> FALSE, buffer |-> <<>>, ready |-> <<>>,
   dropped |-> 0, crowded |-> 0, oversized |-> 0]

Reset(a) ==
  [a EXCEPT !.state = "idle", !.buffer = <<>>, !.open = 0,
            !.skipping = FALSE, !.damaged = FALSE]

\* A gap noticed between units is charged to the unit that starts next.
Start(a, p) ==
  [a EXCEPT !.state = "active", !.unit = p.unit,
            !.damaged = a.pending, !.pending = FALSE, !.open = 0,
            !.skipping = FALSE, !.buffer = <<>>]

\* abandon_nal, where a fragmented NAL unit is still open.
Abandon(a) ==
  IF a.open = 0 THEN a
  ELSE [a EXCEPT !.buffer = SubSeq(@, 1, a.open - 1), !.open = 0,
                 !.damaged = TRUE, !.skipping = TRUE]

\* reserve and the append it allows; the ceiling takes the unit with it.
Store(a, p) ==
  IF Len(a.buffer) < MaxPieces THEN [a EXCEPT !.buffer = Append(@, p.at)]
  ELSE [a EXCEPT !.oversized = @ + 1, !.dropped = @ + 1, !.buffer = <<>>,
                 !.open = 0, !.skipping = FALSE, !.state = "discarding"]

WholeNal(a, p) == Store([Abandon(a) EXCEPT !.skipping = FALSE], p)

FirstFragment(a, p) ==
  LET stored == WholeNal(a, p)
  IN IF stored.state = "discarding" THEN stored
     ELSE [stored EXCEPT !.open = Len(stored.buffer)]

NextFragment(a, p) ==
  IF a.skipping THEN [a EXCEPT !.skipping = p.role # "end"]
  ELSE IF a.open = 0
  THEN [a EXCEPT !.damaged = TRUE, !.skipping = p.role # "end"]
  ELSE LET stored == Store(a, p)
       IN IF p.role = "end" THEN [stored EXCEPT !.open = 0] ELSE stored

Collect(a, p) ==
  CASE p.role = "whole" -> WholeNal(a, p)
    [] p.role = "start" -> FirstFragment(a, p)
    [] OTHER            -> NextFragment(a, p)

\* The marker has come: the unit is handed over, or dropped if it was damaged
\* or if there is no room for it (crowded counts the latter).
Complete(a) ==
  LET closed  == Abandon(a)
      spoiled == closed.damaged \/ closed.buffer = <<>>
      full    == Len(closed.ready) = ReadyCapacity
  IN Reset(IF spoiled \/ full
           THEN [closed EXCEPT !.dropped = @ + 1,
                               !.crowded = IF spoiled THEN @ ELSE @ + 1]
           ELSE [closed EXCEPT
                   !.ready = Append(@, [unit |-> a.unit, data |-> closed.buffer])])

\* The unit the packet belongs to, started if it is not the one in hand.
Opened(a, p) ==
  IF a.state = "idle" THEN Start(a, p)
  ELSE IF p.unit # a.unit
  THEN Start(Reset([a EXCEPT !.dropped = IF a.state = "active" THEN @ + 1 ELSE @]), p)
  ELSE a

Finished(a, p) == IF p.marker /\ a.state = "active" THEN Complete(a) ELSE a

\* Assembler::accept.
Accepted(a, p) ==
  LET opened == Opened(a, p)
  IN IF opened.state = "active" THEN Finished(Collect(opened, p), p)
     ELSE IF p.marker THEN Reset(opened) ELSE opened

\* Defect: a gap spoils a unit only if it breaks a NAL unit in two.
MarkGap_OpenNalOnly(a) ==
  CASE a.state = "active" -> Abandon(a)
    [] a.state = "idle"   -> [a EXCEPT !.pending = TRUE]
    [] OTHER              -> a

MarkGap(a) ==
  CASE a.state = "active" -> [Abandon(a) EXCEPT !.damaged = TRUE]
    [] a.state = "idle"   -> [a EXCEPT !.pending = TRUE]
    [] OTHER              -> a

(***************************************************************************)
(* The ring and the cursor.                                                *)
(***************************************************************************)
ReceiverInit ==
  /\ joined = FALSE /\ cursor = 0 /\ lost = 0
  /\ reorder = [i \in 0..(Window - 1) |-> None]
  /\ asm = NewAssembler
  /\ progress = "rest" /\ target = None /\ left = 0 /\ gap = FALSE
  /\ handed = <<>> /\ assembled = <<>> /\ stopped = FALSE

Slot(seq) == seq % Window

Holds(seq) == reorder[Slot(seq)] # None /\ reorder[Slot(seq)].seq = seq

\* accept of packet p by the assembler as a gap may have left it.
Assemble(a, p) == asm' = Accepted(a, p) /\ assembled' = Append(assembled, p.at)

\* push returns the oldest unit that waits, one to a call.
Return ==
  IF asm.ready = <<>> THEN UNCHANGED <<asm, handed>>
  ELSE /\ handed' = Append(handed, Head(asm.ready))
       /\ asm' = [asm EXCEPT !.ready = Tail(@)]

\* The first packet heard defines the cursor.
From(p) == IF joined THEN cursor ELSE p.seq

Ahead(p) == Distance(p.seq, From(p))

\* The packet the cursor waits for goes to the assembler.
PushNext(p) ==
  /\ Ahead(p) = 0
  /\ joined' = TRUE
  /\ Assemble(asm, p)
  /\ cursor' = Following(p.seq)
  /\ progress' = "drain"
  /\ UNCHANGED <<reorder, lost, sweepVars, handed, stopped>>

\* Behind the cursor: already delivered, or already written off.
PushLate(p) ==
  /\ Ahead(p) < 0
  /\ Return
  /\ UNCHANGED <<ringVars, sweepVars, progress, assembled, stopped>>

\* Ring::store: a slot that is taken refuses the packet.
PushEarly(p) ==
  /\ Ahead(p) \in 1..Window
  /\ reorder' = IF reorder[Slot(p.seq)] = None
                THEN [reorder EXCEPT ![Slot(p.seq)] = p] ELSE reorder
  /\ Return
  /\ UNCHANGED <<joined, cursor, lost, sweepVars, progress, assembled, stopped>>

\* Beyond the window, so the window moves to it: force_forward is called.
PushBeyond(p) ==
  /\ Ahead(p) > Window
  /\ progress' = "sweep" /\ target' = p /\ left' = Window + 1 /\ gap' = FALSE
  /\ UNCHANGED <<ringVars, asm, handed, assembled, stopped>>

Push(p) ==
  /\ progress = "rest"
  /\ PushNext(p) \/ PushLate(p) \/ PushEarly(p) \/ PushBeyond(p)

TakeHeld(a) ==
  /\ Assemble(a, reorder[Slot(cursor)])
  /\ reorder' = [reorder EXCEPT ![Slot(cursor)] = None]
  /\ cursor' = Following(cursor)

Sweeping == progress = "sweep" /\ left > 0 /\ cursor # target.seq

\* A turn of the sweep: what is buffered goes out, with the gap before it.
SweepHeld ==
  /\ Sweeping /\ Holds(cursor)
  /\ TakeHeld(IF gap THEN MarkGap(asm) ELSE asm)
  /\ gap' = FALSE /\ left' = left - 1
  /\ UNCHANGED <<joined, lost, progress, target, handed, stopped>>

\* And what is not is written off.
SweepMissing ==
  /\ Sweeping /\ ~Holds(cursor)
  /\ lost' = lost + 1 /\ gap' = TRUE
  /\ cursor' = Following(cursor) /\ left' = left - 1
  /\ UNCHANGED <<joined, reorder, asm, progress, target, handed, assembled, stopped>>

\* The rest of the jump is loss by definition; then the packet itself is taken.
SweepEnds ==
  LET remaining == (target.seq - cursor) % SeqModulus
  IN /\ progress = "sweep" /\ ~Sweeping
     /\ lost' = lost + remaining
     /\ Assemble(IF gap \/ remaining > 0 THEN MarkGap(asm) ELSE asm, target)
     /\ cursor' = Following(target.seq)
     /\ progress' = "drain" /\ target' = None /\ left' = 0 /\ gap' = FALSE
     /\ UNCHANGED <<joined, reorder, handed, stopped>>

Contiguous == Len(asm.ready) < ReadyCapacity /\ Holds(cursor)

\* A turn of drain: what has become contiguous is handed over.
DrainHeld ==
  /\ progress = "drain" /\ Contiguous
  /\ TakeHeld(asm)
  /\ UNCHANGED <<joined, lost, progress, sweepVars, handed, stopped>>

\* The drain ends at a hole, or at a full queue, and the push returns.
DrainEnds ==
  /\ progress = "drain" /\ ~Contiguous
  /\ progress' = "rest" /\ stopped' = (stopped \/ Holds(cursor))
  /\ Return
  /\ UNCHANGED <<ringVars, sweepVars, assembled>>

Resume == SweepHeld \/ SweepMissing \/ SweepEnds \/ DrainHeld \/ DrainEnds
==============================================================================
