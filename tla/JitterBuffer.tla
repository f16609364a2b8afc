----------------------------- MODULE JitterBuffer -----------------------------
(***************************************************************************)
(* The audio jitter buffer (crates/audio-codec/src/jitter.rs): admission   *)
(* by RTP timestamp, one playout position per pull, concealment of what is *)
(* missing, and the ceiling that skips forward.                            *)
(*                                                                         *)
(* Timestamps are ticks, one per sample, and are taken from a stream that  *)
(* does not cross the 32-bit circle; sequence numbers are on theirs.  A    *)
(* queued frame is its tick.  A payload is never empty and never longer    *)
(* than a slot: the parser refuses both.                                   *)
(***************************************************************************)
EXTENDS Integers, FiniteSets

CONSTANTS FrameSamples,   \* ticks of a frame (240)
          TargetFrames,   \* frames the buffer aims to hold (2)
          CeilingFrames,  \* frames above which it skips forward (6)
          SeqModulus,     \* size of the circle of sequence numbers (2^16)
          SeenWindow      \* SEEN_WINDOW (1024)

\* The slots are two more than the ceiling, so a frame can always be stored
\* and then judged; the window of seen numbers divides the circle.
ASSUME JitterAssumption ==
  /\ FrameSamples \in Nat \ {0} /\ TargetFrames \in Nat \ {0}
  /\ CeilingFrames \in Nat /\ CeilingFrames > TargetFrames
  /\ SeqModulus \in Nat \ {0} /\ SeenWindow \in Nat \ {0}
  /\ SeqModulus % SeenWindow = 0

NotYet == -1   \* Option::None

VARIABLES anchor,   \* the tick that met this machine's clock, or NotYet
          cursor,   \* the tick the next pull serves
          queue,    \* ticks of the frames held
          newest,   \* highest_sequence
          seen,     \* [0..SeenWindow-1 -> sequence number or NotYet]
          counts    \* what the buffer counted

bufferVars == <<anchor, cursor, queue, newest, seen, counts>>

BufferInit ==
  /\ anchor = NotYet /\ cursor = 0
  /\ queue = {}
  /\ newest = NotYet
  /\ seen = [s \in 0..(SeenWindow - 1) |-> NotYet]
  /\ counts = [received |-> 0, late |-> 0, duplicate |-> 0, reordered |-> 0, offGrid |-> 0,
               played |-> 0, concealed |-> 0, underruns |-> 0,
               overruns |-> 0, skipped |-> 0, expected |-> 0, playedSamples |-> 0]

\* SequenceNumber::distance_from: the signed distance on the circle.
SeqDistance(later, earlier) ==
  LET d == (later - earlier) % SeqModulus
  IN  IF 2 * d >= SeqModulus THEN d - SeqModulus ELSE d

Occupied == Cardinality(queue)

(***************************************************************************)
(* The ceiling.                                                            *)
(***************************************************************************)
\* The newest frames of a set, as many as the target.
NewestOf(frames) == {t \in frames : Cardinality({s \in frames : s > t}) < TargetFrames}

\* Defect: the holes passed on the way are not part of the distance.
HoldCeiling_FramesOnly(frames, from) ==
  IF Cardinality(frames) =< CeilingFrames
    THEN [queue |-> frames, cursor |-> from, skipped |-> 0, travelled |-> 0]
    ELSE LET given == frames \ NewestOf(frames)
             last  == CHOOSE t \in given : \A s \in given : s =< t
         IN  [queue |-> NewestOf(frames), cursor |-> last + FrameSamples,
              skipped |-> Cardinality(given), travelled |-> FrameSamples * Cardinality(given)]

\* hold_ceiling and the skip_oldest it repeats: frames are given up oldest
\* first until the target is left, and the position moves past each of them
\* and past every hole on the way.
HoldCeiling(frames, from) ==
  IF Cardinality(frames) =< CeilingFrames
    THEN [queue |-> frames, cursor |-> from, skipped |-> 0, travelled |-> 0]
    ELSE LET given == frames \ NewestOf(frames)
             last  == CHOOSE t \in given : \A s \in given : s =< t
         IN  [queue |-> NewestOf(frames), cursor |-> last + FrameSamples,
              skipped |-> Cardinality(given), travelled |-> last + FrameSamples - from]

(***************************************************************************)
(* JitterBuffer::push, one disjunct per admission.                         *)
(***************************************************************************)
Slot(p) == p.seq % SeenWindow
IsSeen(p) == seen[Slot(p)] = p.seq

\* The first packet that is no duplicate anchors the stream.
AnchorWith(p) == IF anchor = NotYet THEN p.tick ELSE anchor
CursorWith(p) == IF anchor = NotYet THEN p.tick ELSE cursor

OnGrid(p)    == (p.tick - AnchorWith(p)) % FrameSamples = 0
Reordered(p) == newest # NotYet /\ SeqDistance(p.seq, newest) < 0

\* What every arrival that is no duplicate does first.
Arrive(p) ==
  /\ ~IsSeen(p)
  /\ seen' = [seen EXCEPT ![Slot(p)] = p.seq]
  /\ anchor' = AnchorWith(p)

Duplicate(p) ==
  /\ IsSeen(p)
  /\ counts' = [counts EXCEPT !.received = @ + 1, !.duplicate = @ + 1]
  /\ UNCHANGED <<anchor, cursor, queue, newest, seen>>

OffGrid(p) ==
  /\ Arrive(p) /\ ~OnGrid(p)
  /\ counts' = [counts EXCEPT !.received = @ + 1, !.offGrid = @ + 1]
  /\ UNCHANGED <<cursor, queue, newest>>

\* Order is noted for every frame that has a place on the grid, late or not.
NoteOrder(p) == newest' = IF Reordered(p) THEN newest ELSE p.seq
Disorder(p)  == IF Reordered(p) THEN 1 ELSE 0

\* Its moment has gone by: concealed, played or skipped.
Late(p) ==
  /\ Arrive(p) /\ OnGrid(p)
  /\ p.tick < CursorWith(p)
  /\ NoteOrder(p)
  /\ counts' = [counts EXCEPT !.received = @ + 1, !.reordered = @ + Disorder(p), !.late = @ + 1]
  /\ UNCHANGED <<cursor, queue>>

\* Defect: a frame whose moment has gone is queued all the same.
Queue_Late(p) ==
  /\ Arrive(p) /\ OnGrid(p)
  /\ NoteOrder(p)
  /\ LET held == HoldCeiling(queue \cup {p.tick}, CursorWith(p))
     IN  /\ queue' = held.queue /\ cursor' = held.cursor
         /\ counts' = [counts EXCEPT !.received = @ + 1, !.reordered = @ + Disorder(p),
                                     !.overruns = @ + (IF held.skipped > 0 THEN 1 ELSE 0),
                                     !.skipped = @ + held.skipped,
                                     !.expected = @ + held.travelled]

Queue(p) ==
  /\ Arrive(p) /\ OnGrid(p)
  /\ p.tick >= CursorWith(p)
  /\ NoteOrder(p)
  /\ LET held == HoldCeiling(queue \cup {p.tick}, CursorWith(p))
     IN  /\ queue' = held.queue /\ cursor' = held.cursor
         /\ counts' = [counts EXCEPT !.received = @ + 1, !.reordered = @ + Disorder(p),
                                     !.overruns = @ + (IF held.skipped > 0 THEN 1 ELSE 0),
                                     !.skipped = @ + held.skipped,
                                     !.expected = @ + held.travelled]

Push(p) == Duplicate(p) \/ OffGrid(p) \/ Late(p) \/ Queue(p)

(***************************************************************************)
(* JitterBuffer::pull, one disjunct per outcome.                           *)
(***************************************************************************)
\* The position moves one frame on, whatever the pull found.
Travel == cursor' = cursor + FrameSamples

PullFrame ==
  /\ cursor \in queue
  /\ queue' = queue \ {cursor}
  /\ Travel
  /\ counts' = [counts EXCEPT !.played = @ + 1, !.playedSamples = @ + FrameSamples,
                              !.expected = @ + FrameSamples]
  /\ UNCHANGED <<anchor, newest, seen>>

\* Missing, with later frames behind it: a hole to bridge.
PullConceal ==
  /\ cursor \notin queue /\ queue # {}
  /\ Travel
  /\ counts' = [counts EXCEPT !.concealed = @ + 1, !.playedSamples = @ + FrameSamples,
                              !.expected = @ + FrameSamples]
  /\ UNCHANGED <<anchor, queue, newest, seen>>

PullUnderrun ==
  /\ queue = {}
  /\ Travel
  /\ counts' = [counts EXCEPT !.concealed = @ + 1, !.underruns = @ + 1,
                              !.expected = @ + FrameSamples]
  /\ UNCHANGED <<anchor, queue, newest, seen>>

Pull == PullFrame \/ PullConceal \/ PullUnderrun
-----------------------------------------------------------------------------
CountsType ==
  [received : Nat, late : Nat, duplicate : Nat, reordered : Nat, offGrid : Nat, played : Nat,
   concealed : Nat, underruns : Nat, overruns : Nat, skipped : Nat, expected : Nat,
   playedSamples : Nat]

BufferTypeOK ==
  /\ anchor \in Nat \cup {NotYet}
  /\ cursor \in Nat
  /\ queue \in SUBSET Nat /\ IsFiniteSet(queue)
  /\ newest \in 0..(SeqModulus - 1) \cup {NotYet}
  /\ seen \in [0..(SeenWindow - 1) -> 0..(SeqModulus - 1) \cup {NotYet}]
  /\ counts \in CountsType

\* Everything held is still to come, on the grid, and never more than the
\* ceiling: no frame can be left behind the position, where nothing would ever
\* take it, and a slot is always free for one that is admitted.
HeldIsAhead ==
  /\ \A t \in queue : t >= cursor /\ (t - cursor) % FrameSamples = 0
  /\ Occupied =< CeilingFrames

\* The position is as far past the anchor as the samples the buffer says it
\* expected, through every concealment, underrun and skip; and every arrival is
\* accounted for once: turned away, played, given up or still held.
PositionIsAccounted == anchor # NotYet => counts.expected = cursor - anchor
ArrivalsAreAccounted ==
  counts.received = counts.duplicate + counts.offGrid + counts.late
                      + counts.played + counts.skipped + Occupied
TimeIsAccounted == PositionIsAccounted /\ ArrivalsAreAccounted
=============================================================================
