------------------------------- MODULE PcmRing -------------------------------
(***************************************************************************)
(* The bounded PCM ring between one producer and the render callback       *)
(* (macos/audio-render/src/ring.rs): two cursors that are never wrapped,   *)
(* and no lock.                                                            *)
(*                                                                         *)
(* The two sides interleave at every access to what they share: the loads  *)
(* of the two cursors, the copy, and the store that publishes.  The        *)
(* acquire and release orderings make a cursor's value stand for           *)
(* everything the other side did before it, so memory is the usual one.    *)
(* A frame of PCM is the sample position it carries.                       *)
(***************************************************************************)
EXTENDS Integers, Sequences

CONSTANT Capacity   \* capacity_frames

ASSUME RingAssumption == Capacity \in Nat \ {0}

VARIABLES write,    \* frames the producer has published
          read,     \* frames the consumer has taken
          cells,    \* [0..Capacity-1 -> frame]
          fill,     \* the fill in flight: where, what, and whether it is copied
          drain,    \* the drain in flight: where, how many, and what was copied
          refused,  \* overrun_frames: offered and not taken
          silence,  \* underrun_frames: asked for and not there
          heard     \* history: frames handed to the device, in order

ringVars == <<write, read, cells, fill, drain, refused, silence, heard>>

Idle == [phase |-> "idle"]
Cell(n) == n % Capacity

RingInit ==
  /\ write = 0 /\ read = 0
  /\ cells = [c \in 0..(Capacity - 1) |-> 0]
  /\ fill = Idle /\ drain = Idle
  /\ refused = 0 /\ silence = 0
  /\ heard = <<>>

Occupancy == write - read
Least(a, b) == IF a =< b THEN a ELSE b

(***************************************************************************)
(* PcmRing::fill, by the one producer.                                     *)
(***************************************************************************)
\* Defect: one frame more than there is room for.
FillBegin_OneMore(frames) ==
  LET take == Least(Len(frames), Capacity - Occupancy + 1)
  IN  /\ fill = Idle
      /\ refused' = refused + Len(frames) - take
      /\ fill' = IF take = 0 THEN Idle
                 ELSE [phase |-> "copy", at |-> write, frames |-> SubSeq(frames, 1, take)]
      /\ UNCHANGED <<write, read, cells, drain, silence, heard>>

\* Load the two cursors, take what there is room for and count the rest.
FillBegin(frames) ==
  LET take == Least(Len(frames), Capacity - Occupancy)
  IN  /\ fill = Idle
      /\ refused' = refused + Len(frames) - take
      /\ fill' = IF take = 0 THEN Idle
                 ELSE [phase |-> "copy", at |-> write, frames |-> SubSeq(frames, 1, take)]
      /\ UNCHANGED <<write, read, cells, drain, silence, heard>>

\* The cells a fill or a drain of `count` frames from `at` touches: at most two
\* runs, the second from the start of the buffer.
CellsOf(at, count) == {Cell(at + i) : i \in 0..(count - 1)}

FillCopy ==
  /\ fill.phase = "copy"
  /\ cells' = [c \in DOMAIN cells |->
                 IF c \in CellsOf(fill.at, Len(fill.frames))
                   THEN fill.frames[CHOOSE i \in 1..Len(fill.frames) : Cell(fill.at + i - 1) = c]
                   ELSE cells[c]]
  /\ fill' = [fill EXCEPT !.phase = "publish"]
  /\ UNCHANGED <<write, read, drain, refused, silence, heard>>

FillPublish ==
  /\ fill.phase = "publish"
  /\ write' = fill.at + Len(fill.frames)
  /\ fill' = Idle
  /\ UNCHANGED <<read, cells, drain, refused, silence, heard>>

(***************************************************************************)
(* PcmRing::drain, by the render callback.                                 *)
(***************************************************************************)
DrainBegin(frames) ==
  LET take == Least(frames, Occupancy)
  IN  /\ drain = Idle
      /\ silence' = silence + frames - take
      /\ drain' = IF take = 0 THEN Idle ELSE [phase |-> "copy", at |-> read, count |-> take]
      /\ UNCHANGED <<write, read, cells, fill, refused, heard>>

\* Defect: the frames are given back to the producer before they are copied.
DrainCopy_FreedFirst ==
  /\ drain.phase = "copy"
  /\ IF read = drain.at
       THEN read' = drain.at + drain.count /\ UNCHANGED <<drain, heard>>
       ELSE /\ heard' = heard \o [i \in 1..drain.count |-> cells[Cell(drain.at + i - 1)]]
            /\ drain' = [drain EXCEPT !.phase = "publish"]
            /\ UNCHANGED read
  /\ UNCHANGED <<write, cells, fill, refused, silence>>

DrainCopy ==
  /\ drain.phase = "copy"
  /\ heard' = heard \o [i \in 1..drain.count |-> cells[Cell(drain.at + i - 1)]]
  /\ drain' = [drain EXCEPT !.phase = "publish"]
  /\ UNCHANGED <<write, read, cells, fill, refused, silence>>

DrainPublish ==
  /\ drain.phase = "publish"
  /\ read' = drain.at + drain.count
  /\ drain' = Idle
  /\ UNCHANGED <<write, cells, fill, refused, silence, heard>>
-----------------------------------------------------------------------------
\* The two threads never address the same cell: what a fill in flight writes
\* and what a drain in flight reads are disjoint, however their loads and
\* stores interleave.  This is the claim the unsafe blocks of ring.rs rest on.
RegionsAreDisjoint ==
  fill # Idle /\ drain # Idle
    => CellsOf(fill.at, Len(fill.frames)) \cap CellsOf(drain.at, drain.count) = {}

\* What the ring holds, oldest first.
Held == [i \in 1..Occupancy |-> cells[Cell(read + i - 1)]]

\* What has been handed on and not yet given back is not in the queue any more.
Passed == IF drain # Idle /\ drain.phase = "publish" THEN drain.count ELSE 0
Queued == SubSeq(Held, Passed + 1, Len(Held))

\* The ring is a bounded queue: what a fill took goes in at one end at one
\* moment, and the device is handed what has been in longest.
Bounded == INSTANCE BoundedQueue WITH queue <- Queued, out <- heard
=============================================================================
