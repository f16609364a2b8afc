--------------------------- MODULE TelemetryProofs ---------------------------
(***************************************************************************)
(* A flush that returns true, and the snapshot of a shutdown, have every   *)
(* mark that was queued before they were asked for, for any number of      *)
(* recorders, marks, frames and slots.                                     *)
(*                                                                         *)
(* Two balances say where every mark and every frame is.  FlushWaits then  *)
(* follows a flush through the two folds it waits for: the drain before    *)
(* the second of them lies wholly after the question.                      *)
(*                                                                         *)
(* The phase loop, which is fed with the telemetry's frames, never judges  *)
(* frames from both sides of a request it can know of, and comes to its    *)
(* aim in five decisions and stays there; for any period, floor, dead      *)
(* zone, settle window and cadence.  BatchesTimely says why nothing older  *)
(* than a request is kept, Converging how near each decision brings the    *)
(* phase.                                                                  *)
(***************************************************************************)
EXTENDS Telemetry, PhaseLoop, FiniteSetTheorems, SequenceTheorems, WellFoundedInduction, TLAPS

\* Every mark queued is counted, pending, drained or still queued.
MarksBalance ==
    made.queued = counters.recorded + pending.events
                  + (IF Draining THEN drained ELSE 0) + Len(marks)

\* Every frame started was counted as ended, is to be, or is in the ring.
FramesBalance ==
    counters.started + pending.started =
        counters.presented + counters.incomplete + Len(completed) + Cardinality(Stuck)

FoldHasIt == counters.recorded >= flush.before
PassHasIt == counters.recorded + pending.events >= flush.before

\* Of the two folds a flush waits for, the drain of the second sees the
\* marks it is about, the second itself folds them.
FlushWaits ==
    flush.at \in {"asking", "saw empty", "flushed"} =>
        /\ folds >= flush.target => FoldHasIt
        /\ folds = flush.target - 1 =>
             /\ collector = "folding" => PassHasIt
             /\ collector = "folded" => FoldHasIt
        /\ flush.at = "flushed" => folds >= flush.target

\* The last pass drains after the last mark a shutdown promises.
StopWaits ==
    /\ running = (flush.at # "stopped")
    /\ collector \in {"last drain", "sweeping", "last fold", "last folded", "ended"} => ~running
    /\ collector \in {"sweeping", "last fold"} => PassHasIt
    /\ collector \in {"last folded", "ended"} => FoldHasIt

\* The last pass leaves nothing in the ring or on its way to the counters.
Emptied ==
    /\ collector \in {"last fold", "last folded", "ended"} => Stuck = {}
    /\ collector \in {"last folded", "ended"} => completed = <<>> /\ pending.started = 0

TelemetryInv ==
    /\ TelemetryTypeOK
    /\ MarksBalance
    /\ FramesBalance
    /\ flush.before =< made.queued
    /\ FlushWaits
    /\ StopWaits
    /\ Emptied

-----------------------------------------------------------------------------
(* The ring. *)

LEMMA SlotKinds ==
  ASSUME NEW slot \in SlotState
  PROVE  /\ slot.is \in {"empty", "collecting", "finalized"}
         /\ slot.is = "collecting" => slot.frame \in Frames /\ slot.stages \in SUBSET Stages
         /\ Retired(slot) \in Seq(Timeline)
         /\ Len(Retired(slot)) = IF slot.is = "collecting" THEN 1 ELSE 0
<1>1. slot = Empty \/ slot \in [is : {"finalized"}, frame : Frames, stages : {{}}]
        \/ slot \in [is : {"collecting"}, frame : Frames, stages : SUBSET Stages]
  BY DEF SlotState
<1>2. /\ slot.is \in {"empty", "collecting", "finalized"}
      /\ slot.is = "collecting" => slot.frame \in Frames /\ slot.stages \in SUBSET Stages
  BY <1>1 DEF Empty, RingSlot
<1>3. CASE slot.is = "collecting"
  <2>1. [frame |-> slot.frame, stages |-> slot.stages] \in Timeline
    BY <1>2, <1>3 DEF Timeline
  <2>2. QED  BY <1>2, <1>3, <2>1 DEF Retired
<1>4. CASE slot.is # "collecting"
  BY <1>2, <1>4, EmptySeq DEF Retired
<1>5. QED  BY <1>2, <1>3, <1>4

LEMMA StuckFinite ==
  ASSUME TelemetryAssumption
  PROVE  IsFiniteSet(Stuck) /\ Cardinality(Stuck) \in Nat
<1>1. IsFiniteSet(SlotIndex)
  BY FS_Interval DEF TelemetryAssumption, SlotIndex
<1>2. Stuck \in SUBSET SlotIndex  BY DEF Stuck
<1>3. IsFiniteSet(Stuck)  BY <1>1, <1>2, FS_Subset
<1>4. QED  BY <1>3, FS_CardinalityType

LEMMA PresentedCounted ==
  ASSUME NEW S, completed \in Seq(S)
  PROVE  Cardinality(Presented) \in 0..Len(completed)
<1>1. Len(completed) \in Nat /\ DOMAIN completed = 1..Len(completed)  BY LenProperties
<1>2. IsFiniteSet(1..Len(completed)) /\ Cardinality(1..Len(completed)) = Len(completed)
  BY <1>1, FS_Interval
<1>3. Presented \in SUBSET (1..Len(completed))  BY <1>1 DEF Presented
<1>4. IsFiniteSet(Presented) /\ Cardinality(Presented) =< Len(completed)
  BY <1>2, <1>3, FS_Subset
<1>5. Cardinality(Presented) \in Nat  BY <1>4, FS_CardinalityType
<1>6. QED  BY <1>1, <1>4, <1>5

\* What one changed slot does to the count of frames in the ring.
LEMMA OneSlot ==
  ASSUME TelemetryAssumption, TelemetryTypeOK, NEW i \in SlotIndex, NEW v \in SlotState,
         slots' = [slots EXCEPT ![i] = v]
  PROVE  /\ slots' \in [SlotIndex -> SlotState]
         /\ Cardinality(Stuck)' = Cardinality(Stuck)
              + (IF v.is = "collecting" THEN 1 ELSE 0)
              - (IF slots[i].is = "collecting" THEN 1 ELSE 0)
<1>1. slots \in [SlotIndex -> SlotState]  BY DEF TelemetryTypeOK
<1>2. IsFiniteSet(Stuck) /\ Cardinality(Stuck) \in Nat  BY StuckFinite
<1>3. i \in Stuck <=> slots[i].is = "collecting"  BY DEF Stuck
<1>4. CASE v.is = "collecting"
  <2>1. Stuck' = Stuck \cup {i}  BY <1>1, <1>4 DEF Stuck
  <2>2. Cardinality(Stuck') = IF i \in Stuck THEN Cardinality(Stuck) ELSE Cardinality(Stuck) + 1
    BY <1>2, <2>1, FS_AddElement
  <2>3. QED  BY <1>1, <1>2, <1>3, <1>4, <2>2
<1>5. CASE v.is # "collecting"
  <2>1. Stuck' = Stuck \ {i}  BY <1>1, <1>5 DEF Stuck
  <2>2. Cardinality(Stuck') = IF i \in Stuck THEN Cardinality(Stuck) - 1 ELSE Cardinality(Stuck)
    BY <1>2, <2>1, FS_RemoveElement
  <2>3. QED  BY <1>1, <1>2, <1>3, <1>5, <2>2
<1>6. QED  BY <1>4, <1>5

-----------------------------------------------------------------------------
(* One lemma per operation. *)

LEMMA TelemetryStarts ==
  ASSUME TelemetryAssumption, TelemetryInit
  PROVE  TelemetryInv
<1> USE DEF TelemetryInit, NothingPending
<1>1. Stuck = {}  BY DEF Stuck, Empty, RingSlot
<1>2. Cardinality(Stuck) = 0  BY <1>1, FS_EmptySet
<1>3. <<>> \in Seq(Event) /\ <<>> \in Seq(Timeline) /\ Len(<<>>) = 0
  BY EmptySeq
<1>4. TelemetryTypeOK  BY <1>3 DEF TelemetryTypeOK, TelemetryAssumption, SlotState
<1>5. MarksBalance /\ FramesBalance
  BY <1>2, <1>3 DEF MarksBalance, FramesBalance, Draining
<1>6. FlushWaits /\ StopWaits /\ Emptied
  BY <1>1 DEF FlushWaits, StopWaits, Emptied
<1>7. QED  BY <1>4, <1>5, <1>6 DEF TelemetryInv

LEMMA RecordKeeps ==
  ASSUME TelemetryAssumption, TelemetryInv, NEW e \in Event, Record(e)
  PROVE  TelemetryInv'
<1> /\ TelemetryTypeOK /\ MarksBalance /\ FramesBalance /\ FlushWaits /\ StopWaits /\ Emptied
    /\ flush.before =< made.queued
  BY DEF TelemetryInv
<1>1. /\ UNCHANGED <<collector, drained, slots, completed, pending, counters, folds,
                     running, flush>>
      /\ Stuck' = Stuck
  BY DEF Record, Stuck
<1>2. marks \in Seq(Event) /\ Len(marks) \in Nat
  BY LenProperties DEF TelemetryTypeOK
<1>3. made \in [queued : Nat, dropped : Nat]  BY DEF TelemetryTypeOK
<1>4. /\ marks' \in Seq(Event) /\ Len(marks') =< QueueCapacity
      /\ made' \in [queued : Nat, dropped : Nat]
      /\ made'.queued >= made.queued
      /\ Len(marks') \in Nat
      /\ made'.queued - Len(marks') = made.queued - Len(marks)
  <2>1. CASE Len(marks) < QueueCapacity
    <3>1. marks' = Append(marks, e) /\ made' = [made EXCEPT !.queued = @ + 1]
      BY <2>1 DEF Record
    <3>2. marks' \in Seq(Event) /\ Len(marks') = Len(marks) + 1
      BY <1>2, <3>1
    <3>3. made' \in [queued : Nat, dropped : Nat] /\ made'.queued = made.queued + 1
      BY <1>3, <3>1
    <3>4. QED  BY <1>2, <1>3, <2>1, <3>2, <3>3 DEF TelemetryAssumption
  <2>2. CASE ~ Len(marks) < QueueCapacity
    <3>1. marks' = marks /\ made' = [made EXCEPT !.dropped = @ + 1]
      BY <2>2 DEF Record
    <3>2. made' \in [queued : Nat, dropped : Nat] /\ made'.queued = made.queued
      BY <1>3, <3>1
    <3>3. Len(marks) =< QueueCapacity  BY DEF TelemetryTypeOK
    <3>4. QED  BY <1>2, <1>3, <3>1, <3>2, <3>3
  <2>3. QED  BY <2>1, <2>2
<1>5. TelemetryTypeOK'
  BY <1>1, <1>4 DEF TelemetryTypeOK
<1>6. MarksBalance'
  <2>1. counters.recorded \in Nat /\ pending.events \in Nat /\ drained \in Nat
    BY DEF TelemetryTypeOK
  <2>2. made.queued \in Nat /\ made'.queued \in Nat  BY <1>3, <1>4
  <2> DEFINE gathered == IF Draining THEN drained ELSE 0
  <2>3. gathered \in Nat /\ gathered' = gathered  BY <1>1, <2>1 DEF Draining
  <2>4. made.queued = counters.recorded + pending.events + gathered + Len(marks)
    BY DEF MarksBalance
  <2> HIDE DEF gathered
  <2>5. made'.queued = counters.recorded + pending.events + gathered + Len(marks')
    BY <1>2, <1>4, <2>1, <2>2, <2>3, <2>4
  <2> USE DEF gathered
  <2>6. QED  BY <1>1, <2>3, <2>5 DEF MarksBalance
<1>7. FramesBalance'  BY <1>1 DEF FramesBalance
<1>8. (flush.before =< made.queued)'
  <2>1. flush.before \in Nat  BY DEF TelemetryTypeOK
  <2>2. QED  BY <1>1, <1>3, <1>4, <2>1
<1>9. FlushWaits' /\ StopWaits' /\ Emptied'
  BY <1>1 DEF FlushWaits, StopWaits, Emptied, FoldHasIt, PassHasIt
<1>10. QED  BY <1>5, <1>6, <1>7, <1>8, <1>9 DEF TelemetryInv

LEMMA LoopKeeps ==
  ASSUME TelemetryAssumption, TelemetryInv, Loop
  PROVE  TelemetryInv'
<1> /\ TelemetryTypeOK /\ MarksBalance /\ FramesBalance /\ FlushWaits /\ StopWaits /\ Emptied
    /\ flush.before =< made.queued
  BY DEF TelemetryInv
<1> USE DEF Loop, collectorOnly
<1>1. Stuck' = Stuck  BY DEF Stuck
<1>2. TelemetryTypeOK'  BY DEF TelemetryTypeOK
<1>3. Len(marks) \in Nat  BY LenProperties DEF TelemetryTypeOK
<1>4. MarksBalance'  BY <1>3 DEF MarksBalance, Draining, TelemetryTypeOK
<1>5. FramesBalance'  BY <1>1 DEF FramesBalance
<1>6. FlushWaits' /\ StopWaits' /\ Emptied'
  BY <1>1 DEF FlushWaits, StopWaits, Emptied, FoldHasIt, PassHasIt
<1>7. QED  BY <1>2, <1>4, <1>5, <1>6 DEF TelemetryInv
LEMMA DrainedKeeps ==
  ASSUME TelemetryAssumption, TelemetryInv, Drained
  PROVE  TelemetryInv'
<1> /\ TelemetryTypeOK /\ MarksBalance /\ FramesBalance /\ FlushWaits /\ StopWaits /\ Emptied
    /\ flush.before =< made.queued
  BY DEF TelemetryInv
<1>1. /\ UNCHANGED <<marks, made, drained, slots, completed, counters, folds, running, flush>>
      /\ Stuck' = Stuck
      /\ marks = <<>> /\ Len(marks) = 0
  BY EmptySeq DEF Drained, collectorOnly, Stuck
<1>2. pending \in [started : Nat, duplicates : Nat, late : Nat, events : Nat] /\ drained \in Nat
  BY DEF TelemetryTypeOK
<1>3. /\ pending' \in [started : Nat, duplicates : Nat, late : Nat, events : Nat]
      /\ pending'.events = pending.events + drained
      /\ pending'.started = pending.started
  BY <1>2 DEF Drained
<1>4. \/ collector = "draining" /\ collector' = "folding"
      \/ collector = "last drain" /\ collector' = "sweeping"
  BY DEF Drained, Draining
<1>5. counters.recorded \in Nat /\ flush.before \in Nat /\ made.queued \in Nat
  BY DEF TelemetryTypeOK
<1>6. TelemetryTypeOK'  BY <1>1, <1>3, <1>4 DEF TelemetryTypeOK
<1>7. made.queued = counters.recorded + pending'.events
  <2>1. made.queued = counters.recorded + pending.events + drained + Len(marks)
    BY <1>4 DEF MarksBalance, Draining
  <2>2. pending.events \in Nat  BY <1>2
  <2>3. pending'.events = pending.events + drained  BY <1>3
  <2>4. QED  BY <1>1, <1>2, <1>5, <2>1, <2>2, <2>3
<1>8. MarksBalance'
  <2>1. ~Draining'  BY <1>4 DEF Draining
  <2>2. pending'.events \in Nat  BY <1>3
  <2>3. made'.queued = counters'.recorded + pending'.events + 0 + Len(marks')
    BY <1>1, <1>5, <1>7, <2>2
  <2>4. QED  BY <2>1, <2>3 DEF MarksBalance
<1>9. FramesBalance'  BY <1>1, <1>3 DEF FramesBalance
<1>10. PassHasIt'  BY <1>1, <1>7 DEF PassHasIt
<1>11. FlushWaits'
  BY <1>1, <1>4, <1>10 DEF FlushWaits, FoldHasIt
<1>12. StopWaits' /\ Emptied'
  BY <1>1, <1>4, <1>10 DEF StopWaits, Emptied, FoldHasIt
<1>13. QED  BY <1>1, <1>6, <1>8, <1>9, <1>11, <1>12 DEF TelemetryInv

LEMMA FoldKeeps ==
  ASSUME TelemetryAssumption, TelemetryInv, Fold
  PROVE  TelemetryInv'
<1> /\ TelemetryTypeOK /\ MarksBalance /\ FramesBalance /\ FlushWaits /\ StopWaits /\ Emptied
    /\ flush.before =< made.queued
  BY DEF TelemetryInv
<1>1. /\ UNCHANGED <<marks, made, drained, slots, folds, running, flush>>
      /\ Stuck' = Stuck /\ pending' = NothingPending /\ completed' = <<>>
  BY DEF Fold, collectorOnly, Stuck
<1>2. completed \in Seq(Timeline) /\ Len(completed) \in Nat
  BY LenProperties DEF TelemetryTypeOK
<1>3. Cardinality(Presented) \in Nat /\ Cardinality(Presented) =< Len(completed)
  BY <1>2, PresentedCounted
<1>4. /\ pending.started \in Nat /\ pending.duplicates \in Nat
      /\ pending.late \in Nat /\ pending.events \in Nat
      /\ counters.recorded \in Nat /\ counters.started \in Nat
      /\ counters.duplicates \in Nat /\ counters.late \in Nat
      /\ counters.presented \in Nat /\ counters.incomplete \in Nat
      /\ flush.before \in Nat /\ made.queued \in Nat
  BY DEF TelemetryTypeOK
<1>5. counters' = [recorded |-> counters.recorded + pending.events,
                   started |-> counters.started + pending.started,
                   duplicates |-> counters.duplicates + pending.duplicates,
                   late |-> counters.late + pending.late,
                   presented |-> counters.presented + Cardinality(Presented),
                   incomplete |-> counters.incomplete + Len(completed) - Cardinality(Presented)]
  BY DEF Fold
<1>6. /\ counters' \in [recorded : Nat, started : Nat, duplicates : Nat, late : Nat,
                        presented : Nat, incomplete : Nat]
      /\ counters'.recorded = counters.recorded + pending.events
      /\ counters'.started = counters.started + pending.started
      /\ counters'.presented + counters'.incomplete =
           counters.presented + counters.incomplete + Len(completed)
  <2> DEFINE shown == Cardinality(Presented)
             length == Len(completed)
  <2>1. shown \in Nat /\ length \in Nat /\ length - shown \in Nat  BY <1>2, <1>3
  <2> HIDE DEF shown, length
  <2>2. counters' = [recorded |-> counters.recorded + pending.events,
                     started |-> counters.started + pending.started,
                     duplicates |-> counters.duplicates + pending.duplicates,
                     late |-> counters.late + pending.late,
                     presented |-> counters.presented + shown,
                     incomplete |-> counters.incomplete + length - shown]
    BY <1>5 DEF shown, length
  <2>3. /\ counters'.presented = counters.presented + shown
        /\ counters'.incomplete = counters.incomplete + length - shown
        /\ counters'.recorded = counters.recorded + pending.events
        /\ counters'.started = counters.started + pending.started
    BY <2>2
  <2>4. counters.incomplete + length - shown \in Nat  BY <1>4, <2>1
  <2>5. counters' \in [recorded : Nat, started : Nat, duplicates : Nat, late : Nat,
                       presented : Nat, incomplete : Nat]
    BY <1>4, <2>1, <2>2, <2>4
  <2>6. counters'.presented + counters'.incomplete =
          counters.presented + counters.incomplete + length
    BY <1>4, <2>1, <2>3
  <2>7. QED  BY <2>3, <2>5, <2>6 DEF length
<1>7. \/ collector = "folding" /\ collector' = "folded"
      \/ collector = "last fold" /\ collector' = "last folded"
  BY DEF Fold
<1>8. pending'.started = 0 /\ pending'.events = 0 /\ Len(completed') = 0
  BY <1>1, EmptySeq DEF NothingPending
<1>9. TelemetryTypeOK'
  <2>1. completed' \in Seq(Timeline)  BY <1>1, EmptySeq
  <2>2. pending' \in [started : Nat, duplicates : Nat, late : Nat, events : Nat]
    BY <1>1 DEF NothingPending
  <2>3. QED  BY <1>1, <1>6, <1>7, <2>1, <2>2 DEF TelemetryTypeOK
<1>10. MarksBalance'
  <2>1. ~Draining /\ ~Draining'  BY <1>7 DEF Draining
  <2>2. made.queued = counters.recorded + pending.events + 0 + Len(marks)
    BY <2>1 DEF MarksBalance
  <2>3. Len(marks) \in Nat  BY LenProperties DEF TelemetryTypeOK
  <2>4. made'.queued = counters'.recorded + pending'.events + 0 + Len(marks')
    BY <1>1, <1>4, <1>6, <1>8, <2>2, <2>3
  <2>5. QED  BY <2>1, <2>4 DEF MarksBalance
<1>11. FramesBalance'
  <2>1. Cardinality(Stuck) \in Nat  BY StuckFinite
  <2>2. QED  BY <1>1, <1>2, <1>4, <1>6, <1>8, <2>1 DEF FramesBalance
<1>12. /\ PassHasIt => FoldHasIt'
       /\ FoldHasIt => FoldHasIt'
  <2>1. flush'.before = flush.before  BY <1>1
  <2>2. counters'.recorded = counters.recorded + pending.events  BY <1>6
  <2>3. /\ counters.recorded \in Nat /\ pending.events \in Nat /\ flush.before \in Nat
    BY <1>4
  <2>4. QED  BY <2>1, <2>2, <2>3 DEF PassHasIt, FoldHasIt
<1>13. FlushWaits'  BY <1>1, <1>7, <1>12 DEF FlushWaits
<1>14. StopWaits' /\ Emptied'
  BY <1>1, <1>7, <1>8, <1>12 DEF StopWaits, Emptied
<1>15. QED  BY <1>1, <1>9, <1>10, <1>11, <1>13, <1>14 DEF TelemetryInv

LEMMA FoldedKeeps ==
  ASSUME TelemetryAssumption, TelemetryInv, Folded
  PROVE  TelemetryInv'
<1> /\ TelemetryTypeOK /\ MarksBalance /\ FramesBalance /\ FlushWaits /\ StopWaits /\ Emptied
    /\ flush.before =< made.queued
  BY DEF TelemetryInv
<1>1. /\ UNCHANGED <<marks, made, drained, slots, completed, pending, counters, running, flush>>
      /\ Stuck' = Stuck /\ folds' = folds + 1
  BY DEF Folded, collectorOnly, Stuck
<1>2. \/ collector = "folded" /\ collector' \in {"idle", "looping"}
      \/ collector = "last folded" /\ collector' = "ended"
  BY DEF Folded
<1>3. folds \in Nat /\ flush.target \in Nat  BY DEF TelemetryTypeOK
<1>4. TelemetryTypeOK'
  <2>1. folds' \in Nat  BY <1>1, <1>3
  <2>2. QED  BY <1>1, <1>2, <2>1 DEF TelemetryTypeOK
<1>5. MarksBalance'  BY <1>1, <1>2 DEF MarksBalance, Draining
<1>6. FramesBalance'  BY <1>1 DEF FramesBalance
<1>7. StopWaits' /\ Emptied'
  BY <1>1, <1>2 DEF StopWaits, Emptied, FoldHasIt, PassHasIt
<1>8. FlushWaits'
  <2>1. SUFFICES ASSUME flush.at \in {"asking", "saw empty", "flushed"} PROVE FlushWaits'
    BY <1>1 DEF FlushWaits
  <2>2. collector = "folded"  BY <1>2, <2>1 DEF StopWaits
  <2>3. folds' >= flush.target => folds >= flush.target \/ folds = flush.target - 1
    BY <1>1, <1>3
  <2>4. folds' >= flush.target => FoldHasIt'
    BY <1>1, <2>1, <2>2, <2>3 DEF FlushWaits, FoldHasIt
  <2>5. folds >= flush.target => folds' >= flush.target  BY <1>1, <1>3
  <2>6. QED  BY <1>1, <1>2, <2>1, <2>2, <2>4, <2>5 DEF FlushWaits
<1>9. QED  BY <1>1, <1>4, <1>5, <1>6, <1>7, <1>8 DEF TelemetryInv

LEMMA WakeKeeps ==
  ASSUME TelemetryAssumption, TelemetryInv, Wake
  PROVE  TelemetryInv'
<1> /\ TelemetryTypeOK /\ MarksBalance /\ FramesBalance /\ FlushWaits /\ StopWaits /\ Emptied
    /\ flush.before =< made.queued
  BY DEF TelemetryInv
<1>1. /\ UNCHANGED <<marks, made, drained, slots, completed, pending, counters, folds, running,
                     flush>>
      /\ Stuck' = Stuck /\ collector = "idle" /\ collector' = "looping"
  BY DEF Wake, collectorOnly, Stuck
<1>2. TelemetryTypeOK'  BY <1>1 DEF TelemetryTypeOK
<1>3. MarksBalance' /\ FramesBalance'
  BY <1>1 DEF MarksBalance, FramesBalance, Draining
<1>4. FlushWaits' /\ StopWaits' /\ Emptied'
  BY <1>1 DEF FlushWaits, StopWaits, Emptied, FoldHasIt, PassHasIt
<1>5. QED  BY <1>1, <1>2, <1>3, <1>4 DEF TelemetryInv

\* What ingesting one mark does, whichever of its three branches is taken:
\* the frame it starts, if any, is in the ring or completed.
LEMMA IngestCounts ==
  ASSUME TelemetryAssumption, TelemetryInv, Ingest
  PROVE  /\ slots' \in [SlotIndex -> SlotState]
         /\ completed' \in Seq(Timeline)
         /\ pending' \in [started : Nat, duplicates : Nat, late : Nat, events : Nat]
         /\ pending'.events = pending.events
         /\ pending'.started - pending.started =
              Len(completed') - Len(completed)
                + Cardinality(Stuck)' - Cardinality(Stuck)
<1> DEFINE e == Head(marks)
           i == e.frame % RingSlots
<1>1. /\ TelemetryTypeOK
      /\ marks \in Seq(Event) /\ marks # <<>>
      /\ slots \in [SlotIndex -> SlotState] /\ completed \in Seq(Timeline)
      /\ pending \in [started : Nat, duplicates : Nat, late : Nat, events : Nat]
  BY DEF TelemetryInv, TelemetryTypeOK, Ingest
<1>2. e \in Event  BY <1>1, HeadTailProperties
<1>3. e.frame \in Frames /\ e.stage \in Stages /\ e.frame \in Nat
  BY <1>2 DEF Event, TelemetryAssumption
<1>4. i \in SlotIndex  BY <1>3 DEF SlotIndex, TelemetryAssumption
<1>5. slots[i] \in SlotState  BY <1>1, <1>4
<1>6. Len(completed) \in Nat /\ Cardinality(Stuck) \in Nat
  BY <1>1, LenProperties, StuckFinite
<1>7. pending.started \in Nat /\ pending.duplicates \in Nat /\ pending.late \in Nat
  BY <1>1
<1>8. Finalized(e.frame) \in SlotState /\ Finalized(e.frame).is = "finalized"
  BY <1>3 DEF SlotState, Finalized, RingSlot
<1>9. ASSUME NEW s \in SUBSET Stages
      PROVE  /\ Collecting(e.frame, s) \in SlotState /\ Collecting(e.frame, s).is = "collecting"
             /\ [frame |-> e.frame, stages |-> s] \in Timeline
  BY <1>3, <1>9 DEF SlotState, Collecting, RingSlot, Timeline
<1>10. ASSUME NEW c \in Seq(Timeline), NEW t \in Timeline
       PROVE  Append(c, t) \in Seq(Timeline) /\ Len(Append(c, t)) = Len(c) + 1
  BY <1>10
<1> HIDE DEF e, i
<1>11. CASE slots[i].is = "collecting" /\ slots[i].frame = e.frame /\ AddMark(i, e)
  <2> DEFINE stages == slots[i].stages \cup {e.stage}
  <2>1. stages \in SUBSET Stages  BY <1>3, <1>5, <1>11, SlotKinds
  <2>2. /\ pending' \in [started : Nat, duplicates : Nat, late : Nat, events : Nat]
        /\ pending'.events = pending.events /\ pending'.started = pending.started
    <3> DEFINE again == IF e.stage \in slots[i].stages THEN 1 ELSE 0
    <3>1. again \in Nat /\ pending' = [pending EXCEPT !.duplicates = @ + again]
      BY <1>11 DEF AddMark
    <3> HIDE DEF again
    <3>2. pending.duplicates + again \in Nat  BY <1>7, <3>1
    <3>3. QED  BY <1>1, <1>7, <3>1, <3>2
  <2>3. CASE e.stage = PresentStage
    <3>1. /\ slots' = [slots EXCEPT ![i] = Finalized(e.frame)]
          /\ completed' = Append(completed, [frame |-> e.frame, stages |-> stages])
      BY <1>11, <2>3 DEF AddMark
    <3>2. slots' \in [SlotIndex -> SlotState] /\ Cardinality(Stuck)' = Cardinality(Stuck) + 0 - 1
      BY <1>1, <1>4, <1>8, <1>11, <3>1, OneSlot
    <3>3. completed' \in Seq(Timeline) /\ Len(completed') = Len(completed) + 1
      BY <1>1, <1>9, <1>10, <2>1, <3>1
    <3>4. QED  BY <1>6, <1>7, <2>2, <3>2, <3>3
  <2>4. CASE e.stage # PresentStage
    <3>1. slots' = [slots EXCEPT ![i] = Collecting(e.frame, stages)] /\ completed' = completed
      BY <1>11, <2>4 DEF AddMark
    <3>2. slots' \in [SlotIndex -> SlotState] /\ Cardinality(Stuck)' = Cardinality(Stuck) + 1 - 1
      BY <1>1, <1>4, <1>9, <1>11, <2>1, <3>1, OneSlot
    <3>3. QED  BY <1>1, <1>6, <1>7, <2>2, <3>1, <3>2
  <2>5. QED  BY <2>3, <2>4
<1>12. CASE /\ slots[i] = Finalized(e.frame)
            /\ pending' = [pending EXCEPT !.late = @ + 1]
            /\ UNCHANGED <<slots, completed>>
  <2>1. Stuck' = Stuck  BY <1>12 DEF Stuck
  <2>2. /\ pending' \in [started : Nat, duplicates : Nat, late : Nat, events : Nat]
        /\ pending'.events = pending.events /\ pending'.started = pending.started
    BY <1>1, <1>7, <1>12
  <2>3. QED  BY <1>1, <1>6, <1>7, <1>12, <2>1, <2>2
<1>13. CASE slots[i].frame # e.frame /\ OpenFrame(i, e)
  <2> DEFINE retired == completed \o Retired(slots[i])
             left == IF slots[i].is = "collecting" THEN 1 ELSE 0
  <2>1. Retired(slots[i]) \in Seq(Timeline) /\ Len(Retired(slots[i])) = left
    BY <1>5, SlotKinds
  <2>2. retired \in Seq(Timeline) /\ Len(retired) = Len(completed) + left
    BY <1>1, <2>1, ConcatProperties
  <2>3. left \in {0, 1}  OBVIOUS
  <2>4. /\ pending' \in [started : Nat, duplicates : Nat, late : Nat, events : Nat]
        /\ pending'.events = pending.events /\ pending'.started = pending.started + 1
    <3>1. pending' = [pending EXCEPT !.started = @ + 1]  BY <1>13 DEF OpenFrame
    <3>2. QED  BY <1>1, <1>7, <3>1
  <2>5. {e.stage} \in SUBSET Stages  BY <1>3
  <2>6. CASE e.stage = PresentStage
    <3>1. /\ slots' = [slots EXCEPT ![i] = Finalized(e.frame)]
          /\ completed' = Append(retired, [frame |-> e.frame, stages |-> {e.stage}])
      BY <1>13, <2>6 DEF OpenFrame
    <3>2. slots' \in [SlotIndex -> SlotState] /\ Cardinality(Stuck)' = Cardinality(Stuck) + 0 - left
      BY <1>1, <1>4, <1>8, <3>1, OneSlot
    <3>3. completed' \in Seq(Timeline) /\ Len(completed') = Len(retired) + 1
      BY <1>9, <1>10, <2>2, <2>5, <3>1
    <3> HIDE DEF left, retired
    <3>4. QED  BY <1>6, <1>7, <2>2, <2>3, <2>4, <3>2, <3>3
  <2>7. CASE e.stage # PresentStage
    <3>1. slots' = [slots EXCEPT ![i] = Collecting(e.frame, {e.stage})] /\ completed' = retired
      BY <1>13, <2>7 DEF OpenFrame
    <3>2. slots' \in [SlotIndex -> SlotState] /\ Cardinality(Stuck)' = Cardinality(Stuck) + 1 - left
      BY <1>1, <1>4, <1>9, <2>5, <3>1, OneSlot
    <3>3. completed' \in Seq(Timeline) /\ Len(completed') = Len(retired)  BY <2>2, <3>1
    <3> HIDE DEF left, retired
    <3>4. QED  BY <1>6, <1>7, <2>2, <2>3, <2>4, <3>2, <3>3
  <2>8. QED  BY <2>6, <2>7
<1>14. QED  BY <1>11, <1>12, <1>13 DEF Ingest, e, i

LEMMA IngestKeeps ==
  ASSUME TelemetryAssumption, TelemetryInv, Ingest
  PROVE  TelemetryInv'
<1> /\ TelemetryTypeOK /\ MarksBalance /\ FramesBalance /\ FlushWaits /\ StopWaits /\ Emptied
    /\ flush.before =< made.queued
  BY DEF TelemetryInv
<1>1. /\ UNCHANGED <<made, collector, counters, folds, running, flush>>
      /\ collector \in {"draining", "last drain"} /\ Draining /\ Draining'
  BY DEF Ingest, Draining, collectorOnly
<1>2. marks \in Seq(Event) /\ Len(marks) \in Nat /\ Len(marks) =< QueueCapacity
  BY LenProperties DEF TelemetryTypeOK
<1>3. marks' \in Seq(Event) /\ Len(marks') = Len(marks) - 1 /\ Len(marks') \in Nat
  <2>1. marks # <<>> /\ marks' = Tail(marks)  BY DEF Ingest
  <2>2. QED  BY <1>2, <2>1, HeadTailProperties, LenProperties
<1>4. drained \in Nat /\ drained' = drained + 1
  BY DEF Ingest, TelemetryTypeOK
<1>5. /\ counters.recorded \in Nat /\ counters.started \in Nat /\ counters.presented \in Nat
      /\ counters.incomplete \in Nat /\ made.queued \in Nat
      /\ pending.events \in Nat /\ pending.started \in Nat
  BY DEF TelemetryTypeOK
<1>6. TelemetryTypeOK'
  <2>1. Len(marks') =< QueueCapacity
    <3>1. QueueCapacity \in Nat  BY DEF TelemetryAssumption
    <3>2. QED  BY <1>2, <1>3, <3>1
  <2>2. drained' \in Nat  BY <1>4
  <2>3. QED  BY <1>1, <1>3, <2>1, <2>2, IngestCounts DEF TelemetryTypeOK
<1>7. MarksBalance'
  <2>1. made.queued = counters.recorded + pending.events + drained + Len(marks)
    BY <1>1 DEF MarksBalance
  <2>2. pending'.events = pending.events  BY IngestCounts
  <2>3. drained + Len(marks) = drained' + Len(marks')  BY <1>2, <1>3, <1>4
  <2>4. made.queued = counters.recorded + pending.events + drained' + Len(marks')
    <3> DEFINE seen == counters.recorded + pending.events
               left == Len(marks)
               left2 == Len(marks')
               gathered == drained
               gathered2 == drained'
               all == made.queued
    <3>1. /\ all \in Nat /\ seen \in Nat /\ left \in Nat /\ left2 \in Nat
          /\ gathered \in Nat /\ gathered2 \in Nat
      BY <1>2, <1>3, <1>4, <1>5
    <3>2. all = seen + gathered + left /\ gathered + left = gathered2 + left2
      BY <2>1, <2>3
    <3> HIDE DEF all, seen, gathered, gathered2, left, left2
    <3>3. all = seen + gathered2 + left2  BY <3>1, <3>2
    <3>4. QED  BY <3>3 DEF all, seen, gathered2, left2
  <2>5. made'.queued = counters'.recorded + pending'.events + drained' + Len(marks')
    BY <1>1, <2>2, <2>4
  <2>6. QED  BY <1>1, <2>5 DEF MarksBalance
<1>8. FramesBalance'
  <2>1. /\ Len(completed) \in Nat /\ Cardinality(Stuck) \in Nat
    BY LenProperties, StuckFinite DEF TelemetryTypeOK
  <2>2. completed' \in Seq(Timeline) /\ IsFiniteSet(SlotIndex)
    BY IngestCounts, FS_Interval DEF SlotIndex, TelemetryAssumption
  <2>3. Stuck' \in SUBSET SlotIndex  BY DEF Stuck
  <2>4. Len(completed') \in Nat /\ Cardinality(Stuck') \in Nat
    BY <2>2, <2>3, LenProperties, FS_Subset, FS_CardinalityType
  <2>5. pending'.started \in Nat  BY IngestCounts
  <2>6. pending'.started - pending.started =
          Len(completed') - Len(completed) + Cardinality(Stuck') - Cardinality(Stuck)
    BY IngestCounts
  <2>7. counters.started + pending.started =
          counters.presented + counters.incomplete + Len(completed) + Cardinality(Stuck)
    BY DEF FramesBalance
  <2>8. counters.started + pending'.started =
          counters.presented + counters.incomplete + Len(completed') + Cardinality(Stuck')
    <3> DEFINE begun == counters.started
               ended == counters.presented + counters.incomplete
               p == pending.started
               p2 == pending'.started
               n == Len(completed)
               n2 == Len(completed')
               k == Cardinality(Stuck)
               k2 == Cardinality(Stuck')
    <3>1. /\ begun \in Nat /\ ended \in Nat /\ p \in Nat /\ p2 \in Nat
          /\ n \in Nat /\ n2 \in Nat /\ k \in Nat /\ k2 \in Nat
      BY <1>5, <2>1, <2>4, <2>5
    <3>2. p2 - p = n2 - n + k2 - k /\ begun + p = ended + n + k
      BY <2>6, <2>7
    <3> HIDE DEF begun, ended, p, p2, n, n2, k, k2
    <3>3. begun + p2 = ended + n2 + k2  BY <3>1, <3>2
    <3>4. QED  BY <3>3 DEF begun, ended, p2, n2, k2
  <2>9. QED  BY <1>1, <2>8 DEF FramesBalance
<1>9. (flush.before =< made.queued)'  BY <1>1
<1>10. FlushWaits' /\ StopWaits' /\ Emptied'
  BY <1>1 DEF FlushWaits, StopWaits, Emptied, FoldHasIt, PassHasIt
<1>11. QED  BY <1>6, <1>7, <1>8, <1>9, <1>10 DEF TelemetryInv

LEMMA SweepSlotKeeps ==
  ASSUME TelemetryAssumption, TelemetryInv, NEW i \in Stuck, SweepSlot(i)
  PROVE  TelemetryInv'
<1> /\ TelemetryTypeOK /\ MarksBalance /\ FramesBalance /\ FlushWaits /\ StopWaits /\ Emptied
    /\ flush.before =< made.queued
  BY DEF TelemetryInv
<1>1. /\ UNCHANGED <<marks, made, collector, drained, pending, counters, folds, running, flush>>
      /\ collector = "sweeping"
      /\ completed' = completed \o Retired(slots[i])
      /\ slots' = [slots EXCEPT ![i] = Empty]
  BY DEF SweepSlot, collectorOnly
<1>2. /\ i \in SlotIndex /\ slots[i].is = "collecting" /\ slots[i] \in SlotState
      /\ completed \in Seq(Timeline)
  BY DEF Stuck, TelemetryTypeOK
<1>3. Empty \in SlotState /\ Empty.is = "empty"  BY DEF SlotState, Empty, RingSlot
<1>4. slots' \in [SlotIndex -> SlotState] /\ Cardinality(Stuck)' = Cardinality(Stuck) + 0 - 1
  BY <1>1, <1>2, <1>3, OneSlot
<1>5. Retired(slots[i]) \in Seq(Timeline) /\ Len(Retired(slots[i])) = 1
  BY <1>2, SlotKinds
<1>6. completed' \in Seq(Timeline) /\ Len(completed') = Len(completed) + 1
  <2>1. /\ completed \o Retired(slots[i]) \in Seq(Timeline)
        /\ Len(completed \o Retired(slots[i])) = Len(completed) + Len(Retired(slots[i]))
    BY <1>2, <1>5, ConcatProperties
  <2>2. QED  BY <1>1, <1>5, <2>1
<1>7. TelemetryTypeOK'  BY <1>1, <1>4, <1>6 DEF TelemetryTypeOK
<1>8. MarksBalance'  BY <1>1 DEF MarksBalance, Draining
<1>9. FramesBalance'
  <2> DEFINE begun == counters.started + pending.started
             ended == counters.presented + counters.incomplete
             n == Len(completed)
             n2 == Len(completed')
             k == Cardinality(Stuck)
             k2 == Cardinality(Stuck')
  <2>1. ended \in Nat /\ n \in Nat /\ k \in Nat
    <3>1. counters.presented \in Nat /\ counters.incomplete \in Nat  BY DEF TelemetryTypeOK
    <3>2. QED  BY <1>2, <3>1, LenProperties, StuckFinite
  <2>2. begun = ended + n + k /\ n2 = n + 1 /\ k2 = k - 1
    BY <1>4, <1>6, <2>1 DEF FramesBalance
  <2> HIDE DEF begun, ended, n, n2, k, k2
  <2>3. begun = ended + n2 + k2  BY <2>1, <2>2
  <2>4. QED  BY <1>1, <2>3 DEF begun, ended, n2, k2, FramesBalance
<1>10. FlushWaits' /\ StopWaits' /\ Emptied'
  BY <1>1 DEF FlushWaits, StopWaits, Emptied, FoldHasIt, PassHasIt
<1>11. QED  BY <1>1, <1>7, <1>8, <1>9, <1>10 DEF TelemetryInv

LEMMA SweptKeeps ==
  ASSUME TelemetryAssumption, TelemetryInv, Swept
  PROVE  TelemetryInv'
<1> /\ TelemetryTypeOK /\ MarksBalance /\ FramesBalance /\ FlushWaits /\ StopWaits /\ Emptied
    /\ flush.before =< made.queued
  BY DEF TelemetryInv
<1>1. /\ UNCHANGED <<marks, made, drained, completed, pending, counters, folds, running, flush>>
      /\ collector = "sweeping" /\ collector' = "last fold" /\ Stuck = {}
      /\ slots' = [j \in SlotIndex |-> Empty]
  BY DEF Swept, collectorOnly
<1>2. Empty \in SlotState /\ Empty.is = "empty"  BY DEF SlotState, Empty, RingSlot
<1>3. Stuck' = Stuck  BY <1>1, <1>2 DEF Stuck
<1>4. TelemetryTypeOK'  BY <1>1, <1>2 DEF TelemetryTypeOK
<1>5. MarksBalance' /\ FramesBalance'
  BY <1>1, <1>3 DEF MarksBalance, FramesBalance, Draining
<1>6. FlushWaits' /\ StopWaits' /\ Emptied'
  BY <1>1, <1>3 DEF FlushWaits, StopWaits, Emptied, FoldHasIt, PassHasIt
<1>7. QED  BY <1>1, <1>4, <1>5, <1>6 DEF TelemetryInv

\* The question is asked while a fold or none is under way: the second from
\* now is two away.
LEMMA AskFlushKeeps ==
  ASSUME TelemetryAssumption, TelemetryInv, AskFlush
  PROVE  TelemetryInv'
<1> /\ TelemetryTypeOK /\ MarksBalance /\ FramesBalance /\ FlushWaits /\ StopWaits /\ Emptied
  BY DEF TelemetryInv
<1>1. /\ UNCHANGED <<running, callersOnly>> /\ running
      /\ flush' = [at |-> "asking", target |-> folds + 2, before |-> made.queued]
      /\ Stuck' = Stuck
  BY DEF AskFlush, callersOnly, Stuck
<1>2. folds \in Nat /\ made.queued \in Nat  BY DEF TelemetryTypeOK
<1>3. /\ TelemetryTypeOK'
      /\ MarksBalance' /\ FramesBalance'
  <2>1. flush' \in [at : {"none", "asking", "saw empty", "flushed", "gave up", "stopped"},
                    target : Nat, before : Nat]
    BY <1>1, <1>2
  <2>2. QED
    BY <1>1, <2>1 DEF TelemetryTypeOK, MarksBalance, FramesBalance, Draining, callersOnly
<1>4. ~(folds' >= flush'.target) /\ folds' # flush'.target - 1 /\ flush'.at = "asking"
  BY <1>1, <1>2 DEF callersOnly
<1>5. FlushWaits'  BY <1>4 DEF FlushWaits
<1>6. StopWaits' /\ Emptied'
  BY <1>1, <1>4 DEF StopWaits, Emptied, callersOnly
<1>7. (flush.before =< made.queued)'  BY <1>1, <1>2 DEF callersOnly
<1>8. QED  BY <1>3, <1>5, <1>6, <1>7 DEF TelemetryInv

\* A flush that moves on keeps its target and what it asked about.
LEMMA FlushMovesKeeps ==
  ASSUME TelemetryAssumption, TelemetryInv, SeeEmpty \/ SeeFolds \/ FlushTimesOut
  PROVE  TelemetryInv'
<1> /\ TelemetryTypeOK /\ MarksBalance /\ FramesBalance /\ FlushWaits /\ StopWaits /\ Emptied
    /\ flush.before =< made.queued
  BY DEF TelemetryInv
<1>1. /\ UNCHANGED <<running, callersOnly>> /\ Stuck' = Stuck
      /\ flush.at \in {"asking", "saw empty"}
  BY DEF SeeEmpty, SeeFolds, FlushTimesOut, callersOnly, Stuck
<1>2. /\ flush' \in [at : {"none", "asking", "saw empty", "flushed", "gave up", "stopped"},
                     target : Nat, before : Nat]
      /\ flush'.target = flush.target /\ flush'.before = flush.before
      /\ flush'.at \in {"asking", "saw empty", "flushed", "gave up"}
      /\ flush'.at = "flushed" => folds >= flush.target
  BY DEF SeeEmpty, SeeFolds, FlushTimesOut, TelemetryTypeOK
<1>3. TelemetryTypeOK' /\ MarksBalance' /\ FramesBalance'
  BY <1>1, <1>2 DEF TelemetryTypeOK, MarksBalance, FramesBalance, Draining, callersOnly
<1>4. FlushWaits'
  BY <1>1, <1>2 DEF FlushWaits, FoldHasIt, PassHasIt, callersOnly
<1>5. StopWaits' /\ Emptied'
  BY <1>1, <1>2 DEF StopWaits, Emptied, FoldHasIt, PassHasIt, callersOnly
<1>6. (flush.before =< made.queued)'  BY <1>1, <1>2 DEF callersOnly
<1>7. QED  BY <1>3, <1>4, <1>5, <1>6 DEF TelemetryInv

LEMMA StopKeeps ==
  ASSUME TelemetryAssumption, TelemetryInv, Stop
  PROVE  TelemetryInv'
<1> /\ TelemetryTypeOK /\ MarksBalance /\ FramesBalance /\ FlushWaits /\ StopWaits /\ Emptied
  BY DEF TelemetryInv
<1>1. /\ UNCHANGED callersOnly /\ running /\ running' = FALSE
      /\ flush' = [at |-> "stopped", target |-> 0, before |-> made.queued]
      /\ Stuck' = Stuck
  BY DEF Stop, callersOnly, Stuck
<1>2. made.queued \in Nat  BY DEF TelemetryTypeOK
<1>3. TelemetryTypeOK' /\ MarksBalance' /\ FramesBalance'
  <2>1. flush' \in [at : {"none", "asking", "saw empty", "flushed", "gave up", "stopped"},
                    target : Nat, before : Nat]
    BY <1>1, <1>2
  <2>2. QED
    BY <1>1, <2>1 DEF TelemetryTypeOK, MarksBalance, FramesBalance, Draining, callersOnly
<1>4. FlushWaits'  BY <1>1 DEF FlushWaits
<1>5. StopWaits' /\ Emptied'
  BY <1>1 DEF StopWaits, Emptied, callersOnly
<1>6. (flush.before =< made.queued)'  BY <1>1, <1>2 DEF callersOnly
<1>7. QED  BY <1>3, <1>4, <1>5, <1>6 DEF TelemetryInv

-----------------------------------------------------------------------------
LEMMA TelemetryStep ==
  ASSUME TelemetryAssumption, TelemetryInv, [TelemetryNext]_telemetryVars
  PROVE  TelemetryInv'
<1>1. CASE UNCHANGED telemetryVars
  <2>1. Stuck' = Stuck  BY <1>1 DEF telemetryVars, Stuck
  <2>2. TelemetryTypeOK' /\ MarksBalance' /\ FramesBalance'
    BY <1>1, <2>1 DEF telemetryVars, TelemetryInv, TelemetryTypeOK, MarksBalance,
                      FramesBalance, Draining
  <2>3. FlushWaits' /\ StopWaits' /\ Emptied' /\ (flush.before =< made.queued)'
    BY <1>1, <2>1 DEF telemetryVars, TelemetryInv, FlushWaits, StopWaits, Emptied,
                      FoldHasIt, PassHasIt
  <2>4. QED  BY <2>2, <2>3 DEF TelemetryInv
<1>2. CASE \E e \in Event : Record(e)  BY <1>2, RecordKeeps
<1>3. CASE Loop \/ Ingest \/ Drained  BY <1>3, LoopKeeps, IngestKeeps, DrainedKeeps
<1>4. CASE \E i \in Stuck : SweepSlot(i)  BY <1>4, SweepSlotKeeps
<1>5. CASE Swept \/ Fold \/ Folded \/ Wake
  BY <1>5, SweptKeeps, FoldKeeps, FoldedKeeps, WakeKeeps
<1>6. CASE AskFlush \/ SeeEmpty \/ SeeFolds \/ FlushTimesOut \/ Stop
  BY <1>6, AskFlushKeeps, FlushMovesKeeps, StopKeeps
<1>7. QED  BY <1>1, <1>2, <1>3, <1>4, <1>5, <1>6 DEF TelemetryNext

\* Every mark and every frame is in one place, and a flush under way or a
\* stopped collector is where its promise needs it, in every reachable state.
THEOREM TelemetryInvariance == TelemetrySpec => []TelemetryInv
<1>1. TelemetryInit => TelemetryInv  BY TelemetryStarts, TelemetryAssumption
<1>2. TelemetryInv /\ [TelemetryNext]_telemetryVars => TelemetryInv'
  BY TelemetryStep, TelemetryAssumption
<1>3. QED  BY <1>1, <1>2, PTL DEF TelemetrySpec

\* The telemetry's state stays well typed.
THEOREM TelemetryTypeCorrect == TelemetrySpec => []TelemetryTypeOK
<1>1. TelemetryInv => TelemetryTypeOK  BY DEF TelemetryInv
<1>2. QED  BY <1>1, TelemetryInvariance, PTL

\* What flush and shutdown claim to have seen is in the counters.
THEOREM SnapshotsAlwaysWhole == TelemetrySpec => []SnapshotsAreWhole
<1>1. ASSUME TelemetryInv PROVE SnapshotsAreWhole
  <2>1. flush.at = "flushed" => counters.recorded >= flush.before
    BY <1>1 DEF TelemetryInv, FlushWaits, FoldHasIt
  <2>2. ASSUME collector = "ended"
        PROVE  /\ counters.recorded >= flush.before
               /\ counters.started = counters.presented + counters.incomplete
    <3>1. FoldHasIt  BY <1>1, <2>2 DEF TelemetryInv, StopWaits
    <3>2. Len(completed) = 0 /\ pending.started = 0 /\ Cardinality(Stuck) = 0
      BY <1>1, <2>2, FS_EmptySet, EmptySeq DEF TelemetryInv, Emptied
    <3>3. counters.started \in Nat /\ counters.presented \in Nat /\ counters.incomplete \in Nat
      BY <1>1 DEF TelemetryInv, TelemetryTypeOK
    <3>4. counters.started + 0 = counters.presented + counters.incomplete + 0 + 0
      BY <1>1, <3>2 DEF TelemetryInv, FramesBalance
    <3>5. QED  BY <3>1, <3>3, <3>4 DEF FoldHasIt
  <2>3. QED  BY <2>1, <2>2 DEF SnapshotsAreWhole
<1>2. QED  BY <1>1, TelemetryInvariance, PTL

-----------------------------------------------------------------------------
(* Sums over finite sets, by induction over a set of naturals. *)

\* A set of naturals that is not empty has a least element.
LEMMA LeastNatural ==
  ASSUME NEW T \in SUBSET Nat, T # {}
  PROVE  \E n \in T : \A m \in T : n <= m
<1>1. PICK n \in T : \A m \in T : ~(<<m, n>> \in OpToRel(<, Nat))
  BY NatLessThanWellFounded, WFMin
<1>2. ASSUME NEW m \in T PROVE n <= m
  <2>1. ~(m < n)  BY <1>1 DEF OpToRel
  <2>2. QED  BY <2>1
<1>3. QED  BY <1>2

\* Induction, over the set of the naturals that have a property.
LEMMA SetInduction ==
  ASSUME NEW T \in SUBSET Nat, 0 \in T, \A n \in T : n + 1 \in T
  PROVE  T = Nat
<1>1. SUFFICES ASSUME Nat \ T # {} PROVE FALSE  OBVIOUS
<1>2. PICK x \in Nat \ T : \A y \in Nat \ T : x <= y
  <2>1. Nat \ T \in SUBSET Nat  OBVIOUS
  <2>2. QED  BY <1>1, <2>1, LeastNatural
<1>3. x # 0 /\ x \in Nat /\ x \notin T  BY <1>2
<1>4. x - 1 \in Nat  BY <1>3
<1>5. x - 1 \in T
  <2>1. ~(x <= x - 1)  BY <1>3
  <2>2. QED  BY <1>2, <1>4, <2>1
<1>6. (x - 1) + 1 = x  BY <1>3
<1>7. QED  BY <1>3, <1>5, <1>6

\* The recursion a sum over a set stands for.
First(s) == CHOOSE x \in s : TRUE
Summed(f, S, g) == [s \in SUBSET S |-> IF s = {} THEN 0 ELSE f[First(s)] + g[s \ {First(s)}]]

LEMMA SumIsRecursion ==
  ASSUME NEW f, NEW S
  PROVE  FoldFunctionOnSet(+, 0, f, S) = (CHOOSE g : g = Summed(f, S, g))[S]
BY DEF FoldFunctionOnSet, MapThenFoldSet, Summed, First

\* Removing the element a sum begins with leaves a smaller set.
LEMMA FirstRemoved ==
  ASSUME NEW S, IsFiniteSet(S), NEW s \in SUBSET S, s # {}
  PROVE  /\ First(s) \in s /\ s \ {First(s)} \in SUBSET S
         /\ Cardinality(s) \in Nat \ {0}
         /\ Cardinality(s \ {First(s)}) = Cardinality(s) - 1
<1>1. First(s) \in s  BY DEF First
<1>2. IsFiniteSet(s)  BY FS_Subset
<1>3. Cardinality(s) \in Nat /\ Cardinality(s) # 0  BY <1>2, FS_CardinalityType, FS_EmptySet
<1>4. Cardinality(s \ {First(s)}) = Cardinality(s) - 1  BY <1>1, <1>2, FS_RemoveElement
<1>5. QED  BY <1>1, <1>3, <1>4

LEMMA RecursionExists ==
  ASSUME NEW S, IsFiniteSet(S), NEW f
  PROVE  \E g : g = Summed(f, S, g)
<1> DEFINE Small(n) == {s \in SUBSET S : Cardinality(s) <= n}
           Solves(g, n) == \A s \in Small(n) :
                             g[s] = IF s = {} THEN 0 ELSE f[First(s)] + g[s \ {First(s)}]
           T == {n \in Nat : \E g : Solves(g, n)}
<1>1. \A s \in SUBSET S : Cardinality(s) \in Nat /\ (Cardinality(s) = 0 <=> s = {})
  BY FS_Subset, FS_CardinalityType, FS_EmptySet
<1>2. 0 \in T
  <2>1. Solves([s \in {{}} |-> 0], 0)
    <3>1. Small(0) = {{}}  BY <1>1
    <3>2. QED  BY <3>1
  <2>2. QED  BY <2>1
<1>3. ASSUME NEW n \in T PROVE n + 1 \in T
  <2>1. PICK g : Solves(g, n)  OBVIOUS
  <2> DEFINE h == [s \in SUBSET S |-> IF s \in Small(n) THEN g[s]
                                      ELSE f[First(s)] + g[s \ {First(s)}]]
  <2>2. ASSUME NEW s \in Small(n + 1)
        PROVE  h[s] = IF s = {} THEN 0 ELSE f[First(s)] + h[s \ {First(s)}]
    <3>1. CASE s = {}
      <4>1. Cardinality(s) = 0 /\ 0 <= n  BY <1>1, <3>1
      <4>2. s \in Small(n)  BY <4>1
      <4>3. g[s] = 0  BY <2>1, <3>1, <4>2
      <4>4. h[s] = g[s]  BY <4>2
      <4>5. QED  BY <3>1, <4>3, <4>4
    <3>2. CASE s # {}
      <4>1. s \ {First(s)} \in Small(n)  BY <1>1, <3>2, FirstRemoved
      <4>2. h[s \ {First(s)}] = g[s \ {First(s)}]  BY <4>1
      <4>3. s \in Small(n) => g[s] = f[First(s)] + g[s \ {First(s)}]  BY <2>1, <3>2
      <4>4. QED  BY <3>2, <4>2, <4>3
    <3>3. QED  BY <3>1, <3>2
  <2>3. Solves(h, n + 1)  BY <2>2
  <2> HIDE DEF h, Solves
  <2>4. \E x : Solves(x, n + 1)  BY <2>3
  <2>5. n + 1 \in Nat  OBVIOUS
  <2>6. QED  BY <2>4, <2>5
<1>4. T = Nat  BY <1>2, <1>3, SetInduction
<1>5. PICK g : Solves(g, Cardinality(S))
  <2>1. Cardinality(S) \in T  BY <1>4, FS_CardinalityType
  <2>2. QED  BY <2>1
<1>6. \A s \in SUBSET S : s \in Small(Cardinality(S))  BY FS_Subset
<1>7. Summed(f, S, g) = Summed(f, S, Summed(f, S, g))
  <2> DEFINE h == Summed(f, S, g)
  <2>1. ASSUME NEW s \in SUBSET S PROVE h[s] = g[s]
    BY <1>5, <1>6 DEF Summed
  <2>2. ASSUME NEW s \in SUBSET S
        PROVE  h[s] = IF s = {} THEN 0 ELSE f[First(s)] + h[s \ {First(s)}]
    <3>1. s # {} => h[s \ {First(s)}] = g[s \ {First(s)}]
      <4>1. s # {} => s \ {First(s)} \in SUBSET S  OBVIOUS
      <4>2. QED  BY <2>1, <4>1
    <3>2. QED  BY <3>1 DEF Summed
  <2>3. QED  BY <2>2 DEF Summed
<1>8. QED  BY <1>7

\* A sum of what keeps within V is in V.
LEMMA SumWithin ==
  ASSUME NEW S, IsFiniteSet(S), NEW f, NEW V, 0 \in V,
         \A x \in S, v \in V : f[x] + v \in V
  PROVE  FoldFunctionOnSet(+, 0, f, S) \in V
<1> DEFINE g == CHOOSE h : h = Summed(f, S, h)
           T == {n \in Nat : \A s \in SUBSET S : Cardinality(s) = n => g[s] \in V}
<1>1. g = Summed(f, S, g)  BY RecursionExists
<1>2. FoldFunctionOnSet(+, 0, f, S) = g[S]  BY SumIsRecursion
<1> HIDE DEF g
<1>3. 0 \in T
  <2>1. \A s \in SUBSET S : Cardinality(s) = 0 => s = {}  BY FS_Subset, FS_EmptySet
  <2>2. g[{}] = 0  BY <1>1 DEF Summed
  <2>3. QED  BY <2>1, <2>2
<1>4. ASSUME NEW n \in T PROVE n + 1 \in T
  <2> SUFFICES ASSUME NEW s \in SUBSET S, Cardinality(s) = n + 1 PROVE g[s] \in V  OBVIOUS
  <2>1. s # {}
    <3>1. n + 1 # 0 /\ Cardinality({}) = 0  BY FS_EmptySet
    <3>2. QED  BY <3>1
  <2>2. First(s) \in s /\ s \ {First(s)} \in SUBSET S /\ Cardinality(s \ {First(s)}) = n
    BY <2>1, FirstRemoved
  <2>3. g[s \ {First(s)}] \in V  BY <2>2
  <2>4. g[s] = f[First(s)] + g[s \ {First(s)}]  BY <1>1, <2>1 DEF Summed
  <2>5. QED  BY <2>2, <2>3, <2>4
<1>5. T = Nat  BY <1>3, <1>4, SetInduction
<1>6. Cardinality(S) \in T  BY <1>5, FS_CardinalityType
<1>7. g[S] \in V  BY <1>6
<1>8. QED  BY <1>2, <1>7

-----------------------------------------------------------------------------
(* What the loop computes with, and its types. *)

\* The lesser and the greater of two numbers.
LEMMA MinMaxOfTwo ==
  ASSUME NEW a \in Int, NEW b \in Int
  PROVE  /\ Min({a, b}) = IF a <= b THEN a ELSE b
         /\ Max({a, b}) = IF a >= b THEN a ELSE b
<1>1. \A x \in {a, b} : (\A y \in {a, b} : x <= y) <=> x = (IF a <= b THEN a ELSE b)  OBVIOUS
<1>2. \A x \in {a, b} : (\A y \in {a, b} : x >= y) <=> x = (IF a >= b THEN a ELSE b)  OBVIOUS
<1>3. (IF a <= b THEN a ELSE b) \in {a, b} /\ (IF a >= b THEN a ELSE b) \in {a, b}  OBVIOUS
<1>4. QED  BY <1>1, <1>2, <1>3 DEF Min, Max

\* What is left of a number after nothing below zero is taken.
LEMMA ClampTyped ==
  \A n \in Int : Max({n, 0}) \in Nat /\ Max({n, 0}) >= n /\ (n <= 0 => Max({n, 0}) = 0)
                /\ (n >= 0 => Max({n, 0}) = n)
<1> TAKE n \in Int
<1>0. 0 \in Int  OBVIOUS
<1>1. Max({n, 0}) = IF n >= 0 THEN n ELSE 0  BY <1>0, MinMaxOfTwo, Zenon
<1> DEFINE m == Max({n, 0})
<1> HIDE DEF m
<1>2. m = IF n >= 0 THEN n ELSE 0  BY <1>1 DEF m
<1>3. m \in Nat /\ m >= n /\ (n <= 0 => m = 0) /\ (n >= 0 => m = n)  BY <1>2
<1>4. QED  BY <1>3 DEF m

LEMMA MarginTyped == \A spread \in Nat : MarginFor(spread) \in 0..(Period - 1)
<1> SUFFICES ASSUME NEW spread \in Nat PROVE MarginFor(spread) \in 0..(Period - 1)  OBVIOUS
<1>1. 3 * spread \in Nat /\ MarginFloor \in Nat /\ Period \in Nat /\ Period >= 2  BY PhaseAssumption
<1>2. Period \div 3 \in Nat /\ Period \div 3 < Period  BY <1>1
<1> DEFINE m == Max({3 * spread, MarginFloor})
<1>3. m \in Nat
  <2> DEFINE n == 3 * spread
  <2>1. n \in Int /\ MarginFloor \in Int  BY <1>1
  <2> HIDE DEF n
  <2>2. Max({n, MarginFloor}) = IF n >= MarginFloor THEN n ELSE MarginFloor  BY <2>1, MinMaxOfTwo, Zenon
  <2>3. Max({n, MarginFloor}) \in {n, MarginFloor}  BY <2>2
  <2>4. n \in Nat  BY <1>1 DEF n
  <2>5. QED  BY <1>1, <2>3, <2>4 DEF n
<1> DEFINE q == Period \div 3
<1> HIDE DEF m, q
<1>4. Min({m, q}) = IF m <= q THEN m ELSE q
  <2>1. m \in Int /\ q \in Int  BY <1>2, <1>3 DEF q
  <2>2. QED  BY <2>1, MinMaxOfTwo, Zenon
<1>5. MarginFor(spread) = Min({m, q})  BY DEF MarginFor, m, q
<1>6. Min({m, q}) \in 0..(Period - 1)  BY <1>1, <1>2, <1>3, <1>4 DEF q
<1>7. QED  BY <1>5, <1>6

LEMMA CircleTyped ==
  /\ \A n \in Int : n % Period \in 0..(Period - 1)
  /\ \A p, t \in 0..(Period - 1) : ErrorOf(p, t) \in (-Period)..Period
  /\ \A e \in Int : Half(e) \in Int
  /\ \A n \in Int : DelayFor(n) \in 0..(Period - 1)
<1>1. Period \in Nat /\ Period >= 2  BY PhaseAssumption
<1>2. \A n \in Int : n % Period \in 0..(Period - 1)  BY <1>1
<1>3. ASSUME NEW p \in 0..(Period - 1), NEW t \in 0..(Period - 1) PROVE ErrorOf(p, t) \in (-Period)..Period
  <2>1. Period \div 2 \in Nat /\ Period \div 2 <= Period  BY <1>1
  <2>2. QED  BY <1>1, <2>1 DEF ErrorOf
<1>4. \A e \in Int : Half(e) \in Int  BY DEF Half
<1>5. QED  BY <1>2, <1>3, <1>4 DEF DelayFor

\* Whatever was picked up in a batch, its centre is a phase.
LEMMA CentreTyped ==
  ASSUME NEW b \in Seq(Slice), Sampled(b) # {}
  PROVE  Centre(b) \in 0..(Period - 1) /\ IsFiniteSet(Sampled(b)) /\ Cardinality(Sampled(b)) \in Nat \ {0}
<1> DEFINE seen == Sampled(b)
           first == b[Min(seen)].phase
           f == [i \in seen |-> ErrorOf(b[i].phase, first)]
           sum == FoldFunctionOnSet(+, 0, f, seen)
<1>1. seen \subseteq 1..Len(b) /\ Len(b) \in Nat  BY DEF Sampled
<1>2. IsFiniteSet(seen)
  <2>1. IsFiniteSet(1..Len(b))  BY <1>1, FS_Interval
  <2>2. QED  BY <1>1, <2>1, FS_Subset
<1>3. Cardinality(seen) \in Nat /\ Cardinality(seen) # 0  BY <1>2, FS_CardinalityType, FS_EmptySet
<1>4. Min(seen) \in seen
  <2>1. seen \in SUBSET Nat  BY <1>1
  <2>2. \E n \in seen : \A m \in seen : n <= m  BY <2>1, LeastNatural
  <2>3. QED  BY <2>2 DEF Min
<1>5. \A i \in seen : b[i].phase \in 0..(Period - 1)
  <2>1. ASSUME NEW i \in seen PROVE b[i] \in [phase : 0..(Period - 1), epoch : Nat]
    <3>1. i \in 1..Len(b) /\ b[i] # Frozen  BY <1>1 DEF Sampled
    <3>2. b[i] \in Slice  BY <3>1, ElementOfSeq
    <3>3. QED  BY <3>1, <3>2 DEF Slice
  <2>2. QED  BY <2>1
<1>6. \A i \in seen, v \in Int : f[i] + v \in Int
  <2>1. \A i \in seen : f[i] \in (-Period)..Period  BY <1>4, <1>5, CircleTyped
  <2>2. Period \in Nat  BY PhaseAssumption
  <2>3. QED  BY <2>1, <2>2
<1> HIDE DEF f
<1>7. sum \in Int
  <2>1. 0 \in Int  OBVIOUS
  <2>2. QED  BY <1>2, <1>6, <2>1, SumWithin
<1>8. first \in Int  BY <1>4, <1>5, PhaseAssumption
<1>9. Centre(b) = (first + sum \div Cardinality(seen)) % Period  BY DEF Centre, f
<1> HIDE DEF sum, first, seen
<1>10. sum \div Cardinality(seen) \in Int  BY <1>3, <1>7
<1>11. first + sum \div Cardinality(seen) \in Int  BY <1>8, <1>10
<1>12. QED  BY <1>2, <1>3, <1>9, <1>11, CircleTyped DEF seen

\* What a decision asks for and finds.
LEMMA DecisionTyped ==
  ASSUME NEW b \in Seq(Slice), Cardinality(Sampled(b)) >= MinSamples, NEW spread \in Scatters
  PROVE  /\ Sampled(b) # {}
         /\ ErrorOf(Centre(b), MarginFor(spread)) \in (-Period)..Period
         /\ DelayFor(Half(ErrorOf(Centre(b), MarginFor(spread)))) \in 0..(Period - 1)
<1>1. Sampled(b) # {}
  <2>1. MinSamples \in Nat /\ MinSamples >= 1  BY PhaseAssumption
  <2>2. Cardinality({}) = 0  BY FS_EmptySet
  <2>3. SUFFICES ASSUME Sampled(b) = {} PROVE FALSE  OBVIOUS
  <2>4. Cardinality(Sampled(b)) = 0  BY <2>2, <2>3
  <2>5. QED  BY <2>1, <2>4
<1>2. Centre(b) \in 0..(Period - 1) /\ MarginFor(spread) \in 0..(Period - 1)
  BY <1>1, CentreTyped, MarginTyped, PhaseAssumption
<1>3. ErrorOf(Centre(b), MarginFor(spread)) \in (-Period)..Period  BY <1>2, CircleTyped
<1>4. ErrorOf(Centre(b), MarginFor(spread)) \in Int  BY <1>3, PhaseAssumption
<1>5. QED  BY <1>1, <1>3, <1>4, CircleTyped

-----------------------------------------------------------------------------
LEMMA PhaseTypeInit == PhaseInit => PhaseTypeOK
<1> SUFFICES ASSUME PhaseInit PROVE PhaseTypeOK  OBVIOUS
<1>1. phase \in 0..(Period - 1) /\ 0 \in 0..(Period - 1) /\ HarvestEvery \in Nat
      /\ 0 \in 0..MaxFaults /\ 0 \in 0..Decisions /\ 0 \in (-Period)..Period
  BY PhaseAssumption DEF PhaseInit
<1>2. QED  BY <1>1 DEF PhaseInit, PhaseTypeOK, Asleep

LEMMA AsleepTyped ==
  /\ HarvestEvery \in Nat /\ 0 \in 0..(Period - 1)
  /\ Asleep(HarvestEvery) \in [at : {"asleep", "deciding", "sending"}, left : Nat, delay : 0..(Period - 1)]
BY PhaseAssumption DEF Asleep

LEMMA PassTyped ==
  ASSUME PhaseTypeOK, NEW slice \in Slice, Pass(slice)
  PROVE  /\ taken' \in Seq(Slice) /\ wire' \in Seq([delay : 0..(Period - 1), left : Nat, since : Nat])
         /\ DOMAIN wire' = DOMAIN wire
         /\ \A i \in DOMAIN wire : wire'[i].since = wire[i].since + 1 /\ wire'[i].left = wire[i].left - 1
                                   /\ wire'[i].delay = wire[i].delay
         /\ thread' \in [at : {"asleep", "deciding", "sending"}, left : Nat, delay : 0..(Period - 1)]
<1> DEFINE W == [delay : 0..(Period - 1), left : Nat, since : Nat]
<1>1. wire \in Seq(W) /\ taken \in Seq(Slice)  BY DEF PhaseTypeOK
<1>2. ASSUME NEW i \in DOMAIN wire
      PROVE  wire'[i] \in W /\ wire'[i].since = wire[i].since + 1 /\ wire'[i].left = wire[i].left - 1
             /\ wire'[i].delay = wire[i].delay
  <2>1. wire[i] \in W
    <3>1. i \in 1..Len(wire)  BY <1>1
    <3>2. QED  BY <1>1, <3>1, ElementOfSeq
  <2>2. wire[i].left > 0 /\ wire'[i] = [wire[i] EXCEPT !.left = @ - 1, !.since = @ + 1]  BY DEF Pass
  <2>3. wire[i].left - 1 \in Nat /\ wire[i].since + 1 \in Nat  BY <2>1, <2>2
  <2>4. QED  BY <2>1, <2>2, <2>3
<1>3. DOMAIN wire' = DOMAIN wire /\ wire' \in Seq(W)
  <2>1. DOMAIN wire = 1..Len(wire) /\ Len(wire) \in Nat  BY <1>1
  <2>2. wire' = [i \in DOMAIN wire |-> [wire[i] EXCEPT !.left = @ - 1, !.since = @ + 1]]  BY DEF Pass
  <2>3. DOMAIN wire' = DOMAIN wire /\ wire' = [i \in DOMAIN wire |-> wire'[i]]  BY <2>2
  <2>4. wire' \in [1..Len(wire) -> W]  BY <1>2, <2>1, <2>3
  <2>5. wire' \in Seq(W)
    <3> HIDE DEF W
    <3>1. Len(wire) \in Nat /\ wire' \in [1..Len(wire) -> W]  BY <2>1, <2>4
    <3>2. QED  BY <3>1, SeqDef
  <2>6. QED  BY <2>3, <2>5
<1>4. taken' \in Seq(Slice)
  <2>1. taken' = Append(taken, slice)  BY DEF Pass
  <2>2. QED  BY <1>1, <2>1, AppendProperties
<1>5. thread' \in [at : {"asleep", "deciding", "sending"}, left : Nat, delay : 0..(Period - 1)]
  <2>1. thread \in [at : {"asleep", "deciding", "sending"}, left : Nat, delay : 0..(Period - 1)]
    BY DEF PhaseTypeOK
  <2>2. thread.left > 0 /\ thread' = [thread EXCEPT !.left = @ - 1]  BY DEF Pass
  <2>3. thread.left - 1 \in Nat  BY <2>1, <2>2
  <2>4. QED  BY <2>1, <2>2, <2>3
<1>6. QED  BY <1>2, <1>3, <1>4, <1>5

\* What a harvest takes is what was picked up after the slices to be ignored.
LEMMA NewsFacts ==
  ASSUME PhaseTypeOK
  PROVE  LET news == SubSeq(taken, ignored + 1, Len(taken)) IN
         /\ news \in Seq(Slice)
         /\ \A i \in DOMAIN news : i + ignored \in DOMAIN taken /\ news[i] = taken[i + ignored] /\ i \in Nat /\ i >= 1
         /\ ignored >= Len(taken) => news = <<>>
<1> DEFINE news == SubSeq(taken, ignored + 1, Len(taken))
<1>1. taken \in Seq(Slice) /\ ignored \in Nat /\ Len(taken) \in Nat  BY DEF PhaseTypeOK
<1>2. \A i \in (ignored + 1)..Len(taken) : i \in 1..Len(taken) /\ taken[i] \in Slice
  <2>1. \A i \in (ignored + 1)..Len(taken) : i \in 1..Len(taken)  BY <1>1
  <2>2. QED  BY <1>1, <2>1, ElementOfSeq
<1>3. /\ news \in Seq(Slice)
      /\ Len(news) = IF ignored + 1 <= Len(taken) THEN Len(taken) - (ignored + 1) + 1 ELSE 0
      /\ \A i \in 1..(Len(taken) - (ignored + 1) + 1) : news[i] = taken[(ignored + 1) + i - 1]
  BY <1>1, <1>2, SubSeqProperties
<1> HIDE DEF news
<1>4. DOMAIN news = 1..Len(news) /\ Len(news) \in Nat  BY <1>3
<1>5. ASSUME NEW i \in DOMAIN news
      PROVE  i + ignored \in DOMAIN taken /\ news[i] = taken[i + ignored] /\ i \in Nat /\ i >= 1
  <2>1. ignored + 1 <= Len(taken) /\ i \in 1..(Len(taken) - (ignored + 1) + 1)  BY <1>1, <1>3, <1>4, <1>5
  <2>2. (ignored + 1) + i - 1 = i + ignored /\ i + ignored \in 1..Len(taken)  BY <1>1, <2>1
  <2>3. QED  BY <1>1, <1>3, <2>1, <2>2
<1>6. ignored >= Len(taken) => news = <<>>
  <2>1. ignored >= Len(taken) => Len(news) = 0  BY <1>1, <1>3
  <2>2. QED  BY <1>3, <2>1
<1>7. QED  BY <1>3, <1>5, <1>6 DEF news

LEMMA PhaseTypeStep == ASSUME PhaseTypeOK, [PhaseNext]_phaseVars PROVE PhaseTypeOK'
<1>0. /\ epoch \in Nat /\ ignored \in Nat /\ Settle \in Nat /\ phase \in 0..(Period - 1) /\ Len(taken) \in Nat
      /\ MaxFaults \in Nat /\ Decisions \in Nat /\ faults \in 0..MaxFaults /\ judged \in 0..Decisions
      /\ Period \in Nat
  BY PhaseAssumption DEF PhaseTypeOK
<1>1. CASE Flow
  <2>1. [phase |-> phase, epoch |-> epoch] \in Slice  BY <1>0 DEF Slice
  <2>2. Pass([phase |-> phase, epoch |-> epoch]) /\ UNCHANGED faults  BY <1>1 DEF Flow
  <2>3. QED  BY <2>1, <2>2, PassTyped DEF Pass, PhaseTypeOK
<1>2. CASE Freeze
  <2>1. Frozen \in Slice  BY DEF Slice
  <2>2. Pass(Frozen) /\ faults' \in 0..MaxFaults  BY <1>0, <1>2 DEF Freeze
  <2>3. QED  BY <2>1, <2>2, PassTyped DEF Pass, PhaseTypeOK
<1>3. CASE Obey
  <2>1. wire \in Seq([delay : 0..(Period - 1), left : Nat, since : Nat]) /\ wire # <<>>  BY <1>3 DEF Obey, PhaseTypeOK
  <2> DEFINE W == [delay : 0..(Period - 1), left : Nat, since : Nat]
  <2>2. Head(wire).delay \in 0..(Period - 1) /\ Tail(wire) \in Seq(W)
    <3> HIDE DEF W
    <3>1. wire \in Seq(W) /\ wire # <<>>  BY <2>1 DEF W
    <3>2. Head(wire) \in W /\ Tail(wire) \in Seq(W)  BY <3>1, HeadTailProperties
    <3>3. QED  BY <3>2 DEF W
  <2>3. phase - Head(wire).delay \in Int  BY <1>0, <2>2
  <2>4. phase' \in 0..(Period - 1)  BY <1>3, <2>3, CircleTyped DEF Obey
  <2>5. epoch' \in Nat /\ tardy' \subseteq 1..epoch'
    <3>1. epoch' = epoch + 1 /\ tardy' \subseteq tardy \cup {epoch + 1}  BY <1>3 DEF Obey
    <3>2. tardy \subseteq 1..epoch  BY DEF PhaseTypeOK
    <3>3. 1..epoch \subseteq 1..(epoch + 1) /\ epoch + 1 \in 1..(epoch + 1)  BY <1>0
    <3>4. QED  BY <1>0, <3>1, <3>2, <3>3
  <2>6. QED  BY <1>3, <2>2, <2>4, <2>5 DEF Obey, PhaseTypeOK
<1>4. CASE Harvest
  <2> DEFINE news == SubSeq(taken, ignored + 1, Len(taken))
             full == IF batch = <<>> /\ Sampled(news) = {} THEN <<>> ELSE batch \o news
  <2>1. news \in Seq(Slice) /\ batch \in Seq(Slice)  BY NewsFacts DEF PhaseTypeOK
  <2> HIDE DEF news
  <2>2. batch' = full /\ taken' = <<>>  BY <1>4 DEF Harvest, news
  <2>3. batch' \in Seq(Slice)  BY <2>1, <2>2
  <2>4. ignored' \in Nat
    <3>1. ignored - Len(taken) \in Int /\ ignored' = Max({ignored - Len(taken), 0})
      BY <1>0, <1>4 DEF Harvest
    <3>2. QED  BY <3>1, ClampTyped, Zenon
  <2>5. thread' = Asleep(HarvestEvery) \/ thread' = [thread EXCEPT !.at = "deciding"]
    BY <1>4 DEF Harvest
  <2>6. thread' \in [at : {"asleep", "deciding", "sending"}, left : Nat, delay : 0..(Period - 1)]
    BY <2>5, AsleepTyped DEF PhaseTypeOK
  <2>7. taken' \in Seq(Slice)  BY <2>2
  <2>8. UNCHANGED <<wire, faults, judged, verdict, phase, scatter, epoch, tardy>>  BY <1>4 DEF Harvest, loopOnly
  <2> HIDE DEF full
  <2>9. QED  BY <2>3, <2>4, <2>6, <2>7, <2>8 DEF PhaseTypeOK
<1>5. CASE Decline
  <2>1. faults' \in 0..MaxFaults  BY <1>0, <1>5 DEF Decline
  <2>2. QED  BY <1>5, <2>1, AsleepTyped DEF Decline, loopOnly, PhaseTypeOK
<1>6. CASE Decide
  <2> DEFINE error == ErrorOf(Centre(batch), MarginFor(scatter))
             delay == DelayFor(Half(error))
  <2>1. error \in (-Period)..Period /\ delay \in 0..(Period - 1)
    BY <1>6, DecisionTyped DEF Decide, PhaseTypeOK
  <2>2. thread' = Asleep(HarvestEvery) \/ thread' = [at |-> "sending", left |-> 1, delay |-> delay]
    BY <1>6 DEF Decide
  <2>3. (judged' = judged + 1 /\ verdict' = error) \/ UNCHANGED <<judged, verdict>>  BY <1>6 DEF Decide
  <2> HIDE DEF error, delay
  <2>4. thread' \in [at : {"asleep", "deciding", "sending"}, left : Nat, delay : 0..(Period - 1)]
    BY <2>1, <2>2, AsleepTyped
  <2>5. judged' \in 0..Decisions /\ verdict' \in (-Period)..Period
    <3>1. judged < Decisions  BY <1>6 DEF Decide
    <3>2. QED  BY <1>0, <2>1, <2>3, <3>1 DEF PhaseTypeOK
  <2>6. QED  BY <1>6, <2>4, <2>5 DEF Decide, loopOnly, PhaseTypeOK
<1>7. ASSUME NEW landing \in Landings, Ask(landing) PROVE PhaseTypeOK'
  <2>1. [delay |-> thread.delay, left |-> landing, since |-> 0]
           \in [delay : 0..(Period - 1), left : Nat, since : Nat]
    BY PhaseAssumption DEF PhaseTypeOK
  <2>2. wire' \in Seq([delay : 0..(Period - 1), left : Nat, since : Nat])
    BY <1>7, <2>1 DEF Ask, PhaseTypeOK
  <2>3. ignored' \in Nat  BY <1>0, <1>7 DEF Ask
  <2>4. QED  BY <1>7, <2>2, <2>3, AsleepTyped DEF Ask, loopOnly, PhaseTypeOK
<1>8. CASE AskFails
  <2>1. faults' \in 0..MaxFaults  BY <1>0, <1>8 DEF AskFails
  <2>2. judged' \in 0..Decisions
    <3>1. judged - 1 \in Int /\ judged' = Max({judged - 1, 0})  BY <1>0, <1>8 DEF AskFails
    <3>2. judged' \in Nat  BY <3>1, ClampTyped, Zenon
    <3>3. judged - 1 <= judged /\ (judged - 1 >= 0 => judged' = judged - 1) /\ (judged - 1 <= 0 => judged' = 0)
      BY <1>0, <3>1, ClampTyped
    <3>4. QED  BY <1>0, <3>2, <3>3
  <2>3. QED  BY <1>8, <2>1, <2>2, AsleepTyped DEF AskFails, loopOnly, PhaseTypeOK
<1>9. CASE UNCHANGED phaseVars  BY <1>9 DEF phaseVars, PhaseTypeOK
<1>10. QED  BY <1>1, <1>2, <1>3, <1>4, <1>5, <1>6, <1>7, <1>8, <1>9 DEF PhaseNext

-----------------------------------------------------------------------------
(* One batch, one phase. *)

\* A slice picked up under as many requests as the host has now obeyed, but for
\* those that it obeyed late.
TimelyAt(s, n, late) == s = Frozen \/ (s.epoch <= n /\ \A e \in (s.epoch + 1)..n : e \in late)

\* While a request may still be obeyed in time nothing is kept that was picked up
\* before it, and so what is kept, in the batch or to be harvested for it, was
\* picked up under every request that was obeyed in time.
BatchesTimely ==
    /\ \A i \in DOMAIN batch : TimelyAt(batch[i], epoch, tardy)
    /\ \A i \in DOMAIN taken : i > ignored => TimelyAt(taken[i], epoch, tardy)
    /\ \A i \in DOMAIN wire : ignored - Len(taken) >= Settle - wire[i].since
    /\ \A i \in DOMAIN wire : wire[i].since <= Settle => batch = <<>>
    /\ thread.at = "sending" => batch = <<>>

LEMMA BatchesTimelyInit == PhaseInit => BatchesTimely
BY DEF PhaseInit, BatchesTimely, Asleep

LEMMA TimelySuffices == PhaseTypeOK /\ BatchesTimely => OneBatchOnePhase
<1> SUFFICES ASSUME PhaseTypeOK, BatchesTimely, NEW i \in Sampled(batch), NEW j \in Sampled(batch),
                    NEW e \in (batch[i].epoch + 1)..batch[j].epoch
             PROVE  e \in tardy
  BY DEF OneBatchOnePhase
<1>1. i \in DOMAIN batch /\ batch[i] # Frozen /\ j \in DOMAIN batch /\ batch[j] # Frozen
      /\ i \in 1..Len(batch) /\ j \in 1..Len(batch) /\ batch \in Seq(Slice)
  BY DEF Sampled, PhaseTypeOK
<1>2. batch[i] \in Slice /\ batch[j] \in Slice  BY <1>1, ElementOfSeq
<1>3. batch[i].epoch \in Nat /\ batch[j].epoch \in Nat /\ epoch \in Nat
  BY <1>1, <1>2 DEF Slice, PhaseTypeOK
<1>4. batch[j].epoch <= epoch /\ \A d \in (batch[i].epoch + 1)..epoch : d \in tardy
  BY <1>1 DEF BatchesTimely, TimelyAt
<1>5. e \in (batch[i].epoch + 1)..epoch  BY <1>3, <1>4
<1>6. QED  BY <1>4, <1>5

LEMMA PassTimely ==
  ASSUME PhaseTypeOK, BatchesTimely, NEW slice \in Slice, Pass(slice), TimelyAt(slice, epoch, tardy)
  PROVE  BatchesTimely'
<1>a. taken' = Append(taken, slice) /\ UNCHANGED <<epoch, tardy, ignored, batch>>  BY DEF Pass
<1>b. taken \in Seq(Slice) /\ ignored \in Nat  BY DEF PhaseTypeOK
<1>c. wire \in Seq([delay : 0..(Period - 1), left : Nat, since : Nat])  BY DEF PhaseTypeOK
<1>d. Len(taken) \in Nat /\ DOMAIN taken = 1..Len(taken) /\ Settle \in Nat  BY <1>b, PhaseAssumption
<1>2. Len(taken') = Len(taken) + 1 /\ taken' \in Seq(Slice)
      /\ taken'[Len(taken) + 1] = slice /\ \A i \in 1..Len(taken) : taken'[i] = taken[i]
  BY <1>a, <1>b, AppendProperties
<1>3. ASSUME NEW i \in DOMAIN taken', i > ignored PROVE TimelyAt(taken'[i], epoch, tardy)
  <2>1. i \in 1..(Len(taken) + 1)  BY <1>2
  <2>2. CASE i = Len(taken) + 1  BY <1>2, <2>2
  <2>3. CASE i # Len(taken) + 1
    <3>1. i \in 1..Len(taken) /\ i \in DOMAIN taken  BY <1>d, <2>1, <2>3
    <3>2. QED  BY <1>2, <1>3, <3>1 DEF BatchesTimely
  <2>4. QED  BY <2>2, <2>3
<1>4. ASSUME NEW i \in DOMAIN wire'
      PROVE  ignored - Len(taken') >= Settle - wire'[i].since /\ (wire'[i].since <= Settle => batch = <<>>)
  <2>1. i \in DOMAIN wire /\ wire'[i].since = wire[i].since + 1  BY PassTyped
  <2>2. wire[i].since \in Nat
    <3>1. i \in 1..Len(wire)  BY <1>c, <2>1
    <3>2. wire[i] \in [delay : 0..(Period - 1), left : Nat, since : Nat]  BY <1>c, <3>1, ElementOfSeq
    <3>3. QED  BY <3>2
  <2>3. ignored - Len(taken) >= Settle - wire[i].since /\ (wire[i].since <= Settle => batch = <<>>)
    BY <2>1 DEF BatchesTimely
  <2>4. Len(taken') = Len(taken) + 1 /\ Len(taken) \in Nat /\ ignored \in Nat /\ Settle \in Nat
    BY <1>2, <1>b, <1>d
  <2>5. QED  BY <2>1, <2>2, <2>3, <2>4
<1>5. thread'.at = thread.at
  BY DEF Pass, PhaseTypeOK
<1>6. QED  BY <1>a, <1>3, <1>4, <1>5 DEF BatchesTimely

\* What a harvest keeps was all picked up under the same requests.
LEMMA HarvestTimely ==
  ASSUME PhaseTypeOK, BatchesTimely, Harvest
  PROVE  BatchesTimely'
<1> DEFINE news == SubSeq(taken, ignored + 1, Len(taken))
<1>a. /\ taken \in Seq(Slice) /\ Len(taken) \in Nat /\ ignored \in Nat /\ Settle \in Nat
      /\ epoch \in Nat /\ Len(<<>>) = 0
  BY PhaseAssumption DEF PhaseTypeOK
<1>1. /\ taken \in Seq(Slice) /\ Len(taken) \in Nat /\ ignored \in Nat /\ batch \in Seq(Slice)
      /\ wire \in Seq([delay : 0..(Period - 1), left : Nat, since : Nat])
      /\ UNCHANGED <<epoch, tardy, wire>> /\ taken' = <<>> /\ ignored' = Max({ignored - Len(taken), 0})
  BY PhaseAssumption DEF PhaseTypeOK, Harvest, loopOnly
<1>2. /\ news \in Seq(Slice)
      /\ \A i \in DOMAIN news : i + ignored \in DOMAIN taken /\ news[i] = taken[i + ignored] /\ i \in Nat /\ i >= 1
      /\ ignored >= Len(taken) => news = <<>>
  BY NewsFacts
<1>3. batch' = <<>> \/ batch' = batch \o news  BY DEF Harvest
<1>4. batch = <<>> /\ news = <<>> => batch' = <<>>
  <2>1. ASSUME batch = <<>>, news = <<>> PROVE batch' = <<>>
    <3>1. Sampled(<<>>) = {}
      <4>1. DOMAIN <<>> = {}  OBVIOUS
      <4>2. QED  BY <4>1 DEF Sampled
    <3>2. Sampled(news) = {}  BY <2>1, <3>1
    <3>3. QED  BY <2>1, <3>2 DEF Harvest
  <2>2. QED  BY <2>1
<1> HIDE DEF news
<1>5. \A i \in DOMAIN news : TimelyAt(news[i], epoch, tardy)
  <2>1. ASSUME NEW i \in DOMAIN news PROVE TimelyAt(news[i], epoch, tardy)
    <3>1. i + ignored > ignored /\ i + ignored \in DOMAIN taken /\ news[i] = taken[i + ignored]
      BY <1>1, <1>2
    <3>2. QED  BY <3>1 DEF BatchesTimely
  <2>2. QED  BY <2>1
<1>6. \A i \in DOMAIN batch' : TimelyAt(batch'[i], epoch, tardy)
  <2>1. ASSUME batch' = batch \o news, NEW i \in DOMAIN batch' PROVE TimelyAt(batch'[i], epoch, tardy)
    <3>1. /\ batch' \in Seq(Slice) /\ Len(batch') = Len(batch) + Len(news)
          /\ \A k \in 1..Len(batch) : batch'[k] = batch[k]
          /\ \A k \in 1..Len(news) : batch'[Len(batch) + k] = news[k]
      BY <1>1, <1>2, <2>1, ConcatProperties
    <3>2. i \in 1..(Len(batch) + Len(news)) /\ Len(batch) \in Nat /\ Len(news) \in Nat
      BY <1>1, <1>2, <3>1
    <3>3. CASE i <= Len(batch)
      <4>1. i \in 1..Len(batch) /\ i \in DOMAIN batch  BY <1>1, <3>2, <3>3
      <4>2. QED  BY <3>1, <4>1 DEF BatchesTimely
    <3>4. CASE i > Len(batch)
      <4>1. i - Len(batch) \in 1..Len(news) /\ i - Len(batch) \in DOMAIN news  BY <1>2, <3>2, <3>4
      <4>2. batch'[Len(batch) + (i - Len(batch))] = news[i - Len(batch)]  BY <3>1, <4>1
      <4>3. Len(batch) + (i - Len(batch)) = i  BY <3>2
      <4>4. QED  BY <1>5, <4>1, <4>2, <4>3
    <3>5. QED  BY <3>2, <3>3, <3>4
  <2>2. QED  BY <1>3, <2>1
<1>7. ASSUME NEW i \in DOMAIN wire
      PROVE  ignored' - Len(taken') >= Settle - wire[i].since /\ (wire[i].since <= Settle => batch' = <<>>)
  <2>1. wire[i].since \in Nat
    <3>1. i \in 1..Len(wire)  BY <1>1
    <3>2. wire[i] \in [delay : 0..(Period - 1), left : Nat, since : Nat]  BY <1>1, <3>1, ElementOfSeq
    <3>3. QED  BY <3>2
  <2>2. ignored - Len(taken) >= Settle - wire[i].since /\ (wire[i].since <= Settle => batch = <<>>)
    BY DEF BatchesTimely
  <2>3. Len(taken') = 0
    <3>1. taken' = <<>>  BY <1>1
    <3>2. QED  BY <1>a, <3>1
  <2>4. ignored' \in Nat /\ ignored' >= ignored - Len(taken)
    <3>1. ignored - Len(taken) \in Int  BY <1>1
    <3>2. QED  BY <1>1, <3>1, ClampTyped, Zenon
  <2>5. wire[i].since <= Settle => ignored >= Len(taken)  BY <1>a, <2>1, <2>2
  <2>6. wire[i].since <= Settle => batch' = <<>>  BY <1>2, <1>4, <2>2, <2>5
  <2>7. QED  BY <1>a, <2>1, <2>2, <2>3, <2>4, <2>6
<1>8. thread'.at # "sending"
  BY DEF Harvest, Asleep
<1>9. DOMAIN taken' = {}  BY <1>1
<1>10. QED  BY <1>1, <1>6, <1>7, <1>8, <1>9 DEF BatchesTimely

\* A request obeyed in time finds nothing kept from before it.
LEMMA ObeyTimely ==
  ASSUME PhaseTypeOK, BatchesTimely, Obey
  PROVE  BatchesTimely'
<1> DEFINE W == [delay : 0..(Period - 1), left : Nat, since : Nat]
<1>1. /\ wire \in Seq(W) /\ wire # <<>> /\ wire' = Tail(wire) /\ epoch \in Nat /\ epoch' = epoch + 1
      /\ tardy' = (IF Head(wire).since > Settle THEN tardy \cup {epoch + 1} ELSE tardy)
      /\ UNCHANGED <<taken, ignored, batch, thread>>
      /\ taken \in Seq(Slice) /\ batch \in Seq(Slice) /\ Len(taken) \in Nat /\ ignored \in Nat /\ Settle \in Nat
  BY PhaseAssumption DEF Obey, PhaseTypeOK
<1>2. Head(wire) \in W /\ Head(wire) = wire[1] /\ 1 \in DOMAIN wire
      /\ DOMAIN wire' \subseteq DOMAIN wire
      /\ \A i \in DOMAIN wire' : i + 1 \in DOMAIN wire /\ wire'[i] = wire[i + 1]
  <2> HIDE DEF W
  <2>1. Head(wire) \in W /\ Tail(wire) \in Seq(W) /\ Len(Tail(wire)) = Len(wire) - 1
        /\ \A i \in 1..Len(Tail(wire)) : Tail(wire)[i] = wire[i + 1]
    BY <1>1, HeadTailProperties
  <2>2. Len(wire) \in Nat /\ Len(wire) # 0 /\ DOMAIN wire = 1..Len(wire)  BY <1>1, EmptySeq
  <2>3. DOMAIN wire' = 1..(Len(wire) - 1)  BY <1>1, <2>1, <2>2
  <2>4. QED  BY <1>1, <2>1, <2>2, <2>3
<1>3. Head(wire).since \in Nat  BY <1>2
<1>4. CASE Head(wire).since > Settle
  <2>1. ASSUME NEW s \in Slice, TimelyAt(s, epoch, tardy) PROVE TimelyAt(s, epoch', tardy')
    <3>1. s = Frozen \/ s.epoch \in Nat  BY DEF Slice
    <3>2. ASSUME s.epoch \in Nat, s.epoch <= epoch, \A e \in (s.epoch + 1)..epoch : e \in tardy,
                 NEW e \in (s.epoch + 1)..(epoch + 1)
          PROVE  e \in tardy \cup {epoch + 1}
      <4>1. e = epoch + 1 \/ e \in (s.epoch + 1)..epoch  BY <1>1, <3>2
      <4>2. QED  BY <3>2, <4>1
    <3>3. tardy' = tardy \cup {epoch + 1} /\ epoch' = epoch + 1  BY <1>1, <1>4
    <3>4. s # Frozen => s.epoch <= epoch + 1  BY <1>1, <2>1, <3>1 DEF TimelyAt
    <3>5. QED  BY <2>1, <3>1, <3>2, <3>3, <3>4 DEF TimelyAt
  <2>2. \A i \in DOMAIN batch : TimelyAt(batch[i], epoch', tardy')
    <3>1. \A i \in DOMAIN batch : i \in 1..Len(batch)  BY <1>1
    <3>2. \A i \in DOMAIN batch : batch[i] \in Slice  BY <1>1, <3>1, ElementOfSeq
    <3>3. QED  BY <2>1, <3>2 DEF BatchesTimely
  <2>3. \A i \in DOMAIN taken : i > ignored => TimelyAt(taken[i], epoch', tardy')
    <3>1. \A i \in DOMAIN taken : i \in 1..Len(taken)  BY <1>1
    <3>2. \A i \in DOMAIN taken : taken[i] \in Slice  BY <1>1, <3>1, ElementOfSeq
    <3>3. QED  BY <2>1, <3>2 DEF BatchesTimely
  <2>4. QED  BY <1>1, <1>2, <2>2, <2>3 DEF BatchesTimely
<1>5. CASE ~(Head(wire).since > Settle)
  <2>1. wire[1].since <= Settle /\ wire[1].since \in Nat  BY <1>1, <1>2, <1>3, <1>5
  <2>2. batch = <<>>  BY <1>2, <2>1 DEF BatchesTimely
  <2>3. ignored - Len(taken) >= Settle - wire[1].since  BY <1>2 DEF BatchesTimely
  <2>4. ignored >= Len(taken)  BY <1>1, <2>1, <2>3
  <2>5. \A i \in DOMAIN taken : ~(i > ignored)  BY <1>1, <2>4
  <2>6. DOMAIN batch = {}  BY <2>2
  <2>7. QED  BY <1>1, <1>2, <2>2, <2>5, <2>6 DEF BatchesTimely
<1>6. QED  BY <1>4, <1>5

LEMMA AskTimely ==
  ASSUME PhaseTypeOK, BatchesTimely, NEW landing \in Landings, Ask(landing)
  PROVE  BatchesTimely'
<1> DEFINE W == [delay : 0..(Period - 1), left : Nat, since : Nat]
           request == [delay |-> thread.delay, left |-> landing, since |-> 0]
<1>1. /\ wire \in Seq(W) /\ request \in W /\ Len(taken) \in Nat /\ Settle \in Nat /\ taken \in Seq(Slice)
      /\ wire' = Append(wire, request) /\ ignored' = Len(taken) + Settle
      /\ thread' = Asleep(HarvestEvery) /\ thread.at = "sending"
      /\ UNCHANGED <<taken, batch, epoch, tardy>>
  BY PhaseAssumption DEF PhaseTypeOK, Ask, loopOnly
<1>2. batch = <<>>  BY <1>1 DEF BatchesTimely
<1>3. ASSUME NEW i \in DOMAIN wire' PROVE wire'[i].since \in Nat
  <2> HIDE DEF W, request
  <2>1. wire' \in Seq(W)  BY <1>1, AppendProperties
  <2>2. i \in 1..Len(wire')  BY <2>1
  <2>3. wire'[i] \in W  BY <2>1, <2>2, ElementOfSeq
  <2>4. QED  BY <2>3 DEF W
<1>4. \A i \in DOMAIN wire' : ignored' - Len(taken') >= Settle - wire'[i].since
  <2>1. Len(taken) \in Nat /\ Settle \in Nat /\ ignored' = Len(taken) + Settle /\ taken' = taken  BY <1>1
  <2>2. Settle \in Nat /\ ignored' - Len(taken') = Settle  BY <2>1
  <2> HIDE DEF request
  <2>3. QED  BY <1>3, <2>2
<1>5. \A i \in DOMAIN taken' : ~(i > ignored')  BY <1>1
<1>6. DOMAIN batch' = {} /\ batch' = <<>>  BY <1>1, <1>2
<1>7. QED  BY <1>4, <1>5, <1>6 DEF BatchesTimely

LEMMA BatchesTimelyStep ==
  ASSUME PhaseTypeOK, BatchesTimely, [PhaseNext]_phaseVars
  PROVE  BatchesTimely'
<1>1. CASE Flow
  <2>1. [phase |-> phase, epoch |-> epoch] \in Slice /\ epoch \in Nat  BY DEF Slice, PhaseTypeOK
  <2>2. TimelyAt([phase |-> phase, epoch |-> epoch], epoch, tardy)
    <3>1. (epoch + 1)..epoch = {}  BY <2>1
    <3>2. QED  BY <2>1, <3>1 DEF TimelyAt
  <2>3. QED  BY <1>1, <2>1, <2>2, PassTimely DEF Flow
<1>2. CASE Freeze
  <2>1. Frozen \in Slice /\ TimelyAt(Frozen, epoch, tardy)  BY DEF Slice, TimelyAt
  <2>2. QED  BY <1>2, <2>1, PassTimely DEF Freeze
<1>3. CASE Obey  BY <1>3, ObeyTimely
<1>4. CASE Harvest  BY <1>4, HarvestTimely
<1>5. CASE Decline
  BY <1>5 DEF Decline, Asleep, loopOnly, BatchesTimely
<1>6. CASE Decide
  BY <1>6 DEF Decide, Asleep, loopOnly, BatchesTimely
<1>7. ASSUME NEW landing \in Landings, Ask(landing) PROVE BatchesTimely'  BY <1>7, AskTimely
<1>8. CASE AskFails
  BY <1>8 DEF AskFails, Asleep, loopOnly, BatchesTimely
<1>9. CASE UNCHANGED phaseVars  BY <1>9 DEF phaseVars, BatchesTimely
<1>10. QED  BY <1>1, <1>2, <1>3, <1>4, <1>5, <1>6, <1>7, <1>8, <1>9 DEF PhaseNext

\* The phase loop's state stays well typed.
THEOREM PhaseTypeCorrect == PhaseSpec => []PhaseTypeOK
<1>1. PhaseInit => PhaseTypeOK  BY PhaseTypeInit
<1>2. PhaseTypeOK /\ [PhaseNext]_phaseVars => PhaseTypeOK'  BY PhaseTypeStep
<1>3. QED  BY <1>1, <1>2, PTL DEF PhaseSpec

\* For every settle window, cadence and delay of the host: the frames of a batch were
\* picked up under the same requests, but for those the host obeyed later than the
\* settle window after they were sent.
THEOREM BatchesHoldOnePhase == PhaseSpec => []OneBatchOnePhase
<1>1. PhaseInit => BatchesTimely  BY BatchesTimelyInit
<1>2. PhaseTypeOK /\ BatchesTimely /\ [PhaseNext]_phaseVars => BatchesTimely'  BY BatchesTimelyStep
<1>3. PhaseTypeOK /\ BatchesTimely => OneBatchOnePhase  BY TimelySuffices
<1>4. QED  BY <1>1, <1>2, <1>3, PhaseTypeCorrect, PTL DEF PhaseSpec

-----------------------------------------------------------------------------
(* The way to the aim, when every request is obeyed within the settle window. *)

LEMMA Turned ==
  ASSUME NEW n \in Int, -Period <= n, n < Period
  PROVE  n % Period = IF n < 0 THEN n + Period ELSE n
<1>1. Period \in Nat /\ Period >= 2  BY PhaseAssumption
<1>2. 0 <= n => n % Period = n  BY <1>1
<1>3. n < 0 => n % Period = n + Period  BY <1>1
<1>4. QED  BY <1>2, <1>3

\* The short way is at most half a period long.
LEMMA ShortWay ==
  ASSUME NEW p \in 0..(Period - 1), NEW t \in 0..(Period - 1)
  PROVE  /\ ErrorOf(p, t) \in Int
         /\ ErrorOf(p, t) >= -(Period \div 2) /\ ErrorOf(p, t) <= Period - Period \div 2
         /\ ErrorOf(p, p) = 0
         /\ \/ ErrorOf(p, t) = p - t
            \/ ErrorOf(p, t) = p - t - Period
            \/ ErrorOf(p, t) = p - t + Period
<1> DEFINE h == Period \div 2
<1>1. Period \in Nat /\ Period >= 2 /\ h \in Nat /\ 2 * h <= Period /\ Period <= 2 * h + 1 /\ h >= 1
  BY PhaseAssumption
<1>2. ErrorOf(p, t) = IF p - t > h THEN (p - t) - Period ELSE IF p - t <= -h THEN (p - t) + Period ELSE p - t
  BY DEF ErrorOf
<1>3. ErrorOf(p, p) = IF p - p > h THEN (p - p) - Period ELSE IF p - p <= -h THEN (p - p) + Period ELSE p - p
  BY DEF ErrorOf
<1> HIDE DEF h
<1>4. ErrorOf(p, p) = 0  BY <1>1, <1>3
<1>5. QED  BY <1>1, <1>2, <1>4 DEF h

\* Asked for half the way, the host leaves the other half.
LEMMA ShiftHalves ==
  ASSUME NEW p \in 0..(Period - 1), NEW t \in 0..(Period - 1)
  PROVE  LET e == ErrorOf(p, t)
             q == (p - DelayFor(Half(e))) % Period
         IN  /\ DelayFor(Half(e)) # 0 => ErrorOf(q, t) = e - Half(e)
             /\ DelayFor(Half(e)) = 0 => Magnitude(e) <= 1
<1> DEFINE h == Period \div 2
           e == ErrorOf(p, t)
           c == Half(e)
           d == DelayFor(c)
           q == (p - d) % Period
<1>1. Period \in Nat /\ Period >= 2 /\ h \in Nat /\ 2 * h <= Period /\ Period <= 2 * h + 1 /\ h >= 1
  BY PhaseAssumption
<1>2. /\ e \in Int /\ e >= -h /\ e <= Period - h
      /\ (e = p - t \/ e = p - t - Period \/ e = p - t + Period)
  BY ShortWay
<1>3. c \in Int /\ (IF e < 0 THEN -e >= -(2 * c) /\ -e <= 1 - 2 * c /\ c <= 0
                    ELSE e >= 2 * c /\ e <= 2 * c + 1 /\ c >= 0)
  <2> HIDE DEF e
  <2>1. c = IF e < 0 THEN -((-e) \div 2) ELSE e \div 2  BY DEF Half
  <2>2. QED  BY <1>2, <2>1
<1>4. d = c % Period  BY DEF DelayFor
<1>5. ErrorOf(q, t) = IF q - t > h THEN (q - t) - Period ELSE IF q - t <= -h THEN (q - t) + Period ELSE q - t
  BY DEF ErrorOf
<1>6. q = (p - d) % Period  OBVIOUS
<1> HIDE DEF h, e, c, d, q
<1>7. -Period < c /\ c < Period  BY <1>1, <1>2, <1>3
<1>8. d = IF c < 0 THEN c + Period ELSE c
  <2>1. c \in Int /\ -Period <= c /\ c < Period  BY <1>1, <1>3, <1>7
  <2>2. c % Period = IF c < 0 THEN c + Period ELSE c  BY <2>1, Turned, Zenon
  <2>3. QED  BY <1>4, <2>2
<1>9. p - d \in Int /\ -Period <= p - d /\ p - d < Period  BY <1>1, <1>3, <1>7, <1>8
<1>10. q = IF p - d < 0 THEN (p - d) + Period ELSE p - d  BY <1>6, <1>9, Turned
<1>11. d = 0 => Magnitude(e) <= 1
  <2>1. d = 0 => c = 0  BY <1>1, <1>3, <1>7, <1>8
  <2>2. QED  BY <1>2, <1>3, <2>1 DEF Magnitude
<1>12. ASSUME d # 0 PROVE ErrorOf(q, t) = e - c
  <2>1. c # 0  BY <1>1, <1>3, <1>8, <1>12
  <2>2. e - c > -h /\ e - c <= h
    <3>1. CASE e < 0  BY <1>1, <1>2, <1>3, <2>1, <3>1
    <3>2. CASE e >= 0  BY <1>1, <1>2, <1>3, <2>1, <3>2
    <3>3. QED  BY <1>2, <3>1, <3>2
  <2>3. q \in Int /\ q >= 0 /\ q < Period  BY <1>1, <1>3, <1>8, <1>9, <1>10
  <2> DEFINE x == e - c
  <2>4. x \in Int /\ x > -h /\ x <= h  BY <1>2, <1>3, <2>2
  <2>5. q - t = x \/ q - t = x + Period \/ q - t = x - Period \/ q - t = x + 2 * Period \/ q - t = x - 2 * Period
        \/ q - t = x + 3 * Period \/ q - t = x - 3 * Period
    BY <1>1, <1>2, <1>3, <1>8, <1>10
  <2> HIDE DEF x
  <2>6. -Period < q - t /\ q - t < Period  BY <1>1, <2>3
  <2>7. q - t = x \/ q - t = x + Period \/ q - t = x - Period  BY <1>1, <2>3, <2>4, <2>5, <2>6
  <2>8. ErrorOf(q, t) = x  BY <1>1, <1>5, <2>3, <2>4, <2>7
  <2>9. QED  BY <2>8 DEF x
<1>13. QED  BY <1>11, <1>12 DEF e, c, d, q

\* Half the way, rounded up, and never further than before.
LEMMA HalvingBound ==
  ASSUME NEW e \in Int
  PROVE  /\ Magnitude(e - Half(e)) \in Nat /\ Magnitude(e) \in Nat
         /\ Magnitude(e - Half(e)) <= Magnitude(e)
         /\ e # 0 => 2 * (Magnitude(e - Half(e)) - 1) <= Magnitude(e) - 1
<1>1. Half(e) = IF e < 0 THEN -((-e) \div 2) ELSE e \div 2  BY DEF Half
<1>2. CASE e < 0
  <2>1. Half(e) \in Int /\ -e >= -(2 * Half(e)) /\ -e <= 1 - 2 * Half(e)  BY <1>1, <1>2
  <2>2. e - Half(e) <= 0  BY <1>2, <2>1
  <2>3. Magnitude(e) = -e /\ Magnitude(e - Half(e)) = Half(e) - e
    BY <1>2, <2>1, <2>2 DEF Magnitude
  <2>4. QED  BY <1>2, <2>1, <2>2, <2>3
<1>3. CASE e >= 0
  <2>1. Half(e) \in Int /\ e >= 2 * Half(e) /\ e <= 2 * Half(e) + 1  BY <1>1, <1>3
  <2>2. e - Half(e) >= 0  BY <1>3, <2>1
  <2>3. Magnitude(e) = e /\ Magnitude(e - Half(e)) = e - Half(e)
    BY <1>3, <2>1, <2>2 DEF Magnitude
  <2>4. QED  BY <1>3, <2>1, <2>2, <2>3
<1>4. QED  BY <1>2, <1>3

\* How much nearer n decisions bring the phase.
Nearer(n) == IF n = 0 THEN 1 ELSE IF n = 1 THEN 2 ELSE IF n = 2 THEN 4
             ELSE IF n = 3 THEN 8 ELSE IF n = 4 THEN 16 ELSE 32

WayLeft(p) == Magnitude(ErrorOf(p, MarginFor(scatter)))
NearEnough(way, n) == way <= DeadZone \/ (way - 1) * Nearer(n) <= Period \div 2

LEMMA Nearing ==
  ASSUME NEW n \in Nat, NEW way \in Nat, NEW left \in Nat, NearEnough(way, n)
  PROVE  /\ NearEnough(way, 0)
         /\ left <= 1 => NearEnough(left, n)
         /\ n > 0 => NearEnough(way, n - 1)
         /\ way <= DeadZone => NearEnough(way, n + 1)
         /\ left <= way /\ 2 * (left - 1) <= way - 1 => NearEnough(left, n + 1)
         /\ n >= 5 /\ Period \div 2 < 32 * DeadZone => way <= DeadZone
<1> DEFINE h == Period \div 2
<1>1. h \in Nat /\ DeadZone \in Nat  BY PhaseAssumption
<1>2. way <= DeadZone \/ (way - 1) * Nearer(n) <= h  BY DEF NearEnough
<1> HIDE DEF h
<1>3. CASE n = 0
  BY <1>1, <1>2, <1>3 DEF NearEnough, Nearer, h
<1>4. CASE n = 1
  BY <1>1, <1>2, <1>4 DEF NearEnough, Nearer, h
<1>5. CASE n = 2
  BY <1>1, <1>2, <1>5 DEF NearEnough, Nearer, h
<1>6. CASE n = 3
  BY <1>1, <1>2, <1>6 DEF NearEnough, Nearer, h
<1>7. CASE n = 4
  BY <1>1, <1>2, <1>7 DEF NearEnough, Nearer, h
<1>8. CASE n = 5
  BY <1>1, <1>2, <1>8 DEF NearEnough, Nearer, h
<1>9. CASE n > 5
  BY <1>1, <1>2, <1>9 DEF NearEnough, Nearer, h
<1>10. QED  BY <1>3, <1>4, <1>5, <1>6, <1>7, <1>8, <1>9

\* The phase frames will have once what has been decided is done.
Coming ==
    IF wire # <<>> THEN (phase - wire[1].delay) % Period
    ELSE IF thread.at = "sending" THEN (phase - thread.delay) % Period
    ELSE phase

\* A slice of the present requests shows the present phase.
ShowsPhase(s, n, p) == s = Frozen \/ (s.epoch \in Nat /\ s.epoch <= n /\ (s.epoch = n => s.phase = p))

\* No decision is carried out late, and each brings the phase nearer its aim.
Converging ==
    /\ tardy = {}
    /\ Len(wire) <= 1
    /\ \A i \in DOMAIN wire : wire[i].since + wire[i].left <= Settle
    /\ thread.at = "sending" =>
         wire = <<>> /\ judged > 0 /\ NearEnough(WayLeft(phase), judged - 1)
    /\ \A i \in DOMAIN batch : ShowsPhase(batch[i], epoch, phase)
    /\ \A i \in DOMAIN taken : ShowsPhase(taken[i], epoch, phase)
    /\ NearEnough(WayLeft(Coming), judged)
    /\ AimIsHeld

\* The host obeys within the settle window, and five halvings of half a period
\* end in the dead zone.
Punctual == Landings \subseteq 1..Settle
FiveHalvings == Period \div 2 < 32 * DeadZone

LEMMA WayTyped ==
  ASSUME PhaseTypeOK, NEW p \in 0..(Period - 1)
  PROVE  /\ WayLeft(p) \in Nat /\ ErrorOf(p, MarginFor(scatter)) \in Int
         /\ NearEnough(WayLeft(p), 0)
<1>1. MarginFor(scatter) \in 0..(Period - 1)  BY MarginTyped, PhaseAssumption DEF PhaseTypeOK
<1> DEFINE e == ErrorOf(p, MarginFor(scatter))
           h == Period \div 2
<1>2. e \in Int /\ e >= -h /\ e <= Period - h  BY <1>1, ShortWay
<1>3. Period \in Nat /\ h \in Nat /\ 2 * h <= Period /\ Period <= 2 * h + 1  BY PhaseAssumption
<1>4. WayLeft(p) = IF e < 0 THEN -e ELSE e  BY DEF WayLeft, Magnitude
<1>5. NearEnough(WayLeft(p), 0) <=> WayLeft(p) <= DeadZone \/ (WayLeft(p) - 1) * 1 <= h
  BY DEF NearEnough, Nearer
<1> HIDE DEF e, h
<1>6. WayLeft(p) \in Nat /\ WayLeft(p) - 1 <= h  BY <1>2, <1>3, <1>4
<1>7. QED  BY <1>2, <1>3, <1>5, <1>6 DEF e

LEMMA ConvergingInit == PhaseInit => Converging
<1> SUFFICES ASSUME PhaseInit PROVE Converging  OBVIOUS
<1>1. PhaseTypeOK  BY PhaseTypeInit
<1>2. NearEnough(WayLeft(phase), 0)  BY <1>1, WayTyped DEF PhaseTypeOK
<1>3. /\ tardy = {} /\ wire = <<>> /\ batch = <<>> /\ taken = <<>> /\ judged = 0
      /\ thread.at # "sending"
  BY DEF PhaseInit, Asleep
<1>4. Coming = phase  BY <1>3 DEF Coming
<1>5. Len(wire) = 0 /\ DOMAIN wire = {} /\ DOMAIN batch = {} /\ DOMAIN taken = {}  BY <1>3
<1>6. QED  BY <1>2, <1>3, <1>4, <1>5 DEF Converging, AimIsHeld

\* Of a batch whose slices all show one phase that is the centre.
LEMMA CentreOfOne ==
  ASSUME NEW b \in Seq(Slice), Sampled(b) # {}, NEW p \in 0..(Period - 1),
         \A i \in Sampled(b) : b[i].phase = p
  PROVE  Centre(b) = p
<1> DEFINE seen == Sampled(b)
           first == b[Min(seen)].phase
           f == [i \in seen |-> ErrorOf(b[i].phase, first)]
           sum == FoldFunctionOnSet(+, 0, f, seen)
<1>1. seen \subseteq 1..Len(b) /\ Len(b) \in Nat  BY DEF Sampled
<1>2. IsFiniteSet(seen) /\ Cardinality(seen) \in Nat \ {0}  BY CentreTyped
<1>3. Min(seen) \in seen
  <2>1. seen \in SUBSET Nat  BY <1>1
  <2>2. \E n \in seen : \A m \in seen : n <= m  BY <2>1, LeastNatural
  <2>3. QED  BY <2>2 DEF Min
<1>4. first = p  BY <1>3
<1>5. \A i \in seen : f[i] = 0  BY <1>4, ShortWay
<1> HIDE DEF f
<1>6. sum \in {0}
  <2>1. 0 \in {0} /\ \A i \in seen, v \in {0} : f[i] + v \in {0}  BY <1>5
  <2>2. QED  BY <1>2, <2>1, SumWithin
<1>7. Centre(b) = (first + sum \div Cardinality(seen)) % Period  BY DEF Centre, f
<1> HIDE DEF sum, first, seen
<1>8. sum \div Cardinality(seen) = 0
  <2>1. \A c \in Nat \ {0} : 0 \div c = 0  OBVIOUS
  <2>2. QED  BY <1>2, <1>6, <2>1
<1>9. first + sum \div Cardinality(seen) = p  BY <1>4, <1>8
<1>10. p % Period = p  BY Turned, PhaseAssumption
<1>11. QED  BY <1>7, <1>9, <1>10

\* The phase to come is a phase.
LEMMA ComingTyped == ASSUME PhaseTypeOK PROVE Coming \in 0..(Period - 1)
<1> DEFINE W == [delay : 0..(Period - 1), left : Nat, since : Nat]
<1>1. phase \in 0..(Period - 1) /\ thread.delay \in 0..(Period - 1) /\ wire \in Seq(W)
  BY DEF PhaseTypeOK
<1>2. wire # <<>> => wire[1] \in W
  <2> HIDE DEF W
  <2>1. wire # <<>> => Head(wire) \in W /\ Head(wire) = wire[1]  BY <1>1, HeadTailProperties
  <2>2. QED  BY <2>1
<1>3. phase \in Int /\ thread.delay \in Int /\ (wire # <<>> => wire[1].delay \in Int)  BY <1>1, <1>2, PhaseAssumption
<1>4. CASE wire # <<>>
  <2>1. phase - wire[1].delay \in Int  BY <1>3, <1>4
  <2>2. QED  BY <1>4, <2>1, CircleTyped, Zenon DEF Coming
<1>5. CASE wire = <<>>
  <2>1. phase - thread.delay \in Int  BY <1>3
  <2>2. (phase - thread.delay) % Period \in 0..(Period - 1)  BY <2>1, CircleTyped, Zenon
  <2>3. QED  BY <1>1, <1>5, <2>2 DEF Coming
<1>6. QED  BY <1>4, <1>5

LEMMA ConvergingPass ==
  ASSUME PhaseTypeOK, Converging, NEW slice \in Slice, Pass(slice), ShowsPhase(slice, epoch, phase)
  PROVE  Converging'
<1> DEFINE W == [delay : 0..(Period - 1), left : Nat, since : Nat]
<1>a. taken' = Append(taken, slice) /\ UNCHANGED <<phase, scatter, epoch, tardy, batch, judged, verdict>>
  BY DEF Pass
<1>b. taken \in Seq(Slice) /\ wire \in Seq(W)  BY DEF PhaseTypeOK
<1>c. Len(taken) \in Nat /\ DOMAIN taken = 1..Len(taken) /\ Len(wire) \in Nat /\ DOMAIN wire = 1..Len(wire)
  BY <1>b
<1>d. wire' \in Seq(W) /\ DOMAIN wire' = DOMAIN wire
  BY PassTyped
<1>1. Len(wire') = Len(wire)
  <2>1. Len(wire') \in Nat /\ DOMAIN wire' = 1..Len(wire')  BY <1>d
  <2>2. QED  BY <1>c, <1>d, <2>1
<1>2. (wire' = <<>>) <=> (wire = <<>>)
  <2> HIDE DEF W
  <2>1. (wire' = <<>>) <=> Len(wire') = 0  BY <1>d, EmptySeq
  <2>2. (wire = <<>>) <=> Len(wire) = 0  BY <1>b, EmptySeq
  <2>3. QED  BY <1>1, <2>1, <2>2
<1>3. ASSUME NEW i \in DOMAIN wire'
      PROVE  wire'[i].since + wire'[i].left <= Settle /\ wire'[i].delay = wire[i].delay
  <2>1. i \in DOMAIN wire /\ i \in 1..Len(wire)  BY <1>c, <1>d
  <2>2. wire[i] \in W  BY <1>b, <2>1, ElementOfSeq
  <2>3. wire'[i].since = wire[i].since + 1 /\ wire'[i].left = wire[i].left - 1 /\ wire'[i].delay = wire[i].delay
    BY <2>1, PassTyped
  <2>4. wire[i].since + wire[i].left <= Settle /\ Settle \in Nat  BY <2>1, PhaseAssumption DEF Converging
  <2>5. wire[i].since \in Nat /\ wire[i].left \in Nat  BY <2>2
  <2>6. QED  BY <2>3, <2>4, <2>5
<1>4. thread'.at = thread.at /\ thread'.delay = thread.delay  BY DEF Pass, PhaseTypeOK
<1>5. Coming' = Coming
  <2>1. CASE wire # <<>>
    <3>1. 1 \in DOMAIN wire'
      <4>1. Len(wire) # 0
        <5> HIDE DEF W
        <5>1. QED  BY <1>b, <2>1, EmptySeq
      <4>2. QED  BY <1>c, <1>d, <4>1
    <3>2. wire'[1].delay = wire[1].delay  BY <1>3, <3>1
    <3>3. QED  BY <1>a, <1>2, <2>1, <3>2 DEF Coming
  <2>2. CASE wire = <<>>  BY <1>a, <1>2, <1>4, <2>2 DEF Coming
  <2>3. QED  BY <2>1, <2>2
<1>6. ASSUME NEW i \in DOMAIN taken' PROVE ShowsPhase(taken'[i], epoch, phase)
  <2>1. Len(taken') = Len(taken) + 1 /\ taken' \in Seq(Slice)
        /\ taken'[Len(taken) + 1] = slice /\ \A k \in 1..Len(taken) : taken'[k] = taken[k]
    BY <1>a, <1>b, AppendProperties
  <2>2. i \in 1..(Len(taken) + 1)  BY <2>1
  <2>3. CASE i = Len(taken) + 1  BY <2>1, <2>3
  <2>4. CASE i # Len(taken) + 1
    <3>1. i \in 1..Len(taken)  BY <1>c, <2>2, <2>4
    <3>2. QED  BY <1>c, <2>1, <3>1 DEF Converging
  <2>5. QED  BY <2>3, <2>4
<1>7. WayLeft(phase)' = WayLeft(phase) /\ WayLeft(Coming)' = WayLeft(Coming)
  BY <1>a, <1>5 DEF WayLeft
<1>8. Len(wire') <= 1  BY <1>1 DEF Converging
<1>9. \A i \in DOMAIN batch' : ShowsPhase(batch'[i], epoch', phase')  BY <1>a DEF Converging
<1>10. \A i \in DOMAIN taken' : ShowsPhase(taken'[i], epoch', phase')  BY <1>a, <1>6
<1>11. thread'.at = "sending" => wire' = <<>> /\ judged' > 0 /\ NearEnough(WayLeft(phase)', judged' - 1)
  BY <1>a, <1>2, <1>4, <1>7 DEF Converging
<1>12. NearEnough(WayLeft(Coming)', judged') /\ AimIsHeld' /\ tardy' = {}
  BY <1>a, <1>7 DEF Converging, AimIsHeld
<1>13. QED  BY <1>3, <1>8, <1>9, <1>10, <1>11, <1>12 DEF Converging

\* A request obeyed brings the phase that was to come.
LEMMA ConvergingObey ==
  ASSUME PhaseTypeOK, Converging, Obey
  PROVE  Converging'
<1> DEFINE W == [delay : 0..(Period - 1), left : Nat, since : Nat]
<1>1. /\ wire \in Seq(W) /\ wire # <<>> /\ wire' = Tail(wire) /\ epoch \in Nat /\ epoch' = epoch + 1
      /\ tardy' = (IF Head(wire).since > Settle THEN tardy \cup {epoch + 1} ELSE tardy)
      /\ phase' = (phase - Head(wire).delay) % Period
      /\ Head(wire).left = 0
      /\ UNCHANGED <<scatter, taken, batch, thread, judged, verdict>>
      /\ taken \in Seq(Slice) /\ batch \in Seq(Slice) /\ Settle \in Nat
  BY PhaseAssumption DEF Obey, PhaseTypeOK
<1>2. Head(wire) \in W /\ Head(wire) = wire[1] /\ wire' = <<>> /\ 1 \in DOMAIN wire
  <2> HIDE DEF W
  <2>1. Head(wire) \in W /\ Head(wire) = wire[1] /\ Tail(wire) \in Seq(W) /\ Len(Tail(wire)) = Len(wire) - 1
    BY <1>1, HeadTailProperties
  <2>2. Len(wire) \in Nat /\ Len(wire) # 0 /\ DOMAIN wire = 1..Len(wire)  BY <1>1, EmptySeq
  <2>3. Len(wire) <= 1  BY DEF Converging
  <2>4. Len(Tail(wire)) = 0  BY <2>1, <2>2, <2>3
  <2>5. Tail(wire) = <<>>  BY <2>1, <2>4, EmptySeq
  <2>6. QED  BY <1>1, <2>1, <2>2, <2>5
<1>3. tardy' = {}
  <2>1. wire[1].since + wire[1].left <= Settle  BY <1>2 DEF Converging
  <2>2. wire[1].since <= Settle /\ wire[1].since \in Nat  BY <1>1, <1>2, <2>1
  <2>3. ~(Head(wire).since > Settle)  BY <1>1, <1>2, <2>2
  <2>4. QED  BY <1>1, <2>3 DEF Converging
<1>4. thread.at # "sending"  BY <1>1 DEF Converging
<1>5. Coming' = Coming  BY <1>1, <1>2, <1>4 DEF Coming
<1>6. ASSUME NEW s, ShowsPhase(s, epoch, phase) PROVE ShowsPhase(s, epoch', phase')
  <2>1. s # Frozen => s.epoch \in Nat /\ s.epoch <= epoch  BY <1>6 DEF ShowsPhase
  <2>2. s # Frozen => s.epoch <= epoch + 1 /\ s.epoch # epoch + 1  BY <1>1, <2>1
  <2>3. QED  BY <1>1, <2>1, <2>2 DEF ShowsPhase
<1>7. (\A i \in DOMAIN batch : ShowsPhase(batch[i], epoch', phase'))
      /\ \A i \in DOMAIN taken : ShowsPhase(taken[i], epoch', phase')
  BY <1>6 DEF Converging
<1>8. WayLeft(Coming)' = WayLeft(Coming)  BY <1>1, <1>5 DEF WayLeft
<1>9. NearEnough(WayLeft(Coming)', judged') /\ AimIsHeld'
  BY <1>1, <1>8 DEF Converging, AimIsHeld
<1>10. Len(wire') <= 1 /\ DOMAIN wire' = {}  BY <1>2
<1>11. QED  BY <1>1, <1>3, <1>4, <1>7, <1>9, <1>10 DEF Converging

LEMMA ConvergingHarvest ==
  ASSUME PhaseTypeOK, Converging, Harvest
  PROVE  Converging'
<1> DEFINE news == SubSeq(taken, ignored + 1, Len(taken))
<1>1. /\ UNCHANGED <<wire, faults, judged, verdict, phase, scatter, epoch, tardy>> /\ taken' = <<>>
      /\ (batch' = <<>> \/ batch' = batch \o news)
      /\ thread'.at # "sending" /\ thread.at # "sending"
  BY DEF Harvest, loopOnly, Asleep
<1>2. batch \in Seq(Slice) /\ news \in Seq(Slice)  BY NewsFacts DEF PhaseTypeOK
<1>3. \A i \in DOMAIN news : ShowsPhase(news[i], epoch, phase)
  <2>1. ASSUME NEW i \in DOMAIN news PROVE ShowsPhase(news[i], epoch, phase)
    <3>1. i + ignored \in DOMAIN taken /\ news[i] = taken[i + ignored]  BY NewsFacts
    <3>2. QED  BY <3>1 DEF Converging
  <2>2. QED  BY <2>1
<1> HIDE DEF news
<1>4. \A i \in DOMAIN batch' : ShowsPhase(batch'[i], epoch, phase)
  <2>1. ASSUME batch' = batch \o news, NEW i \in DOMAIN batch' PROVE ShowsPhase(batch'[i], epoch, phase)
    <3>1. /\ batch' \in Seq(Slice) /\ Len(batch') = Len(batch) + Len(news)
          /\ \A k \in 1..Len(batch) : batch'[k] = batch[k]
          /\ \A k \in 1..Len(news) : batch'[Len(batch) + k] = news[k]
      BY <1>2, <2>1, ConcatProperties
    <3>2. i \in 1..(Len(batch) + Len(news)) /\ Len(batch) \in Nat /\ Len(news) \in Nat
      BY <1>2, <3>1
    <3>3. CASE i <= Len(batch)
      <4>1. i \in 1..Len(batch) /\ i \in DOMAIN batch  BY <1>2, <3>2, <3>3
      <4>2. QED  BY <3>1, <4>1 DEF Converging
    <3>4. CASE i > Len(batch)
      <4>1. i - Len(batch) \in 1..Len(news) /\ i - Len(batch) \in DOMAIN news  BY <1>2, <3>2, <3>4
      <4>2. batch'[Len(batch) + (i - Len(batch))] = news[i - Len(batch)]  BY <3>1, <4>1
      <4>3. Len(batch) + (i - Len(batch)) = i  BY <3>2
      <4>4. QED  BY <1>3, <4>1, <4>2, <4>3
    <3>5. QED  BY <3>2, <3>3, <3>4
  <2>2. DOMAIN <<>> = {}  OBVIOUS
  <2>3. QED  BY <1>1, <2>1, <2>2
<1>5. Coming' = Coming  BY <1>1 DEF Coming
<1>6. WayLeft(Coming)' = WayLeft(Coming)  BY <1>1, <1>5 DEF WayLeft
<1>7. NearEnough(WayLeft(Coming)', judged') /\ AimIsHeld'
  BY <1>1, <1>6 DEF Converging, AimIsHeld
<1>8. DOMAIN taken' = {}  BY <1>1
<1>9. QED  BY <1>1, <1>4, <1>7, <1>8 DEF Converging

\* Every decision is made of one phase, the present one, with nothing on the wire.
LEMMA DecidesOnPresent ==
  ASSUME PhaseTypeOK, BatchesTimely, Converging, Decide
  PROVE  /\ Counts(batch) /\ Centre(batch) = phase
         /\ Coming = phase
<1>1. batch \in Seq(Slice) /\ epoch \in Nat /\ phase \in 0..(Period - 1) /\ wire \in Seq([delay : 0..(Period - 1), left : Nat, since : Nat])
  BY DEF PhaseTypeOK
<1>2. Sampled(batch) # {}  BY DecisionTyped DEF Decide, PhaseTypeOK
<1>3. batch # <<>>
  <2>1. DOMAIN <<>> = {}  OBVIOUS
  <2>2. QED  BY <1>2, <2>1 DEF Sampled
<1>4. wire = <<>>
  <2>1. SUFFICES ASSUME wire # <<>> PROVE FALSE  OBVIOUS
  <2> DEFINE W == [delay : 0..(Period - 1), left : Nat, since : Nat]
  <2>2. 1 \in DOMAIN wire /\ wire[1] \in W
    <3> HIDE DEF W
    <3>1. wire \in Seq(W)  BY <1>1 DEF W
    <3>2. Len(wire) \in Nat /\ Len(wire) # 0 /\ DOMAIN wire = 1..Len(wire)  BY <2>1, <3>1, EmptySeq
    <3>3. 1 \in 1..Len(wire)  BY <3>2
    <3>4. QED  BY <3>1, <3>2, <3>3, ElementOfSeq
  <2>3. wire[1].since + wire[1].left <= Settle /\ wire[1].since \in Nat /\ wire[1].left \in Nat /\ Settle \in Nat
    BY <2>2, PhaseAssumption DEF Converging
  <2>4. wire[1].since <= Settle  BY <2>3
  <2>5. QED  BY <1>3, <2>2, <2>4 DEF BatchesTimely
<1>5. \A i \in Sampled(batch) : batch[i].epoch = epoch /\ batch[i].phase = phase
  <2>1. ASSUME NEW i \in Sampled(batch) PROVE batch[i].epoch = epoch /\ batch[i].phase = phase
    <3>1. i \in DOMAIN batch /\ batch[i] # Frozen  BY DEF Sampled
    <3>2. batch[i].epoch \in Nat /\ batch[i].epoch <= epoch /\ (batch[i].epoch = epoch => batch[i].phase = phase)
      BY <3>1 DEF Converging, ShowsPhase
    <3>3. \A e \in (batch[i].epoch + 1)..epoch : FALSE
      BY <3>1 DEF BatchesTimely, TimelyAt, Converging
    <3>4. batch[i].epoch = epoch
      <4>1. SUFFICES ASSUME batch[i].epoch # epoch PROVE FALSE  OBVIOUS
      <4>2. epoch \in (batch[i].epoch + 1)..epoch  BY <1>1, <3>2, <4>1
      <4>3. QED  BY <3>3, <4>2
    <3>5. QED  BY <3>2, <3>4
  <2>2. QED  BY <2>1
<1>6. Centre(batch) = phase  BY <1>1, <1>2, <1>5, CentreOfOne
<1>7. OnePhase(batch)  BY <1>5 DEF OnePhase
<1>8. thread.at # "sending"  BY DEF Decide
<1>9. QED  BY <1>4, <1>6, <1>7, <1>8 DEF Counts, Coming

LEMMA ConvergingDecide ==
  ASSUME PhaseTypeOK, BatchesTimely, Converging, FiveHalvings, Decide
  PROVE  Converging'
<1> DEFINE e == ErrorOf(phase, MarginFor(scatter))
           way == WayLeft(phase)
           delay == DelayFor(Half(e))
           q == (phase - delay) % Period
<1>1. Counts(batch) /\ Centre(batch) = phase /\ Coming = phase  BY DecidesOnPresent
<1>2. phase \in 0..(Period - 1) /\ MarginFor(scatter) \in 0..(Period - 1) /\ judged \in Nat /\ DeadZone \in Nat
  BY MarginTyped, PhaseAssumption DEF PhaseTypeOK
<1>3. e \in Int /\ way \in Nat /\ way = Magnitude(e)
  <2>1. e \in Int /\ way \in Nat  BY <1>2, WayTyped
  <2>2. QED  BY <2>1 DEF WayLeft
<1>4. /\ UNCHANGED <<phase, scatter, epoch, tardy, taken, wire>> /\ batch' = <<>> /\ wire = <<>>
      /\ judged' = judged + 1 /\ verdict' = e
      /\ IF way <= DeadZone \/ delay = 0
         THEN thread' = Asleep(HarvestEvery)
         ELSE thread' = [at |-> "sending", left |-> 1, delay |-> delay]
  BY <1>1, <1>3 DEF Decide, loopOnly, Counts
<1>5. NearEnough(way, judged)  BY <1>1 DEF Converging
<1>6. /\ delay # 0 => ErrorOf(q, MarginFor(scatter)) = e - Half(e)
      /\ delay = 0 => way <= 1
  BY <1>2, <1>3, ShiftHalves
<1>7. /\ Magnitude(e - Half(e)) \in Nat /\ Magnitude(e - Half(e)) <= way
      /\ e # 0 => 2 * (Magnitude(e - Half(e)) - 1) <= way - 1
      /\ way > DeadZone => e # 0
  <2>1. way > DeadZone => e # 0  BY <1>2, <1>3 DEF Magnitude
  <2>2. QED  BY <1>3, <2>1, HalvingBound
<1>8. \A p : (WayLeft(p))' = Magnitude(ErrorOf(p, MarginFor(scatter)))'  BY DEF WayLeft
<1>9. WayLeft(phase)' = way  BY <1>4 DEF WayLeft
<1> HIDE DEF way
<1>10. NearEnough(WayLeft(Coming)', judged')
  <2>1. CASE way <= DeadZone \/ delay = 0
    <3>1. Coming' = phase  BY <1>4, <2>1 DEF Coming, Asleep
    <3>2. WayLeft(Coming)' = way  BY <1>4, <3>1 DEF WayLeft, way
    <3>3. way <= DeadZone => NearEnough(way, judged + 1)  BY <1>2, <1>3, <1>5, Nearing
    <3>4. way <= 1 => NearEnough(way, judged + 1)
      <4>1. way <= 1 => way <= way /\ 2 * (way - 1) <= way - 1  BY <1>3
      <4>2. QED  BY <1>2, <1>3, <1>5, <4>1, Nearing
    <3>5. QED  BY <1>4, <1>6, <2>1, <3>2, <3>3, <3>4
  <2>2. CASE ~(way <= DeadZone \/ delay = 0)
    <3>1. Coming' = q  BY <1>4, <2>2 DEF Coming
    <3>2. WayLeft(Coming)' = Magnitude(e - Half(e))  BY <1>4, <1>6, <2>2, <3>1 DEF WayLeft
    <3>3. e # 0  BY <1>2, <1>3, <1>7, <2>2
    <3>4. NearEnough(Magnitude(e - Half(e)), judged + 1)  BY <1>2, <1>3, <1>5, <1>7, <3>3, Nearing
    <3>5. QED  BY <1>4, <3>2, <3>4
  <2>3. QED  BY <2>1, <2>2
<1>11. AimIsHeld'
  <2>1. judged + 1 > 5 => judged >= 5  BY <1>2
  <2>2. judged >= 5 => way <= DeadZone  BY <1>2, <1>3, <1>5, Nearing DEF FiveHalvings
  <2>3. QED  BY <1>3, <1>4, <2>1, <2>2 DEF AimIsHeld
<1>12. thread'.at = "sending" => wire' = <<>> /\ judged' > 0 /\ NearEnough(WayLeft(phase)', judged' - 1)
  <2>1. judged' > 0 /\ judged' - 1 = judged  BY <1>2, <1>4
  <2>2. QED  BY <1>4, <1>5, <1>9, <2>1
<1>13. DOMAIN batch' = {}  BY <1>4
<1>14. QED  BY <1>4, <1>10, <1>11, <1>12, <1>13 DEF Converging

LEMMA ConvergingAsk ==
  ASSUME PhaseTypeOK, Converging, Punctual, NEW landing \in Landings, Ask(landing)
  PROVE  Converging'
<1> DEFINE r == [delay |-> thread.delay, left |-> landing, since |-> 0]
<1>1. /\ wire' = Append(wire, r) /\ thread' = Asleep(HarvestEvery) /\ thread.at = "sending"
      /\ UNCHANGED <<taken, batch, judged, verdict, phase, scatter, epoch, tardy>>
  BY DEF Ask, loopOnly
<1>2. wire = <<>>  BY <1>1 DEF Converging
<1>3. wire' = <<r>>  BY <1>1, <1>2
<1>4. DOMAIN wire' = {1} /\ wire'[1] = r /\ Len(wire') = 1 /\ wire' # <<>>  BY <1>3
<1>5. landing \in 1..Settle /\ Settle \in Nat  BY PhaseAssumption DEF Punctual
<1>6. \A i \in DOMAIN wire' : wire'[i].since + wire'[i].left <= Settle  BY <1>4, <1>5
<1>7. Coming' = Coming  BY <1>1, <1>2, <1>4 DEF Coming
<1>8. WayLeft(Coming)' = WayLeft(Coming)  BY <1>1, <1>7 DEF WayLeft
<1>9. NearEnough(WayLeft(Coming)', judged') /\ AimIsHeld'
  BY <1>1, <1>8 DEF Converging, AimIsHeld
<1>10. thread'.at # "sending"  BY <1>1 DEF Asleep
<1>11. QED  BY <1>1, <1>4, <1>6, <1>9, <1>10 DEF Converging

LEMMA ConvergingAskFails ==
  ASSUME PhaseTypeOK, Converging, AskFails
  PROVE  Converging'
<1>1. /\ thread' = Asleep(HarvestEvery) /\ thread.at = "sending" /\ judged' = Max({judged - 1, 0})
      /\ UNCHANGED <<taken, batch, wire, verdict, phase, scatter, epoch, tardy>>
  BY DEF AskFails, loopOnly
<1>2. wire = <<>> /\ judged > 0 /\ NearEnough(WayLeft(phase), judged - 1) /\ judged \in Nat
  BY <1>1 DEF Converging, PhaseTypeOK
<1>3. judged' = judged - 1
  <2>1. judged - 1 \in Int /\ judged - 1 >= 0  BY <1>2
  <2>2. Max({judged - 1, 0}) = judged - 1  BY <2>1, ClampTyped, Zenon
  <2>3. QED  BY <1>1, <2>2
<1>4. Coming' = phase /\ thread'.at # "sending"  BY <1>1, <1>2 DEF Coming, Asleep
<1>5. WayLeft(Coming)' = WayLeft(phase)  BY <1>1, <1>4 DEF WayLeft
<1>6. NearEnough(WayLeft(Coming)', judged')  BY <1>2, <1>3, <1>5
<1>7. AimIsHeld'
  <2>1. judged - 1 > 5 => judged > 5  BY <1>2
  <2>2. QED  BY <1>1, <1>3, <2>1 DEF Converging, AimIsHeld
<1>8. QED  BY <1>1, <1>4, <1>6, <1>7 DEF Converging

LEMMA ConvergingDecline ==
  ASSUME PhaseTypeOK, Converging, Decline
  PROVE  Converging'
<1>1. /\ thread' = Asleep(HarvestEvery) /\ thread.at # "sending" /\ batch' = <<>>
      /\ UNCHANGED <<taken, wire, judged, verdict, phase, scatter, epoch, tardy>>
  BY DEF Decline, loopOnly
<1>2. Coming' = Coming /\ thread'.at # "sending"  BY <1>1 DEF Coming, Asleep
<1>3. WayLeft(Coming)' = WayLeft(Coming)  BY <1>1, <1>2 DEF WayLeft
<1>4. NearEnough(WayLeft(Coming)', judged') /\ AimIsHeld'
  BY <1>1, <1>3 DEF Converging, AimIsHeld
<1>5. DOMAIN batch' = {}  BY <1>1
<1>6. QED  BY <1>1, <1>2, <1>4, <1>5 DEF Converging

LEMMA ConvergingStep ==
  ASSUME PhaseTypeOK, BatchesTimely, Converging, Punctual, FiveHalvings, [PhaseNext]_phaseVars
  PROVE  Converging'
<1>1. CASE Flow
  <2>1. [phase |-> phase, epoch |-> epoch] \in Slice /\ epoch \in Nat  BY DEF Slice, PhaseTypeOK
  <2>2. ShowsPhase([phase |-> phase, epoch |-> epoch], epoch, phase)  BY <2>1 DEF ShowsPhase
  <2>3. QED  BY <1>1, <2>1, <2>2, ConvergingPass DEF Flow
<1>2. CASE Freeze
  <2>1. Frozen \in Slice /\ ShowsPhase(Frozen, epoch, phase)  BY DEF Slice, ShowsPhase
  <2>2. QED  BY <1>2, <2>1, ConvergingPass DEF Freeze
<1>3. CASE Obey  BY <1>3, ConvergingObey
<1>4. CASE Harvest  BY <1>4, ConvergingHarvest
<1>5. CASE Decline  BY <1>5, ConvergingDecline
<1>6. CASE Decide  BY <1>6, ConvergingDecide
<1>7. ASSUME NEW landing \in Landings, Ask(landing) PROVE Converging'  BY <1>7, ConvergingAsk
<1>8. CASE AskFails  BY <1>8, ConvergingAskFails
<1>9. CASE UNCHANGED phaseVars
  <2>1. UNCHANGED phaseVars  BY <1>9
  <2>2. WayLeft(phase)' = WayLeft(phase) /\ WayLeft(Coming)' = WayLeft(Coming)
    BY <2>1 DEF WayLeft, Coming, phaseVars
  <2>3. /\ (NearEnough(WayLeft(Coming), judged))' /\ AimIsHeld'
        /\ (thread.at = "sending" => wire = <<>> /\ judged > 0 /\ NearEnough(WayLeft(phase), judged - 1))'
    BY <2>1, <2>2 DEF Converging, AimIsHeld, phaseVars
  <2>4. QED  BY <2>1, <2>3 DEF Converging, phaseVars
<1>10. QED  BY <1>1, <1>2, <1>3, <1>4, <1>5, <1>6, <1>7, <1>8, <1>9 DEF PhaseNext

\* For every period, floor, dead zone, scatter and onset whose half period five
\* halvings bring into the dead zone, and a host that obeys within the settle window:
\* a batch never mixes the sides of a request, and from the sixth judgement on the
\* phase measured is in the dead zone of its aim.
THEOREM AimIsReached ==
  ASSUME Punctual, FiveHalvings
  PROVE  PhaseSpec => []PhaseIsHeld
<1>1. PhaseInit => BatchesTimely /\ Converging  BY BatchesTimelyInit, ConvergingInit
<1>2. PhaseTypeOK /\ BatchesTimely /\ Converging /\ [PhaseNext]_phaseVars => BatchesTimely' /\ Converging'
  BY BatchesTimelyStep, ConvergingStep
<1>3. PhaseTypeOK /\ BatchesTimely /\ Converging => PhaseIsHeld
  BY TimelySuffices DEF PhaseIsHeld, Converging
<1>4. QED  BY <1>1, <1>2, <1>3, PhaseTypeCorrect, PTL DEF PhaseSpec
=============================================================================
