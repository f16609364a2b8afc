------------------------------ MODULE Telemetry ------------------------------
(***************************************************************************)
(* The marks of a frame's life, from the threads that touch it to the      *)
(* statistics (crates/telemetry: recorder.rs and collector.rs): a bounded  *)
(* queue that drops rather than blocks, the collector thread with its ring *)
(* of frames being assembled, and the two calls that claim to see          *)
(* everything, flush and shutdown.                                         *)
(*                                                                         *)
(* A mark is a frame and a stage; the times and clocks, and the histograms *)
(* made of them, are left out.  PresentStage ends a frame.  The            *)
(* collector's idle wait always times out, so it is only a place to be.    *)
(***************************************************************************)
EXTENDS Integers, Sequences, FiniteSets

CONSTANTS Frames,        \* frame numbers that are marked
          Stages,        \* the stages of a frame
          PresentStage,  \* Stage::PresentSubmit
          QueueCapacity,
          RingSlots,
          MaxMarks,      \* bound: marks made in a run
          MaxFolds       \* bound: turns of the collector before it is stopped

ASSUME TelemetryAssumption ==
    /\ Frames \subseteq Nat /\ PresentStage \in Stages
    /\ QueueCapacity \in Nat \ {0} /\ RingSlots \in Nat \ {0} /\ MaxMarks \in Nat
    /\ MaxFolds \in Nat

VARIABLES marks,      \* Channel.queue, oldest first
          made,       \* marks recorded so far: queued, and dropped for want of room
          collector,  \* where the collector thread is
          drained,    \* events the current drain has taken
          slots,      \* the ring: empty, collecting a timeline, or finalized
          completed,  \* timelines taken out of the ring and not folded yet
          pending,    \* Pending: started, duplicates, late, events
          counters,   \* Counters: what a snapshot shows
          folds,      \* Shared.folds
          running,    \* Shared.running
          flush       \* the caller of flush: where it is, its target, and (a
                      \* ghost) the marks queued when it asked

telemetryVars == <<marks, made, collector, drained, slots, completed, pending,
                   counters, folds, running, flush>>

Event == [frame : Frames, stage : Stages]
SlotIndex == 0..(RingSlots - 1)
NoFrame == -1
RingSlot(is, f, s) == [is |-> is, frame |-> f, stages |-> s]
Empty == RingSlot("empty", NoFrame, {})
Collecting(f, s) == RingSlot("collecting", f, s)
Finalized(f) == RingSlot("finalized", f, {})
NothingPending == [started |-> 0, duplicates |-> 0, late |-> 0, events |-> 0]

TelemetryInit ==
    /\ marks = <<>>
    /\ made = [queued |-> 0, dropped |-> 0]
    /\ collector = "looping"
    /\ drained = 0
    /\ slots = [i \in SlotIndex |-> Empty]
    /\ completed = <<>>
    /\ pending = NothingPending
    /\ counters = [recorded |-> 0, started |-> 0, duplicates |-> 0, late |-> 0,
                   presented |-> 0, incomplete |-> 0]
    /\ folds = 0
    /\ running = TRUE
    /\ flush = [at |-> "none", target |-> 0, before |-> 0]

-----------------------------------------------------------------------------
(* Recorders. *)

\* Recorder::mark: any thread, any frame; a full queue drops the mark and
\* counts it.
Record(e) ==
    /\ made.queued + made.dropped < MaxMarks
    /\ IF Len(marks) < QueueCapacity
       THEN marks' = Append(marks, e) /\ made' = [made EXCEPT !.queued = @ + 1]
       ELSE marks' = marks /\ made' = [made EXCEPT !.dropped = @ + 1]
    /\ UNCHANGED <<collector, drained, slots, completed, pending, counters, folds, running, flush>>

-----------------------------------------------------------------------------
(* The collector. *)

collectorOnly == <<made, running, flush>>

\* The loop's condition; the pass after it is cleared is the last one.
Loop ==
    /\ collector = "looping"
    /\ running => folds < MaxFolds
    /\ collector' = IF running THEN "draining" ELSE "last drain"
    /\ drained' = 0
    /\ UNCHANGED <<marks, slots, completed, pending, counters, folds, collectorOnly>>

Draining == collector \in {"draining", "last drain"}

\* A frame whose slot is taken by another never presented.
Retired(slot) ==
    IF slot.is = "collecting" THEN <<[frame |-> slot.frame, stages |-> slot.stages]>> ELSE <<>>

\* ingest, of a mark of the frame the slot is collecting.
AddMark(i, e) ==
    LET stages == slots[i].stages \cup {e.stage}
    IN  /\ pending' = [pending EXCEPT
                         !.duplicates = @ + (IF e.stage \in slots[i].stages THEN 1 ELSE 0)]
        /\ IF e.stage = PresentStage
           THEN /\ slots' = [slots EXCEPT ![i] = Finalized(e.frame)]
                /\ completed' = Append(completed, [frame |-> e.frame, stages |-> stages])
           ELSE /\ slots' = [slots EXCEPT ![i] = Collecting(e.frame, stages)]
                /\ UNCHANGED completed

\* ingest, of the first mark of a frame.
OpenFrame(i, e) ==
    LET retired == completed \o Retired(slots[i])
    IN  /\ pending' = [pending EXCEPT !.started = @ + 1]
        /\ IF e.stage = PresentStage
           THEN /\ slots' = [slots EXCEPT ![i] = Finalized(e.frame)]
                /\ completed' = Append(retired, [frame |-> e.frame, stages |-> {e.stage}])
           ELSE /\ slots' = [slots EXCEPT ![i] = Collecting(e.frame, {e.stage})]
                /\ completed' = retired

\* drain, one event: pop and ingest.
Ingest ==
    /\ Draining /\ marks # <<>>
    /\ LET e == Head(marks)
           i == e.frame % RingSlots
       IN  \/ slots[i].is = "collecting" /\ slots[i].frame = e.frame /\ AddMark(i, e)
           \/ /\ slots[i] = Finalized(e.frame)
              /\ pending' = [pending EXCEPT !.late = @ + 1]
              /\ UNCHANGED <<slots, completed>>
           \/ slots[i].frame # e.frame /\ OpenFrame(i, e)
    /\ marks' = Tail(marks)
    /\ drained' = drained + 1
    /\ UNCHANGED <<collector, counters, folds, collectorOnly>>

\* drain finds the queue empty.
Drained ==
    /\ Draining /\ marks = <<>>
    /\ pending' = [pending EXCEPT !.events = @ + drained]
    /\ collector' = IF collector = "draining" THEN "folding" ELSE "sweeping"
    /\ UNCHANGED <<marks, drained, slots, completed, counters, folds, collectorOnly>>

\* The final pass: every frame stuck in the ring is taken out of it, in order.
Stuck == {i \in SlotIndex : slots[i].is = "collecting"}

SweepSlot(i) ==
    /\ collector = "sweeping" /\ \A j \in Stuck : i =< j
    /\ completed' = completed \o Retired(slots[i])
    /\ slots' = [slots EXCEPT ![i] = Empty]
    /\ UNCHANGED <<marks, collector, drained, pending, counters, folds, collectorOnly>>

Swept ==
    /\ collector = "sweeping" /\ Stuck = {}
    /\ slots' = [i \in SlotIndex |-> Empty]
    /\ collector' = "last fold"
    /\ UNCHANGED <<marks, drained, completed, pending, counters, folds, collectorOnly>>

Presented == {n \in DOMAIN completed : PresentStage \in completed[n].stages}

\* fold, up to the release of the lock: a snapshot sees all of it or none.
Fold ==
    /\ collector \in {"folding", "last fold"}
    /\ counters' = [recorded |-> counters.recorded + pending.events,
                    started |-> counters.started + pending.started,
                    duplicates |-> counters.duplicates + pending.duplicates,
                    late |-> counters.late + pending.late,
                    presented |-> counters.presented + Cardinality(Presented),
                    incomplete |-> counters.incomplete + Len(completed) - Cardinality(Presented)]
    /\ pending' = NothingPending
    /\ completed' = <<>>
    /\ collector' = IF collector = "folding" THEN "folded" ELSE "last folded"
    /\ UNCHANGED <<marks, drained, slots, folds, collectorOnly>>

\* fold counts itself, and a pass that found nothing waits a while.
Folded ==
    /\ collector \in {"folded", "last folded"}
    /\ folds' = folds + 1
    /\ collector' = IF collector = "last folded" THEN "ended"
                    ELSE IF drained = 0 THEN "idle" ELSE "looping"
    /\ UNCHANGED <<marks, drained, slots, completed, pending, counters, collectorOnly>>

Wake ==
    /\ collector = "idle"
    /\ collector' = "looping"
    /\ UNCHANGED <<marks, drained, slots, completed, pending, counters, folds, collectorOnly>>

-----------------------------------------------------------------------------
(* The callers. *)

callersOnly == <<marks, made, collector, drained, slots, completed, pending, counters, folds>>

\* Defect: one fold is waited for, the one that may be under way.
AskFlush_NextFold ==
    /\ running /\ flush.at \notin {"asking", "saw empty"}
    /\ flush' = [at |-> "asking", target |-> folds + 1, before |-> made.queued]
    /\ UNCHANGED <<running, callersOnly>>

\* flush: two folds from now, for the one under way may have drained already.
AskFlush ==
    /\ running /\ flush.at \notin {"asking", "saw empty"}
    /\ flush' = [at |-> "asking", target |-> folds + 2, before |-> made.queued]
    /\ UNCHANGED <<running, callersOnly>>

\* The two halves of its condition are read apart.
SeeEmpty ==
    /\ flush.at = "asking" /\ marks = <<>>
    /\ flush' = [flush EXCEPT !.at = "saw empty"]
    /\ UNCHANGED <<running, callersOnly>>

SeeFolds ==
    /\ flush.at = "saw empty"
    /\ flush' = [flush EXCEPT !.at = IF folds >= flush.target THEN "flushed" ELSE "asking"]
    /\ UNCHANGED <<running, callersOnly>>

\* The deadline passes first: the caller is told so.
FlushTimesOut ==
    /\ flush.at = "asking"
    /\ flush' = [flush EXCEPT !.at = "gave up"]
    /\ UNCHANGED <<running, callersOnly>>

\* stop, which takes the Telemetry by value: nobody is in flush.
Stop ==
    /\ running /\ flush.at \notin {"asking", "saw empty"}
    /\ running' = FALSE
    /\ flush' = [at |-> "stopped", target |-> 0, before |-> made.queued]
    /\ UNCHANGED callersOnly

TelemetryNext ==
    \/ \E e \in Event : Record(e)
    \/ Loop \/ Ingest \/ Drained
    \/ (\E i \in Stuck : SweepSlot(i)) \/ Swept \/ Fold \/ Folded \/ Wake
    \/ AskFlush \/ SeeEmpty \/ SeeFolds \/ FlushTimesOut \/ Stop

TelemetrySpec == TelemetryInit /\ [][TelemetryNext]_telemetryVars

-----------------------------------------------------------------------------
Timeline == [frame : Frames, stages : SUBSET Stages]
SlotState == {Empty} \cup [is : {"finalized"}, frame : Frames, stages : {{}}]
          \cup [is : {"collecting"}, frame : Frames, stages : SUBSET Stages]

TelemetryTypeOK ==
    /\ marks \in Seq(Event) /\ Len(marks) =< QueueCapacity
    /\ made \in [queued : Nat, dropped : Nat]
    /\ collector \in {"looping", "draining", "folding", "folded", "idle", "last drain",
                      "sweeping", "last fold", "last folded", "ended"}
    /\ drained \in Nat /\ folds \in Nat /\ running \in BOOLEAN
    /\ slots \in [SlotIndex -> SlotState]
    /\ completed \in Seq(Timeline)
    /\ pending \in [started : Nat, duplicates : Nat, late : Nat, events : Nat]
    /\ counters \in [recorded : Nat, started : Nat, duplicates : Nat, late : Nat,
                     presented : Nat, incomplete : Nat]
    /\ flush \in [at : {"none", "asking", "saw empty", "flushed", "gave up", "stopped"},
                  target : Nat, before : Nat]

\* "Blocks until every mark recorded so far has been folded into the stats"
\* (collector.rs): a flush that says so has folded every mark queued before it
\* was called, although it reads the queue and the fold count apart and the
\* collector may have been anywhere; and the snapshot of a shutdown has them
\* too, with every frame it started told as presented or as incomplete.
SnapshotsAreWhole ==
    /\ flush.at = "flushed" => counters.recorded >= flush.before
    /\ collector = "ended" =>
         /\ counters.recorded >= flush.before
         /\ counters.started = counters.presented + counters.incomplete
=============================================================================
