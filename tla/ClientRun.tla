------------------------------ MODULE ClientRun ------------------------------
(***************************************************************************)
(* One run of the client over a LAN, from the decoder on: the receive      *)
(* thread that submits completed units (macos/client/src/transport.rs),    *)
(* VideoToolbox and its output callback (macos/decoder-videotoolbox), the  *)
(* slot that holds the newest picture and the renderer that takes it       *)
(* (macos/renderer-metal), the watchdog that ends the run, and the main    *)
(* thread that joins the others and reports (macos/client/src/session.rs). *)
(*                                                                         *)
(* Units are the numbers 1..MaxUnits, in the order the depacketizer hands  *)
(* them over.  VideoToolbox is external: it takes or rejects a unit and    *)
(* calls back once, in order, for each one taken, until it is invalidated. *)
(* The watchdog's clock is counted in its own polls.                       *)
(***************************************************************************)
EXTENDS Integers, Sequences

CONSTANTS MaxUnits,   \* bound: units the host sends
          MaxTicks,   \* bound: refreshes the run sees
          GracePolls, \* HOST_STARTUP_GRACE in polls (bound: 60 in the code)
          IdlePolls,  \* STREAM_IDLE_TIMEOUT in polls (bound: 40 in the code)
          RunPolls,   \* the length of the run in polls
          NoFrame

ASSUME RunAssumption ==
    /\ MaxUnits \in Nat /\ MaxTicks \in Nat
    /\ GracePolls \in Nat \ {0} /\ IdlePolls \in Nat \ {0} /\ RunPolls \in Nat \ {0}
    /\ NoFrame \notin Nat

VARIABLES main,      \* the main thread
          stop,      \* the flag every thread watches
          receiver,  \* the receive thread: where it is, and units submitted so far
          progress,  \* units handed to the decoder, as the watchdog sees them
          inFlight,  \* Shared.in_flight
          tally,     \* Shared.decoded, dropped and errors
          trailing,  \* the backlog read after the flush
          queue,     \* units inside VideoToolbox, oldest first
          callback,  \* the output callback that is running
          slot,      \* LatestFrameSlot: frame, published, superseded
          render,    \* the render loop: where it is, and the frame it took
          counters,  \* LiveCounters: callbacks, rendered, empty_ticks, missed_drawables
          watchdog,  \* its loop: where it is, polls left, last_seen, idle polls
          span       \* SpanEnd, with the rendered count of the same moment

runVars == <<main, stop, receiver, progress, inFlight, tally, trailing, queue,
             callback, slot, render, counters, watchdog, span>>

Unit == 1..MaxUnits
NoCallback == [at |-> "none", frame |-> NoFrame, displaced |-> FALSE]
FreshCounters == [callbacks |-> 0, rendered |-> 0, empty |-> 0, missed |-> 0]

RunInit ==
    /\ main = "starting"
    /\ stop = FALSE
    /\ receiver = [at |-> "none", taken |-> 0]
    /\ progress = 0
    /\ inFlight = 0
    /\ tally = [decoded |-> 0, dropped |-> 0, errors |-> 0]
    /\ trailing = 0
    /\ queue = <<>>
    /\ callback = NoCallback
    /\ slot = [frame |-> NoFrame, published |-> 0, superseded |-> 0]
    /\ render = [at |-> "none", frame |-> NoFrame]
    /\ counters = FreshCounters
    /\ watchdog = [at |-> "none", left |-> GracePolls, seen |-> 0, idle |-> 0]
    /\ span = FreshCounters

\* run: the threads are there and the renderer has the main thread.
Start ==
    /\ main = "starting"
    /\ main' = "rendering"
    /\ receiver' = [receiver EXCEPT !.at = "top"]
    /\ render' = [render EXCEPT !.at = "idle"]
    /\ watchdog' = [watchdog EXCEPT !.at = "polling"]
    /\ UNCHANGED <<stop, progress, inFlight, tally, trailing, queue, callback, slot, counters, span>>

-----------------------------------------------------------------------------
(* The receive thread. *)

receiveOnly == <<main, stop, callback, slot, render, counters, watchdog, span>>

\* The loop's condition, read once for every datagram.
Turn ==
    /\ receiver.at = "top"
    /\ receiver' = [receiver EXCEPT !.at = IF stop THEN "flushing" ELSE "receiving"]
    /\ UNCHANGED <<progress, inFlight, tally, trailing, queue, receiveOnly>>

\* A read that timed out, or a datagram that completed nothing.
NothingCompleted ==
    /\ receiver.at = "receiving"
    /\ receiver' = [receiver EXCEPT !.at = "top"]
    /\ UNCHANGED <<progress, inFlight, tally, trailing, queue, receiveOnly>>

\* submit fails before the mark: no sample buffer can be made of the unit.
NoSample ==
    /\ receiver.at = "receiving"
    /\ receiver.taken < MaxUnits
    /\ receiver' = [at |-> "failing", taken |-> receiver.taken + 1]
    /\ UNCHANGED <<progress, inFlight, tally, trailing, queue, receiveOnly>>

\* submit, up to the call into VideoToolbox: mark_submit.
MarkSubmit ==
    /\ receiver.at = "receiving"
    /\ receiver.taken < MaxUnits
    /\ receiver' = [at |-> "submitting", taken |-> receiver.taken + 1]
    /\ inFlight' = inFlight + 1
    /\ UNCHANGED <<progress, tally, trailing, queue, receiveOnly>>

\* VideoToolbox has the unit; its callback may run before submit returns.
Taken ==
    /\ receiver.at = "submitting"
    /\ receiver' = [receiver EXCEPT !.at = "submitted"]
    /\ queue' = Append(queue, receiver.taken)
    /\ UNCHANGED <<progress, inFlight, tally, trailing, receiveOnly>>

\* Defect: the rejected unit stays in the backlog.
Rejected_Kept ==
    /\ receiver.at = "submitting"
    /\ receiver' = [receiver EXCEPT !.at = "failing"]
    /\ tally' = [tally EXCEPT !.errors = @ + 1]
    /\ UNCHANGED <<progress, inFlight, trailing, queue, receiveOnly>>

\* rollback_submit, and the error ends the thread.
Rejected ==
    /\ receiver.at = "submitting"
    /\ receiver' = [receiver EXCEPT !.at = "failing"]
    /\ inFlight' = inFlight - 1
    /\ tally' = [tally EXCEPT !.errors = @ + 1]
    /\ UNCHANGED <<progress, trailing, queue, receiveOnly>>

\* The decoder is dropped with the thread: invalidate waits for the callback
\* that is running and lets no other run.
Invalidate ==
    /\ receiver.at = "failing"
    /\ callback = NoCallback
    /\ receiver' = [receiver EXCEPT !.at = "failed"]
    /\ queue' = <<>>
    /\ UNCHANGED <<progress, inFlight, tally, trailing, receiveOnly>>

Submitted ==
    /\ receiver.at = "submitted"
    /\ receiver' = [receiver EXCEPT !.at = "top"]
    /\ progress' = progress + 1
    /\ UNCHANGED <<inFlight, tally, trailing, queue, receiveOnly>>

\* flush waits for every callback; then the backlog is read once more.
Flush ==
    /\ receiver.at = "flushing"
    /\ queue = <<>> /\ callback = NoCallback
    /\ receiver' = [receiver EXCEPT !.at = "done"]
    /\ trailing' = inFlight
    /\ UNCHANGED <<progress, inFlight, tally, queue, receiveOnly>>

\* VideoToolbox may refuse the wait itself.
FlushFails ==
    /\ receiver.at = "flushing"
    /\ receiver' = [receiver EXCEPT !.at = "failing"]
    /\ UNCHANGED <<progress, inFlight, tally, trailing, queue, receiveOnly>>

-----------------------------------------------------------------------------
(* The output callback, on VideoToolbox's thread. *)

callbackOnly == <<main, stop, receiver, progress, trailing, render, counters, watchdog, span>>

\* The next unit comes back: with a picture for the sink, without one, or with
\* a status.
CallBack(outcome) ==
    /\ callback = NoCallback
    /\ queue # <<>>
    /\ queue' = Tail(queue)
    /\ callback' = [at |-> outcome, frame |-> Head(queue), displaced |-> FALSE]
    /\ UNCHANGED <<inFlight, tally, slot, callbackOnly>>

\* publish, under the slot's lock.
Replace ==
    /\ callback.at = "delivered"
    /\ slot' = [slot EXCEPT !.frame = callback.frame]
    /\ callback' = [callback EXCEPT !.at = "replaced", !.displaced = slot.frame # NoFrame]
    /\ UNCHANGED <<inFlight, tally, queue, callbackOnly>>

\* publish, the counts behind the lock.
Count ==
    /\ callback.at = "replaced"
    /\ slot' = [slot EXCEPT !.published = @ + 1,
                            !.superseded = IF callback.displaced THEN @ + 1 ELSE @]
    /\ callback' = [callback EXCEPT !.at = "decoded"]
    /\ UNCHANGED <<inFlight, tally, queue, callbackOnly>>

\* The end of the callback: out of the backlog only after the sink has run,
\* then the count its outcome belongs to.
Settle ==
    /\ callback.at \in {"decoded", "dropped", "errors"}
    /\ inFlight' = inFlight - 1
    /\ tally' = [tally EXCEPT ![callback.at] = @ + 1]
    /\ callback' = NoCallback
    /\ UNCHANGED <<queue, slot, callbackOnly>>

-----------------------------------------------------------------------------
(* The render loop, on the main thread. *)

renderOnly == <<stop, receiver, progress, inFlight, tally, trailing, queue, callback, watchdog, span>>

\* A refresh, or in immediate mode one pass of the loop.
Tick ==
    /\ render.at = "idle"
    /\ counters.callbacks < MaxTicks
    /\ counters' = [counters EXCEPT !.callbacks = @ + 1]
    /\ render' = [render EXCEPT !.at = "tick"]
    /\ UNCHANGED <<main, slot, renderOnly>>

TakeNothing ==
    /\ render.at = "tick"
    /\ slot.frame = NoFrame
    /\ counters' = [counters EXCEPT !.empty = @ + 1]
    /\ render' = [render EXCEPT !.at = "idle"]
    /\ UNCHANGED <<main, slot, renderOnly>>

\* Defect: the frame is shown from the slot and left in it.
TakeFrame_Peek ==
    /\ render.at = "tick"
    /\ slot.frame # NoFrame
    /\ render' = [at |-> "drawing", frame |-> slot.frame]
    /\ UNCHANGED <<main, slot, counters, renderOnly>>

TakeFrame ==
    /\ render.at = "tick"
    /\ slot.frame # NoFrame
    /\ render' = [at |-> "drawing", frame |-> slot.frame]
    /\ slot' = [slot EXCEPT !.frame = NoFrame]
    /\ UNCHANGED <<main, counters, renderOnly>>

\* present.
Present ==
    /\ render.at = "drawing"
    /\ counters' = [counters EXCEPT !.rendered = @ + 1]
    /\ render' = [at |-> "idle", frame |-> NoFrame]
    /\ UNCHANGED <<main, slot, renderOnly>>

\* Immediate mode, with no drawable to be had: the frame is let go.
MissDrawable ==
    /\ render.at = "drawing"
    /\ counters' = [counters EXCEPT !.missed = @ + 1]
    /\ render' = [at |-> "idle", frame |-> NoFrame]
    /\ UNCHANGED <<main, slot, renderOnly>>

\* Defect: the flag is looked at after a refresh only.
CloseRenderer_AfterTick ==
    /\ main = "rendering" /\ render.at = "idle"
    /\ stop /\ counters.callbacks < MaxTicks
    /\ main' = "joining"
    /\ render' = [render EXCEPT !.at = "closed"]
    /\ UNCHANGED <<slot, counters, renderOnly>>

\* should_stop, looked at every 50 ms even when the display link is
\* suspended and no refresh comes.
CloseRenderer ==
    /\ main = "rendering" /\ render.at = "idle"
    /\ stop
    /\ main' = "joining"
    /\ render' = [render EXCEPT !.at = "closed"]
    /\ UNCHANGED <<slot, counters, renderOnly>>

\* A draw failed: run sets the flag and the client returns without joining.
RenderFails ==
    /\ render.at = "drawing"
    /\ main' = "failed"
    /\ stop' = TRUE
    /\ render' = [at |-> "closed", frame |-> NoFrame]
    /\ UNCHANGED <<slot, counters, receiver, progress, inFlight, tally, trailing, queue,
                   callback, watchdog, span>>

-----------------------------------------------------------------------------
(* The watchdog and the end of the run. *)

watchOnly == <<receiver, progress, inFlight, tally, trailing, queue, callback, slot, render, counters>>

\* The loop's condition, before the sleep: the flag may be set during it.
WatchSleep ==
    /\ watchdog.at = "polling"
    /\ ~stop /\ watchdog.left > 0
    /\ watchdog' = [watchdog EXCEPT !.at = "asleep"]
    /\ UNCHANGED <<main, stop, span, watchOnly>>

\* One poll: progress starts the run's own clock, restarts the idle count and
\* has the counters copied; none for IdlePolls of them ends the stream.
WatchPoll ==
    /\ watchdog.at = "asleep"
    /\ IF progress # watchdog.seen
       THEN watchdog' = [at |-> "marking", seen |-> progress, idle |-> 0,
                         left |-> IF watchdog.seen = 0 THEN RunPolls ELSE watchdog.left - 1]
       ELSE LET idle == IF watchdog.seen > 0 THEN watchdog.idle + 1 ELSE 0
            IN watchdog' = [watchdog EXCEPT !.at = IF idle >= IdlePolls THEN "ending" ELSE "polling",
                                            !.idle = idle, !.left = @ - 1]
    /\ UNCHANGED <<main, stop, span, watchOnly>>

\* SpanEnd::mark.
Mark ==
    /\ watchdog.at = "marking"
    /\ span' = counters
    /\ watchdog' = [watchdog EXCEPT !.at = "polling"]
    /\ UNCHANGED <<main, stop, watchOnly>>

\* The loop is over, by the clock, by idleness or because another thread said
\* so: stream_ended, and the flag.
WatchEnds ==
    /\ \/ watchdog.at = "ending"
       \/ watchdog.at = "polling" /\ (stop \/ watchdog.left <= 0)
    /\ watchdog' = [watchdog EXCEPT !.at = "ended"]
    /\ stop' = TRUE
    /\ UNCHANGED <<main, span, watchOnly>>

\* pipeline.join: the outcome, or the receive thread's error.
Join ==
    /\ main = "joining"
    /\ receiver.at \in {"done", "failed"}
    /\ main' = IF receiver.at = "done" THEN "reported" ELSE "failed"
    /\ UNCHANGED <<stop, watchdog, span, watchOnly>>

-----------------------------------------------------------------------------
ReceiverGoesOn == Turn \/ NothingCompleted \/ Taken \/ Rejected \/ Invalidate \/ Submitted \/ Flush \/ FlushFails
ReceiverStep == ReceiverGoesOn \/ NoSample \/ MarkSubmit
CallbackStep == (\E o \in {"delivered", "dropped", "errors"} : CallBack(o)) \/ Replace \/ Count \/ Settle
RenderStep == Tick \/ TakeNothing \/ TakeFrame \/ Present \/ MissDrawable \/ RenderFails \/ CloseRenderer
WatchStep == WatchSleep \/ WatchPoll \/ Mark \/ WatchEnds

RunNext == Start \/ ReceiverStep \/ CallbackStep \/ RenderStep \/ WatchStep \/ Join

\* Every thread that can go on does, VideoToolbox calls back, and the render
\* loop comes round; nothing promises a unit or a refresh.
RunFairness ==
    /\ WF_runVars(ReceiverGoesOn)
    /\ WF_runVars(CallbackStep)
    /\ WF_runVars(TakeNothing \/ TakeFrame) /\ WF_runVars(Present \/ MissDrawable \/ RenderFails)
    /\ WF_runVars(CloseRenderer)
    /\ WF_runVars(WatchStep)
    /\ WF_runVars(Join)
RunSpec == RunInit /\ [][RunNext]_runVars /\ RunFairness

-----------------------------------------------------------------------------
Receiver == [at : {"none", "top", "receiving", "submitting", "submitted", "failing",
                   "failed", "flushing", "done"}, taken : 0..MaxUnits]
Tally == [decoded : Nat, dropped : Nat, errors : Nat]
Callback == [at : {"none", "delivered", "replaced", "decoded", "dropped", "errors"},
             frame : Unit \cup {NoFrame}, displaced : BOOLEAN]
Slot == [frame : Unit \cup {NoFrame}, published : Nat, superseded : Nat]
Render == [at : {"none", "idle", "tick", "drawing", "closed"}, frame : Unit \cup {NoFrame}]
Counters == [callbacks : Nat, rendered : Nat, empty : Nat, missed : Nat]
Watchdog == [at : {"none", "polling", "asleep", "marking", "ending", "ended"}, left : Int,
             seen : Nat, idle : Nat]

RunTypeOK ==
    /\ main \in {"starting", "rendering", "joining", "reported", "failed"}
    /\ stop \in BOOLEAN
    /\ receiver \in Receiver /\ progress \in Nat
    /\ inFlight \in Int /\ trailing \in Int
    /\ tally \in Tally
    /\ queue \in Seq(Unit)
    /\ callback \in Callback
    /\ slot \in Slot
    /\ render \in Render
    /\ counters \in Counters /\ span \in Counters
    /\ watchdog \in Watchdog

One(condition) == IF condition THEN 1 ELSE 0

\* The backlog the receive loop and the gate read is the units between
\* mark_submit and the end of their callback, the one in a slow sink included,
\* and nothing is left of it after the flush: it never passes below zero, where
\* the unsigned counter would wrap.
BacklogIsExact ==
    /\ receiver.at # "failed" =>
          inFlight = One(receiver.at = "submitting") + Len(queue) + One(callback # NoCallback)
    /\ inFlight >= 0
    /\ main = "reported" => trailing = 0

\* "Every decoded frame must be accounted for: shown, deliberately skipped, or
\* still held" (gate.rs:309), at every moment and not in the report only: what
\* went through the slot is in it, was superseded, was shown or lost its
\* drawable, or is in one thread's hands.
FramesAccounted ==
    /\ main # "failed" =>
          slot.published + One(callback.at = "replaced") =
            slot.superseded + One(callback.at = "replaced" /\ callback.displaced)
            + One(slot.frame # NoFrame) + One(render.at = "drawing")
            + counters.rendered + counters.missed
    /\ main = "reported" => tally.decoded = slot.published

\* A run that has started comes to an end, whatever the host, the decoder or
\* the display do: the stream never starts, stops, or never stops; the decoder
\* rejects a unit; the display link is suspended.
ClientRunEnds == main = "rendering" ~> main \in {"reported", "failed"}

\* What the marks were taken for: "no frame arrives after the last access unit,
\* so rendered and superseded cannot advance" in the drain (session.rs:258).
DrainIsStill == main = "reported" /\ watchdog.idle >= IdlePolls => counters.rendered = span.rendered
=============================================================================
