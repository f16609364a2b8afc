---------------------------- MODULE ScreenCapture ----------------------------
(***************************************************************************)
(* The screen the host captures (windows/capture/src/wgc.rs, and its use   *)
(* in capture_into_surface of tools/nvenc-probe/src/main.rs): a pool of a  *)
(* few buffers the compositor fills, two callbacks on its threads, and one *)
(* consumer that takes the newest frame or sleeps on a condition variable. *)
(*                                                                         *)
(* The compositor is the platform's: it puts a frame in the pool while a   *)
(* buffer is free and calls FrameArrived some time after; it may close the *)
(* item at any time and then calls Closed.  A callback under way when it   *)
(* is removed may still run.  The pictures, their sizes and times, and the *)
(* counters are left out.                                                  *)
(***************************************************************************)
EXTENDS Integers, Sequences

CONSTANTS Buffers,      \* buffers of the pool
          MaxRendered,  \* bound: frames the compositor puts in a pool
          MaxRestarts   \* bound: times the capture is built again

ASSUME ScreenAssumption ==
  Buffers \in Nat \ {0} /\ MaxRendered \in Nat /\ MaxRestarts \in Nat

Nothing == 0   \* Option::None; frames are numbered from 1

VARIABLES arrived,   \* Shared.arrived: the flag the consumer sleeps on
          lost,      \* Shared.lost
          pool,      \* frames in the pool, oldest first
          rendered,  \* frames put in a pool so far
          raising,   \* FrameArrived callbacks that have yet to signal
          item,      \* open, closed, or where its Closed callback is
          reader,    \* where the consumer is
          newest,    \* the frame its drain has kept
          lent,      \* GraphicsCapture.held: the frame the caller looks at
          answer,    \* what the last acquire returned
          restarts

shared == <<arrived, lost>>
compositor == <<pool, rendered, raising, item>>
consumer == <<reader, newest, lent, answer, restarts>>
screenVars == <<shared, compositor, consumer>>

ScreenInit ==
  /\ arrived = FALSE /\ lost = FALSE
  /\ pool = <<>> /\ rendered = 0 /\ raising = 0 /\ item = "open"
  /\ reader = "idle" /\ newest = Nothing /\ lent = Nothing
  /\ answer = "none" /\ restarts = 0

(***************************************************************************)
(* The compositor and its callbacks.                                       *)
(***************************************************************************)
Out == IF newest = Nothing /\ lent = Nothing THEN 0
       ELSE IF newest # Nothing /\ lent # Nothing THEN 2 ELSE 1

Render ==
  /\ item # "closed" /\ rendered < MaxRendered
  /\ Len(pool) + Out < Buffers
  /\ rendered' = rendered + 1
  /\ pool' = Append(pool, rendered')
  /\ raising' = raising + 1
  /\ UNCHANGED <<shared, item, consumer>>

\* Shared::signal.
FrameArrived ==
  /\ raising > 0 /\ raising' = raising - 1
  /\ arrived' = TRUE
  /\ UNCHANGED <<lost, pool, rendered, item, consumer>>

CloseItem ==
  /\ item = "open" /\ item' = "closing"
  /\ UNCHANGED <<shared, pool, rendered, raising, consumer>>

\* The Closed callback: the mark first, then the wake.
MarkLost ==
  /\ item = "closing" /\ item' = "marked"
  /\ lost' = TRUE
  /\ UNCHANGED <<arrived, pool, rendered, raising, consumer>>

WakeForLoss ==
  /\ item = "marked" /\ item' = "closed"
  /\ arrived' = TRUE
  /\ UNCHANGED <<lost, pool, rendered, raising, consumer>>

(***************************************************************************)
(* The consumer: one acquire after another.                                *)
(***************************************************************************)
Answers(what) == reader' = "idle" /\ answer' = what

\* The frame of the last acquire goes back first; then the mark is read.
Acquire ==
  /\ reader = "idle" /\ answer \in {"none", "frame", "timeout"}
  /\ lent' = Nothing
  /\ IF lost THEN Answers("lost") ELSE reader' = "take" /\ UNCHANGED answer
  /\ UNCHANGED <<shared, compositor, newest, restarts>>

\* Defect: the flag is taken after the look into the pool, on the way to the wait.
TakeFlag_AfterDrain ==
  /\ \/ reader = "take" /\ reader' = "drain" /\ UNCHANGED arrived
     \/ reader = "sleep" /\ arrived' = FALSE /\ UNCHANGED reader
  /\ UNCHANGED <<lost, compositor, newest, lent, answer, restarts>>

\* Shared::take, before the first look into the pool.
TakeFlag ==
  /\ reader = "take" /\ reader' = "drain"
  /\ arrived' = FALSE
  /\ UNCHANGED <<lost, compositor, newest, lent, answer, restarts>>

\* The drain takes a frame and closes the one before it.
DrainFrame ==
  /\ reader = "drain" /\ pool # <<>>
  /\ newest' = Head(pool) /\ pool' = Tail(pool)
  /\ UNCHANGED <<shared, rendered, raising, item, reader, lent, answer, restarts>>

\* The pool is empty: there is a frame, or a wait, or the deadline has passed.
DrainEnds ==
  /\ reader = "drain" /\ pool = <<>>
  /\ \/ newest # Nothing /\ reader' = "deliver" /\ UNCHANGED answer
     \/ newest = Nothing /\ reader' = "sleep" /\ UNCHANGED answer
     \/ newest = Nothing /\ Answers("timeout")
  /\ UNCHANGED <<shared, compositor, newest, lent, restarts>>

\* The pool refuses: the capture is gone, or a call went wrong.
DrainFails ==
  /\ reader = "drain"
  /\ newest' = Nothing
  /\ \E what \in {"lost", "error"} : Answers(what)
  /\ UNCHANGED <<shared, compositor, lent, restarts>>

\* Shared::wait returns and takes the flag: announced, or out of time.
WaitReturns ==
  /\ reader = "sleep"
  /\ IF arrived THEN reader' = "woken" /\ UNCHANGED answer ELSE Answers("timeout")
  /\ arrived' = FALSE
  /\ UNCHANGED <<lost, compositor, newest, lent, restarts>>

Woken ==
  /\ reader = "woken"
  /\ IF lost THEN Answers("lost") ELSE reader' = "drain" /\ UNCHANGED answer
  /\ UNCHANGED <<shared, compositor, newest, lent, restarts>>

\* The newest frame is lent to the caller; if the screen has another size the
\* pool is made anew and what lay in it is gone.
Deliver ==
  /\ reader = "deliver"
  /\ lent' = newest /\ newest' = Nothing
  /\ Answers("frame")
  /\ pool' \in {pool, <<>>}
  /\ UNCHANGED <<shared, rendered, raising, item, restarts>>

\* The texture, the time or the new pool is refused: the frame is closed.
DeliverFails ==
  /\ reader = "deliver"
  /\ newest' = Nothing
  /\ Answers("error")
  /\ UNCHANGED <<shared, compositor, lent, restarts>>

\* After Lost: stop, and build again with the same configuration.
Restart ==
  /\ reader = "idle" /\ answer = "lost" /\ restarts < MaxRestarts
  /\ restarts' = restarts + 1
  /\ lost' = FALSE /\ arrived' = FALSE
  /\ pool' = <<>> /\ lent' = Nothing
  /\ raising' \in 0..raising
  /\ item' \in IF item \in {"closing", "marked"} THEN {"open", item} ELSE {"open"}
  /\ answer' = "none"
  /\ UNCHANGED <<rendered, reader, newest>>

\* No frame for a second, or the restart is refused: the run ends with an error.
GiveUpScreen ==
  /\ reader = "idle" /\ answer \in {"lost", "timeout"}
  /\ answer' = "error"
  /\ UNCHANGED <<shared, compositor, reader, newest, lent, restarts>>

ScreenNext ==
  \/ Render \/ FrameArrived \/ CloseItem \/ MarkLost \/ WakeForLoss
  \/ Acquire \/ TakeFlag \/ DrainFrame \/ DrainEnds \/ DrainFails \/ WaitReturns \/ Woken
  \/ Deliver \/ DeliverFails \/ Restart \/ GiveUpScreen

ScreenSpec == ScreenInit /\ [][ScreenNext]_screenVars

Asleep == reader = "sleep" /\ ~arrived

ScreenTypeOK ==
  /\ arrived \in BOOLEAN /\ lost \in BOOLEAN
  /\ pool \in Seq(1..MaxRendered) /\ rendered \in 0..MaxRendered /\ raising \in Nat
  /\ item \in {"open", "closing", "marked", "closed"}
  /\ reader \in {"idle", "take", "drain", "sleep", "woken", "deliver"}
  /\ {newest, lent} \subseteq 0..MaxRendered
  /\ answer \in {"none", "frame", "timeout", "lost", "error"}
  /\ restarts \in 0..MaxRestarts

\* A consumer that sleeps and has no wake to come for it sleeps through no
\* frame: every frame in the pool still has its FrameArrived before it.  And it
\* sleeps with no buffer in its hands, which the compositor could not refill.
NothingSleptThrough ==
  Asleep => Len(pool) <= raising /\ Out = 0

\* "Wake a consumer parked in `acquire`, or it would sit there until its timeout
\* for a frame that can never come" (wgc.rs:358): once the callback of the close
\* has run, no consumer sleeps with no wake to come.
ClosedWakesConsumer == Asleep => item # "closed"
=============================================================================
