------------------------------ MODULE VideoHost ------------------------------
(***************************************************************************)
(* The pictures the host sends (run_pipeline and complete_work of          *)
(* tools/nvenc-probe/src/main.rs, over windows/encoder-nvenc/src/lib.rs):  *)
(* one thread takes a slot, draws into its texture and submits it to the   *)
(* encoder; another waits for the encoder, takes the bitstream, sends it   *)
(* and gives the slot back.  They meet over two bounded channels, the free *)
(* slots and the work, and over one flag that says that a frame failed.    *)
(*                                                                         *)
(* The encoder is the hardware: it ends a picture at any later time, or    *)
(* never.  A datagram the socket refuses is only counted (main.rs:239) and *)
(* is the network's loss, not the pipeline's.  Pacing, the measurements of *)
(* a frame, the warm-up, and the watchdog that ends the process are left   *)
(* out, and a panic.                                                       *)
(***************************************************************************)
EXTENDS Integers, Sequences

CONSTANTS SlotCount,   \* slots of the pool (SLOT_COUNT, 4)
          FrameCount   \* frames the run is asked for

ASSUME VideoAssumption == SlotCount \in Nat \ {0} /\ FrameCount \in Nat \ {0}

PoolSlots == 1..SlotCount
NoSlot == 0
FrameIds == 0..(FrameCount - 1)
Work == [slot : PoolSlots, frame : FrameIds]
NoWork == [slot |-> NoSlot, frame |-> 0]

VARIABLES submitter,   \* where the submit thread is in its turn
          inHand,      \* the slot it has taken
          submitted,   \* frames queued for completion
          gaveUp,      \* it left its loop by an error of its own
          freeSlots,   \* the channel of free slots, oldest first
          workQueue,   \* the channel of work, oldest first
          accepting,   \* work_tx is still alive
          completer,   \* where the completion thread is in its turn
          working,     \* the work it has received
          copied,      \* the picture it has copied out of the bitstream
          failed,      \* the flag both threads read
          results,     \* what became of each frame received
          encoder,     \* the hardware: what it does with each slot
          onWire,      \* frames sent: the number on the label, and the picture
          outcome      \* what the run returned

submitVars == <<submitter, inHand, submitted, gaveUp, accepting, outcome>>
completeVars == <<completer, working, copied, results, onWire>>
videoVars == <<submitVars, completeVars, freeSlots, workQueue, failed, encoder>>

Idle == [busy |-> FALSE, picture |-> 0]

VideoInit ==
  /\ submitter = "loop" /\ inHand = NoSlot /\ submitted = 0 /\ gaveUp = FALSE
  /\ freeSlots = [i \in 1..SlotCount |-> i]
  /\ workQueue = <<>> /\ accepting = TRUE
  /\ completer = "receive" /\ working = NoWork /\ copied = 0 /\ results = <<>>
  /\ failed = FALSE
  /\ encoder = [s \in PoolSlots |-> Idle]
  /\ onWire = <<>>
  /\ outcome = "none"

(***************************************************************************)
(* The submit thread.                                                      *)
(***************************************************************************)
submitOnly == UNCHANGED <<completeVars, failed>>

\* The head of the loop: another frame, unless all are submitted or one failed.
NextFrame ==
  /\ submitter = "loop"
  /\ submitter' = IF submitted < FrameCount /\ ~failed THEN "slot" ELSE "leave"
  /\ UNCHANGED <<inHand, submitted, gaveUp, accepting, outcome, freeSlots, workQueue, encoder>>
  /\ submitOnly

\* free_rx.try_recv(): a slot, or the pool is exhausted and the thread spins.
TakeSlot ==
  /\ submitter = "slot"
  /\ IF freeSlots = <<>>
     THEN submitter' = "spin" /\ UNCHANGED <<inHand, freeSlots>>
     ELSE /\ submitter' = "draw"
          /\ inHand' = Head(freeSlots) /\ freeSlots' = Tail(freeSlots)
  /\ UNCHANGED <<submitted, gaveUp, accepting, outcome, workQueue, encoder>>
  /\ submitOnly

\* The turn of the spin: it ends at a failure, or looks for a slot again.
Spin ==
  /\ submitter = "spin"
  /\ submitter' = IF failed THEN "leave" ELSE "slot"
  /\ UNCHANGED <<inHand, submitted, gaveUp, accepting, outcome, freeSlots, workQueue, encoder>>
  /\ submitOnly

\* The picture is drawn or captured into the slot's texture, converted, mapped.
Draw ==
  /\ submitter = "draw" /\ submitter' = "submit"
  /\ UNCHANGED <<inHand, submitted, gaveUp, accepting, outcome, freeSlots, workQueue, encoder>>
  /\ submitOnly

\* encode_submit: the hardware has the texture and the output of the slot.
EncodeSubmit ==
  /\ submitter = "submit" /\ submitter' = "queue"
  /\ encoder' = [encoder EXCEPT ![inHand] = [busy |-> TRUE, picture |-> submitted]]
  /\ UNCHANGED <<inHand, submitted, gaveUp, accepting, outcome, freeSlots, workQueue>>
  /\ submitOnly

\* No capture for a second, or the driver refuses: `?` leaves the scope, and
\* the slot in hand goes with it.
GiveUp ==
  /\ submitter \in {"draw", "submit"}
  /\ submitter' = "leave" /\ gaveUp' = TRUE
  /\ UNCHANGED <<inHand, submitted, accepting, outcome, freeSlots, workQueue, encoder>>
  /\ submitOnly

\* work_tx.send(): it would wait for room.
QueueWork ==
  /\ submitter = "queue" /\ Len(workQueue) < SlotCount
  /\ workQueue' = Append(workQueue, [slot |-> inHand, frame |-> submitted])
  /\ submitter' = "loop" /\ inHand' = NoSlot /\ submitted' = submitted + 1
  /\ UNCHANGED <<gaveUp, accepting, outcome, freeSlots, encoder>>
  /\ submitOnly

\* drop(work_tx), or its drop with the frame of the closure that `?` left.
Leave ==
  /\ submitter = "leave" /\ submitter' = "join"
  /\ accepting' = FALSE
  /\ UNCHANGED <<inHand, submitted, gaveUp, outcome, freeSlots, workQueue, encoder>>
  /\ submitOnly

\* Defect: the results are counted and not looked at.
Collect_Counts ==
  /\ submitter = "join" /\ completer = "ended"
  /\ submitter' = "ended"
  /\ outcome' = IF ~gaveUp /\ submitted = FrameCount /\ Len(results) >= submitted
                THEN "good" ELSE "error"
  /\ UNCHANGED <<inHand, submitted, gaveUp, accepting, freeSlots, workQueue, encoder>>
  /\ submitOnly

\* The join, and the results: one for each frame submitted.
Collect ==
  /\ submitter = "join" /\ completer = "ended"
  /\ submitter' = "ended"
  /\ outcome' = IF ~gaveUp /\ submitted = FrameCount /\ Len(results) >= submitted
                     /\ \A i \in 1..submitted : results[i] = "ok"
                THEN "good" ELSE "error"
  /\ UNCHANGED <<inHand, submitted, gaveUp, accepting, freeSlots, workQueue, encoder>>
  /\ submitOnly

(***************************************************************************)
(* The completion thread.                                                  *)
(***************************************************************************)
completeOnly == UNCHANGED submitVars

\* work_rx.recv(): work, or the end of the channel.
TakeWork ==
  /\ completer = "receive"
  /\ \/ /\ workQueue # <<>>
        /\ completer' = "check"
        /\ working' = Head(workQueue) /\ workQueue' = Tail(workQueue)
     \/ /\ workQueue = <<>> /\ ~accepting
        /\ completer' = "ended" /\ UNCHANGED <<working, workQueue>>
  /\ UNCHANGED <<copied, results, onWire, freeSlots, failed, encoder>>
  /\ completeOnly

\* Defect: what is already in the encoder is still waited for and sent.
CheckFailed_GoesOn ==
  /\ completer = "check" /\ completer' = "wait"
  /\ UNCHANGED <<working, copied, results, onWire, freeSlots, workQueue, failed, encoder>>
  /\ completeOnly

\* After a failure the work is only given back.
CheckFailed ==
  /\ completer = "check"
  /\ completer' = IF failed THEN "fail" ELSE "wait"
  /\ UNCHANGED <<working, copied, results, onWire, freeSlots, workQueue, failed, encoder>>
  /\ completeOnly

\* The event of the slot's output is signalled.
Completed ==
  /\ completer = "wait" /\ ~encoder[working.slot].busy
  /\ completer' = "lock"
  /\ UNCHANGED <<working, copied, results, onWire, freeSlots, workQueue, failed, encoder>>
  /\ completeOnly

\* Defect: the wait has no ceiling.
CompletionFails_WaitsForEver ==
  /\ completer \in {"lock", "send"}
  /\ completer' = "fail"
  /\ UNCHANGED <<working, copied, results, onWire, freeSlots, workQueue, failed, encoder>>
  /\ completeOnly

\* The wait reaches its ceiling or fails; the bitstream cannot be locked, is
\* not one, or cannot be unlocked; the unit cannot be packetized.
CompletionFails ==
  /\ completer \in {"wait", "lock", "send"}
  /\ completer' = "fail"
  /\ UNCHANGED <<working, copied, results, onWire, freeSlots, workQueue, failed, encoder>>
  /\ completeOnly

\* Locked, copied and unlocked: the slot may be written again.
CopyBitstream ==
  /\ completer = "lock" /\ completer' = "send"
  /\ copied' = encoder[working.slot].picture
  /\ UNCHANGED <<working, results, onWire, freeSlots, workQueue, failed, encoder>>
  /\ completeOnly

\* The copy goes to the wire under the number of the frame.
SendPicture ==
  /\ completer = "send" /\ completer' = "report"
  /\ onWire' = Append(onWire, [label |-> working.frame, picture |-> copied])
  /\ UNCHANGED <<working, copied, results, freeSlots, workQueue, failed, encoder>>
  /\ completeOnly

\* Defect: the failure is reported and the flag is left down.
RaiseFailed_Forgets ==
  /\ completer = "fail" /\ completer' = "report failure"
  /\ UNCHANGED <<working, copied, results, onWire, freeSlots, workQueue, failed, encoder>>
  /\ completeOnly

\* The flag goes up before anything of the frame is given back.
RaiseFailed ==
  /\ completer = "fail" /\ completer' = "report failure"
  /\ failed' = TRUE
  /\ UNCHANGED <<working, copied, results, onWire, freeSlots, workQueue, encoder>>
  /\ completeOnly

\* The result, then the slot.
GiveBack ==
  /\ completer \in {"report", "report failure"}
  /\ results' = Append(results, IF completer = "report" THEN "ok" ELSE "err")
  /\ freeSlots' = Append(freeSlots, working.slot)
  /\ completer' = "receive" /\ working' = NoWork
  /\ UNCHANGED <<copied, onWire, workQueue, failed, encoder>>
  /\ completeOnly

(***************************************************************************)
(* The hardware.                                                           *)
(***************************************************************************)
HardwareEnds(s) ==
  /\ encoder[s].busy
  /\ encoder' = [encoder EXCEPT ![s].busy = FALSE]
  /\ UNCHANGED <<submitVars, completeVars, freeSlots, workQueue, failed>>

SubmitNext == NextFrame \/ TakeSlot \/ Spin \/ Draw \/ EncodeSubmit \/ GiveUp \/ QueueWork
                \/ Leave \/ Collect
CompleteNext == TakeWork \/ CheckFailed \/ Completed \/ CompletionFails \/ CopyBitstream
                  \/ SendPicture \/ RaiseFailed \/ GiveBack

VideoNext == SubmitNext \/ CompleteNext \/ \E s \in PoolSlots : HardwareEnds(s)

\* Both threads go on while they can, and the calls they make return: into the
\* driver, the socket and the capture, which gives up after a second.  Only the
\* encoder owes nothing: the wait for it returns, by its event or at its ceiling.
VideoFairness == WF_videoVars(SubmitNext) /\ WF_videoVars(CompleteNext)

VideoSpec == VideoInit /\ [][VideoNext]_videoVars /\ VideoFairness

SubmitSteps == {"loop", "slot", "spin", "draw", "submit", "queue", "leave", "join", "ended"}
CompleteSteps == {"receive", "check", "wait", "lock", "send", "fail", "report",
                  "report failure", "ended"}
Pictures == [label : FrameIds, picture : FrameIds]

VideoTypeOK ==
  /\ submitter \in SubmitSteps /\ completer \in CompleteSteps
  /\ inHand \in PoolSlots \cup {NoSlot} /\ submitted \in 0..FrameCount
  /\ gaveUp \in BOOLEAN /\ accepting \in BOOLEAN /\ failed \in BOOLEAN
  /\ freeSlots \in Seq(PoolSlots) /\ workQueue \in Seq(Work)
  /\ working \in Work \cup {NoWork} /\ copied \in FrameIds
  /\ results \in Seq({"ok", "err"}) /\ onWire \in Seq(Pictures)
  /\ encoder \in [PoolSlots -> [busy : BOOLEAN, picture : FrameIds]]
  /\ outcome \in {"none", "good", "error"}

\* What the client is sent is the first frames of the run, in order, each once
\* and each under its own number: a frame refers to those before it, so after
\* one that failed none of those already in the encoder may follow it, and a
\* slot used again too early would put a later picture under its number.
WireHoldsNoGap ==
  \A i \in 1..Len(onWire) : onWire[i] = [label |-> i - 1, picture |-> i - 1]

Free == {freeSlots[i] : i \in DOMAIN freeSlots}
Queued == {workQueue[i].slot : i \in DOMAIN workQueue}

\* A slot is in one place and only one: free, queued for completion, or in the
\* hands of a thread.
SlotsAreSomewhere ==
  /\ \A i, j \in DOMAIN freeSlots : freeSlots[i] = freeSlots[j] => i = j
  /\ \A i, j \in DOMAIN workQueue : workQueue[i].slot = workQueue[j].slot => i = j
  /\ Free \cap Queued = {}
  /\ {inHand, working.slot} \cap (Free \cup Queued) = {}
  /\ inHand = working.slot => inHand = NoSlot
  /\ PoolSlots \subseteq Free \cup Queued \cup {inHand, working.slot}

\* Unless a frame has failed, no texture is drawn into and no slot lies free
\* while the encoder still reads it.
NoneIsOverwritten ==
  ~failed =>
    /\ submitter \in {"draw", "submit"} => ~encoder[inHand].busy
    /\ \A i \in DOMAIN freeSlots : ~encoder[freeSlots[i]].busy

\* The pool loses no slot and doubles none, and none is handed on too early.
SlotsAreSound == SlotsAreSomewhere /\ NoneIsOverwritten

\* A run is called good only when every frame asked for went to the wire, an
\* error has a cause, and when the completion thread has ended there is one
\* result for each frame submitted: the submit thread receives no more and no
\* fewer.
RunIsJudged ==
  /\ outcome = "good" => Len(onWire) = FrameCount
  /\ outcome = "error" => gaveUp \/ failed
  /\ completer = "ended" => Len(results) = submitted

\* What the wire holds and what the run says of it agree: the first frames of
\* the run without a gap, all of them if it is called good, and an error only
\* where there was one.
StreamIsTrue == WireHoldsNoGap /\ RunIsJudged

\* A run that has begun ends, whatever the encoder does: a frame it never ends
\* costs the run, not the two threads.
PicturesEnd == (submitter = "slot") ~> (outcome # "none")
=============================================================================
