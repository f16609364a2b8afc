------------------------------ MODULE AudioLink ------------------------------
(***************************************************************************)
(* The audio receiver (macos/audio-render/src/receive.rs): the receive     *)
(* thread feeds the jitter buffer, the producer thread pulls a frame every *)
(* period, decodes or conceals it and fills the ring, the render callback  *)
(* drains it, and the main thread starts and ends the run.                 *)
(*                                                                         *)
(* The sender's packets are numbered 1..Len(stream); stream[i] is a        *)
(* packet's tick.  Any of them may arrive at any time, again, or never.    *)
(* The producer keeps a schedule and the rest is free, so every pull,      *)
(* arrival and cycle of the device may fall anywhere.                      *)
(***************************************************************************)
EXTENDS JitterBuffer, PcmRing

CONSTANTS Streams,      \* the streams of ticks a sender may send
          FirstSeq,     \* the sequence number of a stream's first packet
          Pulls,        \* frame periods in a run
          CycleFrames,  \* frames the device asks for in a cycle
          MaxArrivals,  \* bound: datagrams that arrive
          MaxCycles     \* bound: cycles of the device the ring had too little for

ASSUME AudioAssumption ==
  /\ \A stream \in Streams : stream \in Seq(Nat)
  /\ FirstSeq \in 0..(SeqModulus - 1)
  /\ Pulls \in Nat /\ CycleFrames \in Nat \ {0}
  /\ MaxArrivals \in Nat /\ MaxCycles \in Nat

VARIABLES stream,      \* the ticks of the packets sent
          loss,        \* Loss: base, highest, cycles, span and unique
          firstTick,   \* first_rtp
          tickSpan,    \* rtp_span
          listening,   \* the receive thread has not ended
          producer,    \* where the producer thread is
          pulls,       \* pulls it has made
          failures,    \* decode_failures
          main,        \* where the main thread is
          done, stop   \* the flags the threads share

linkVars == <<stream, loss, firstTick, tickSpan, listening, producer, pulls, failures, main, done, stop>>
vars == <<bufferVars, ringVars, linkVars>>

Init ==
  /\ BufferInit /\ RingInit
  /\ stream \in Streams
  /\ loss = [base |-> NotYet, highest |-> NotYet, cycles |-> 0, span |-> 0, unique |-> 0]
  /\ firstTick = NotYet /\ tickSpan = 0
  /\ listening = TRUE
  /\ producer = "waiting" /\ pulls = 0 /\ failures = 0
  /\ main = "waiting"
  /\ done = FALSE /\ stop = FALSE

\* The anchor is published as soon as there is one, under the buffer's lock.
PlayoutPublished == anchor # NotYet

(***************************************************************************)
(* The receive thread.                                                     *)
(***************************************************************************)
Packet(i) == [seq |-> (FirstSeq + i - 1) % SeqModulus, tick |-> stream[i]]

\* Defect: a packet behind the furthest seen is taken for a wrap.
LossArrived_AnyWrap(seq) ==
  LET wrapped == loss.cycles + (IF seq < loss.highest THEN SeqModulus ELSE 0)
  IN  IF loss.base = NotYet
        THEN [loss EXCEPT !.base = seq, !.highest = seq, !.span = 1, !.unique = @ + 1]
        ELSE [loss EXCEPT !.highest = seq, !.cycles = wrapped, !.unique = @ + 1,
                          !.span = wrapped + seq - loss.base + 1]

\* Loss::arrived: the span of the numbers seen, counted through their wraps.
LossArrived(seq) ==
  LET wrapped == loss.cycles + (IF seq < loss.highest THEN SeqModulus ELSE 0)
  IN  IF loss.base = NotYet
        THEN [loss EXCEPT !.base = seq, !.highest = seq, !.span = 1, !.unique = @ + 1]
        ELSE IF SeqDistance(seq, loss.highest) =< 0 THEN [loss EXCEPT !.unique = @ + 1]
        ELSE [loss EXCEPT !.highest = seq, !.cycles = wrapped, !.unique = @ + 1,
                          !.span = wrapped + seq - loss.base + 1]

Lost == IF loss.span > loss.unique THEN loss.span - loss.unique ELSE 0

\* Shared::produced: the first tick and the furthest beyond it.
Produced(tick) ==
  IF firstTick = NotYet THEN firstTick' = tick /\ UNCHANGED tickSpan
  ELSE /\ tickSpan' = IF tick - firstTick > tickSpan THEN tick - firstTick ELSE tickSpan
       /\ UNCHANGED firstTick

\* One turn of listen: the buffer is offered the packet, and unless it is a
\* copy its number and its tick are accounted for.
Receive(i) ==
  LET p == Packet(i)
  IN  /\ listening /\ ~stop
      /\ counts.received < MaxArrivals
      /\ Push(p)
      /\ IF IsSeen(p) THEN UNCHANGED <<loss, firstTick, tickSpan>>
         ELSE loss' = LossArrived(p.seq) /\ Produced(p.tick)
      /\ UNCHANGED <<ringVars, stream, listening, producer, pulls, failures, main, done, stop>>

\* The loop ends when it is told to, or on an error of the socket.
StopListening ==
  /\ listening
  /\ listening' = FALSE
  /\ UNCHANGED <<bufferVars, ringVars, stream, loss, firstTick, tickSpan, producer, pulls,
                 failures, main, done, stop>>

(***************************************************************************)
(* The producer thread.                                                    *)
(***************************************************************************)
ProducerOnly == UNCHANGED <<stream, loss, firstTick, tickSpan, listening, main, stop>>

\* No decoder, or no packet within its patience.
GiveUpProducing ==
  /\ producer = "waiting"
  /\ producer' = "ended" /\ done' = TRUE
  /\ UNCHANGED <<bufferVars, ringVars, pulls, failures>>
  /\ ProducerOnly

StartProducing ==
  /\ producer = "waiting" /\ PlayoutPublished
  /\ producer' = "pulling"
  /\ UNCHANGED <<bufferVars, ringVars, pulls, failures, done>>
  /\ ProducerOnly

\* The samples of the frame at a position, numbered from 1.
Samples(tick) == [k \in 1..FrameSamples |-> tick + k]

\* Pull a frame under the lock, decode or conceal it outside it, and offer it
\* to the ring.
Produce ==
  /\ producer = "pulling" /\ fill = Idle /\ pulls < Pulls
  /\ pulls' = pulls + 1
  /\ Pull
  /\ FillBegin(Samples(cursor))
  /\ UNCHANGED <<producer, failures, done>>
  /\ ProducerOnly

\* What was pulled could be neither decoded nor concealed.
FailToDecode ==
  /\ producer = "pulling" /\ fill = Idle /\ pulls < Pulls
  /\ pulls' = pulls + 1
  /\ Pull
  /\ failures' = failures + 1
  /\ UNCHANGED <<ringVars, producer, done>>
  /\ ProducerOnly

Fill ==
  /\ FillCopy \/ FillPublish
  /\ UNCHANGED <<bufferVars, linkVars>>

EndProducing ==
  /\ producer = "pulling" /\ fill = Idle /\ pulls = Pulls
  /\ producer' = "ended" /\ done' = TRUE
  /\ UNCHANGED <<bufferVars, ringVars, pulls, failures>>
  /\ ProducerOnly

(***************************************************************************)
(* The render callback, between the start of the device and its stop.      *)
(***************************************************************************)
DeviceRuns == main \in {"watching", "stopping"}

Cycle ==
  /\ DeviceRuns
  /\ Occupancy < CycleFrames => silence < MaxCycles
  /\ DrainBegin(CycleFrames)
  /\ UNCHANGED <<bufferVars, linkVars>>

Drain ==
  /\ DrainCopy \/ DrainPublish
  /\ UNCHANGED <<bufferVars, linkVars>>

(***************************************************************************)
(* The main thread.                                                        *)
(***************************************************************************)
MainOnly ==
  UNCHANGED <<bufferVars, ringVars, stream, loss, firstTick, tickSpan, listening, producer, pulls,
              failures, done>>

\* Nothing was published within its patience: refuse, once both have ended.
Refuse ==
  /\ main = "waiting" /\ ~PlayoutPublished
  /\ main' = "refusing" /\ stop' = TRUE
  /\ MainOnly

Await ==
  /\ main = "waiting" /\ PlayoutPublished
  /\ main' = "priming"
  /\ UNCHANGED stop
  /\ MainOnly

\* The ring is primed, the producer is done, or the wait for it has run out.
StartDevice ==
  /\ main = "priming"
  /\ main' = "watching"
  /\ UNCHANGED stop
  /\ MainOnly

\* The device would not start: the error leaves the scope, which joins the
\* threads, and nobody has told the receiver to stop.
DeviceFails ==
  /\ main = "priming"
  /\ main' = "failing"
  /\ UNCHANGED stop
  /\ MainOnly

\* Defect: the receiver is not told that the run is over.
StopRun_Quietly ==
  /\ main = "watching" /\ done
  /\ main' = "stopping"
  /\ UNCHANGED stop
  /\ MainOnly

\* watch ends with the producer, and the receiver is told before the device is
\* taken down.
StopRun ==
  /\ main = "watching" /\ done
  /\ main' = "stopping" /\ stop' = TRUE
  /\ MainOnly

\* Once the callback has been destroyed it runs no more.
StopDevice ==
  /\ main = "stopping" /\ drain = Idle
  /\ main' = "joining"
  /\ UNCHANGED stop
  /\ MainOnly

Joined == ~listening /\ producer = "ended"

Finish ==
  /\ main \in {"joining", "refusing", "failing"} /\ Joined
  /\ main' = IF main = "joining" THEN "reported" ELSE "refused"
  /\ UNCHANGED stop
  /\ MainOnly

Next ==
  \/ \E i \in DOMAIN stream : Receive(i)
  \/ StopListening
  \/ GiveUpProducing \/ StartProducing \/ Produce \/ FailToDecode \/ Fill \/ EndProducing
  \/ Cycle \/ Drain
  \/ Refuse \/ Await \/ StartDevice \/ DeviceFails \/ StopRun \/ StopDevice \/ Finish

Spec == Init /\ [][Next]_vars

(***************************************************************************)
(* Every wait has a deadline, the producer keeps its schedule to the end,  *)
(* the receive loop looks at the flag after each read and each timeout of  *)
(* one, and a callback that began returns.                                 *)
(***************************************************************************)
Fairness ==
  /\ WF_vars(stop /\ StopListening)
  /\ WF_vars(GiveUpProducing \/ StartProducing \/ Produce \/ Fill \/ EndProducing)
  /\ WF_vars(Drain)
  /\ WF_vars(Refuse \/ Await \/ StartDevice \/ StopRun \/ StopDevice \/ Finish)

FairSpec == Spec /\ Fairness
-----------------------------------------------------------------------------
(***************************************************************************)
(* The samples invariant a receipt reports (receive.rs, Invariant and      *)
(* Receipt::invariant): what the stream says was sent and what was         *)
(* invented, less what reached nobody and what was played, is what the two *)
(* buffers hold.                                                           *)
(***************************************************************************)
ProducedSamples == IF firstTick = NotYet THEN 0 ELSE tickSpan + FrameSamples
Inserted  == counts.concealed * FrameSamples
Discarded == (Lost + counts.late + counts.offGrid + counts.skipped + failures) * FrameSamples + refused
HeldSamples == Occupied * FrameSamples + Occupancy
Residual == ProducedSamples + Inserted - Discarded - read - HeldSamples

\* Packets from before the first one heard that no loss hides.
Unexpected == IF loss.unique > loss.span THEN loss.unique - loss.span ELSE 0

\* Between two deposits nothing is missing from the account, for any loss,
\* order, duplication, underrun, skip and refusal, and whichever of four threads
\* moved last; it is short only by packets from before the first one heard, which
\* are discarded as late and were never counted as produced.
SamplesBalance ==
  fill = Idle /\ counts.offGrid = 0 => Residual = -FrameSamples * Unexpected

\* Each moment of the stream is played at most once and in order, through every
\* concealment, skip and refusal, although the device reads cells the producer
\* is writing over.
HeardForward == \A i \in 1..(Len(heard) - 1) : heard[i] < heard[i + 1]

\* The ring is a bounded queue, however the threads interleave.
RingKeepsQueue == Bounded!QueueSpec

\* A run ends: when its pulls are made the receiver is told, both threads are
\* joined, and there is a receipt or a refusal.  A device that would not start
\* is the exception: nobody tells the receiver.
RunEnds == <>(main \in {"reported", "refused", "failing"})
=============================================================================
